--------------------------- MODULE GatewayRuntime ---------------------------
(***************************************************************************)
(* GatewayControlledProviderV1 of agent_gateway_runtime.rs: the calls of   *)
(* one tool request, each a thread running execute(), over the coordinator *)
(* (GatewayCoordinator) and a workspace that is edited meanwhile.          *)
(*                                                                         *)
(* One request is modelled, so a binding is what resolve() computes from   *)
(* the workspace: its observed content and, when the observation of that   *)
(* content carries full file identities (mtime and ctime), the stamp of    *)
(* the last change (Stamped).  Observed files that do not exist are        *)
(* negative dependencies, which encode no timestamp                        *)
(* (observe_negative_dependency): the binding is then the content alone.   *)
(* The provider returns the content it reads.                              *)
(***************************************************************************)
EXTENDS GatewayCoordinator

CONSTANTS
    Stamped,      \* the contents whose observation binds timestamps
    MaxClock,     \* bound on the wall clock
    MaxWrites,    \* bound on edits of the workspace
    Validity,     \* resolve(): valid_until_ms = now + 60 000
    FilesFail     \* blob files can be damaged or lost

VARIABLES
    clock,     \* the wall clock in ms, here never stepping back
    ws,        \* content of the observed part of the workspace
    stamp,     \* number of edits, what a ctime tells apart
    poisoned,  \* ObservedManifestV1.poison: an observation once failed
    recent,    \* recent_candidates: the binding of the remembered candidate
    pc,        \* where a call's thread is in execute()
    local,     \* what a running thread holds (Local)
    ans,       \* what the call returned
    crashed    \* the one crash of the daemon has happened

threads == <<pc, local, ans>>
world == <<clock, ws, stamp, poisoned, recent, crashed>>
rvars == <<vars, threads, world>>

ASSUME RuntimeAssumptions ==
    /\ Stamped \subseteq Content /\ FilesFail \in BOOLEAN
    /\ MaxClock \in Nat /\ MaxWrites \in Nat /\ Validity \in Nat
    /\ Binding = Content \X (0..MaxWrites)
    /\ Request = Binding
    /\ \A b \in Binding : RequestOf[b] = b

FollowerPc == {"fproof", "fwait", "frevalidate", "fcancel"}
LeaderPc == {"exec", "after", "lrevalidate", "insert", "complete", "fail"}
Pc == {"idle", "resolve", "acquire", "proof", "load", "revalidate", "record",
       "start", "startfail", "direct", "done", "dead"} \cup FollowerPc \cup LeaderPc

Answer == {"none", "direct", "led", "exact", "joined", "stale", "error"}

\* bnd: the binding resolved; until: its valid_until_ms; held: the value loaded
\* from the store or executed; flag: the cancelled AtomicBool, not set, set, or
\* set by a cancel() that has returned; hbFailed: the heartbeat_failed
\* AtomicBool; seen: the contents of the workspace since the call began, a ghost.
Local == [bnd : Binding \cup {None}, until : Nat, held : Content \cup {None},
          flag : {"no", "set", "closed"}, hbFailed : BOOLEAN, seen : SUBSET Content]
NoLocal == [bnd |-> None, until |-> 0, held |-> None, flag |-> "no",
            hbFailed |-> FALSE, seen |-> {}]

RInit ==
    /\ Init
    /\ clock = 0 /\ ws \in Content /\ stamp = 0
    /\ poisoned = FALSE /\ crashed = FALSE /\ recent = None
    /\ pc = [c \in Call |-> "idle"]
    /\ local = [c \in Call |-> NoLocal]
    /\ ans = [c \in Call |-> "none"]

-----------------------------------------------------------------------------
Digest == <<ws, IF ws \in Stamped THEN stamp ELSE 0>>
Bnd(c) == local[c].bnd
IdOf(c) == <<Bnd(c), Bnd(c)>>
WindowOf(c) == [observed |-> 0, until |-> local[c].until]
Fresh(c) == FreshnessIsCurrent(WindowOf(c), clock)
StoredValue(b) == source[b].content

Goto(c, p) == pc' = [pc EXCEPT ![c] = p]
Hold(c, v) == local' = [local EXCEPT ![c].held = v]

\* The thread returns; a reused value the workspace never had during the call
\* is noted as stale.
Finish(c) ==
    /\ Goto(c, "done")
    /\ local' = [local EXCEPT ![c] = [NoLocal EXCEPT !.flag = local[c].flag]]
Return(c, kind) == ans' = [ans EXCEPT ![c] = kind]
Serve(c, kind, v) == Return(c, IF v \in local[c].seen THEN kind ELSE "stale")

\* get_gateway_result: the row is read and fully verified, nothing is written
Loadable(b) == Servable(lease, gresult, <<b, b>>)

Cancelled(c) == local[c].flag # "no"

\* resolve() again: the binding digest must be the one resolved before
Unchanged(c) == ~poisoned /\ Digest = Bnd(c)

-----------------------------------------------------------------------------
(* The entry of execute() and the acquisition.                             *)

\* Preload the remembered candidate, before any observation of the workspace
Begin(c) ==
    LET hit == recent # None /\ Loadable(recent) IN
    /\ pc[c] = "idle"
    /\ local' = [local EXCEPT ![c] = [NoLocal EXCEPT
          !.held = IF hit THEN StoredValue(recent) ELSE None,
          !.bnd = IF hit THEN recent ELSE None,
          !.seen = {ws}]]
    /\ Goto(c, "resolve")
    /\ UNCHANGED <<vars, world, ans>>

\* Slip: a preloaded candidate's binding is used without observing again
ResolveFromCandidate(c) ==
    /\ pc[c] = "resolve"
    /\ ~poisoned
    /\ local' = [local EXCEPT ![c].bnd = IF @ = None THEN Digest ELSE @,
                              ![c].until = clock + Validity]
    /\ Goto(c, "acquire")
    /\ UNCHANGED <<vars, world, ans>>

\* A failed observation poisons the manifest for the life of the process, and
\* the call runs outside the coordinator.
Resolve(c) ==
    /\ pc[c] = "resolve"
    /\ \/ /\ ~poisoned
          /\ local' = [local EXCEPT ![c].bnd = Digest, ![c].until = clock + Validity,
                                    ![c].held = IF Bnd(c) = Digest THEN @ ELSE None]
          /\ Goto(c, "acquire")
          /\ UNCHANGED poisoned
       \/ /\ poisoned' = TRUE
          /\ Goto(c, "direct")
          /\ UNCHANGED local
    /\ UNCHANGED <<vars, clock, ws, stamp, recent, crashed, ans>>

RouteOf(row) ==
    CASE row.role = "ready" -> "proof"
      [] row.role = "follower" -> "fproof"
      [] row.role = "leader" -> "start"
      [] OTHER -> "direct"

AcquireStep(c) ==
    /\ pc[c] = "acquire"
    /\ \/ Fresh(c) /\ Acquire(c, Bnd(c), WindowOf(c), clock) /\ Goto(c, RouteOf(request'[c]))
       \/ ~Fresh(c) /\ Goto(c, "direct") /\ UNCHANGED vars
    /\ UNCHANGED <<world, local, ans>>

\* execute_direct: the provider runs outside the coordinator
Direct(c) ==
    /\ pc[c] = "direct"
    /\ Return(c, "direct")
    /\ Finish(c)
    /\ UNCHANGED <<vars, world>>

-----------------------------------------------------------------------------
(* The exact route.                                                        *)

\* observe_gateway_route_proof_v1 must prove the result the call was given; a
\* candidate preloaded for the same binding is then served without reloading.
ProveExact(c) ==
    /\ pc[c] = "proof"
    /\ \/ /\ Fresh(c)
          /\ Observe(Bnd(c), WindowOf(c), clock)
          /\ IF gresult'[request[c].result].status # "ready"
             THEN Goto(c, "direct") /\ UNCHANGED ans
             ELSE IF local[c].held = None THEN Goto(c, "load") /\ UNCHANGED ans
             ELSE Goto(c, "record") /\ Serve(c, "exact", local[c].held)
       \/ ~Fresh(c) /\ Goto(c, "direct") /\ UNCHANGED <<vars, ans>>
    /\ UNCHANGED <<world, local>>

LoadExact(c) ==
    /\ pc[c] = "load"
    /\ Hold(c, IF Loadable(Bnd(c)) THEN StoredValue(Bnd(c)) ELSE None)
    /\ Goto(c, "revalidate")
    /\ UNCHANGED <<vars, world, ans>>

Revalidate(c) ==
    /\ pc[c] = "revalidate"
    /\ IF Unchanged(c) /\ local[c].held # None
       THEN Serve(c, "exact", local[c].held) /\ Goto(c, "record")
       ELSE Goto(c, "direct") /\ UNCHANGED ans
    /\ UNCHANGED <<vars, world, local>>

\* Once the dependency is registered: remember the candidate, record the serve
Record(c) ==
    /\ pc[c] = "record"
    /\ recent' = IF poisoned THEN recent ELSE Bnd(c)
    /\ \/ ~poisoned /\ RecordServed(c, IdOf(c))
       \/ (poisoned \/ ~ServeRecordable(c, IdOf(c))) /\ UNCHANGED vars
    /\ Finish(c)
    /\ UNCHANGED <<clock, ws, stamp, poisoned, crashed, ans>>

-----------------------------------------------------------------------------
(* The follower.                                                           *)

CloseWait(c) == IF request[c].status = "waiting" THEN CancelFollower(c) ELSE UNCHANGED vars

\* A cancelled follower leaves the proof loop without touching its request;
\* the wait loop cancels the request on every exit without a value.
FollowerCancelled(c) ==
    /\ pc[c] \in {"fproof", "fwait"}
    /\ Cancelled(c)
    /\ IF pc[c] = "fwait" THEN CloseWait(c) ELSE UNCHANGED vars
    /\ Return(c, "error")
    /\ Finish(c)
    /\ UNCHANGED world

\* One turn of the proof loop: join a started lease or its result, keep
\* waiting for an execution to start, otherwise run directly.
ProveJoin(c) ==
    /\ pc[c] = "fproof" /\ ~Cancelled(c)
    /\ \/ /\ Fresh(c)
          /\ Observe(Bnd(c), WindowOf(c), clock)
          /\ LET active == {l \in LeasesOf(lease', Bnd(c)) : lease'[l].status = "active"} IN
             Goto(c, IF \/ gresult'[IdOf(c)].status = "ready"
                        \/ request[c].lease \in active /\ lease'[request[c].lease].started # None
                     THEN "fwait"
                     ELSE IF \E l \in active : lease'[l].started = None THEN "fproof"
                     ELSE "fcancel")
       \/ ~Fresh(c) /\ Goto(c, "fcancel") /\ UNCHANGED vars
    /\ UNCHANGED <<world, local, ans>>

\* One turn of the wait loop
WaitJoin(c) ==
    /\ pc[c] = "fwait" /\ ~Cancelled(c)
    /\ \/ /\ Fresh(c)
          /\ Observe(Bnd(c), WindowOf(c), clock)
          /\ Goto(c, IF gresult'[IdOf(c)].status = "ready" THEN "frevalidate"
                     ELSE IF \E l \in LeasesOf(lease', Bnd(c)) : lease'[l].status = "active"
                     THEN "fwait" ELSE "fcancel")
       \/ ~Fresh(c) /\ Goto(c, "fcancel") /\ UNCHANGED vars
    /\ UNCHANGED <<world, local, ans>>

\* Slip: only the wait loop has a deadline
WaitTimeoutOnly(c) ==
    /\ pc[c] = "fwait"
    /\ Goto(c, "fcancel")
    /\ UNCHANGED <<vars, world, local, ans>>

\* FOLLOWER_PROOF_WAIT_V1 or FOLLOWER_WAIT_V1 has passed (monotonic Instant)
FollowerTimeout(c) ==
    /\ pc[c] \in {"fproof", "fwait"}
    /\ Goto(c, "fcancel")
    /\ UNCHANGED <<vars, world, local, ans>>

\* resolve again, then load the result and record the join; a result that
\* became invalid in between is an error, one that vanished is not.
RevalidateJoin(c) ==
    /\ pc[c] = "frevalidate"
    /\ \/ /\ Unchanged(c) /\ Loadable(Bnd(c))
          /\ Serve(c, "joined", StoredValue(Bnd(c)))
          /\ Goto(c, "record")
       \/ /\ Unchanged(c) /\ ~Loadable(Bnd(c)) /\ gresult[IdOf(c)].status = "ready"
          /\ Return(c, "error")
          /\ Goto(c, "fcancel")
       \/ /\ ~Unchanged(c) \/ gresult[IdOf(c)].status # "ready"
          /\ Goto(c, "fcancel")
          /\ UNCHANGED ans
    /\ UNCHANGED <<vars, world, local>>

\* cancel_gateway_follower, then execute_direct unless an error is returned
FollowerGivesUp(c) ==
    /\ pc[c] = "fcancel"
    /\ CloseWait(c)
    /\ \/ ans[c] = "error" /\ Finish(c)
       \/ ans[c] # "error" /\ Goto(c, "direct") /\ UNCHANGED local
    /\ UNCHANGED <<world, ans>>

-----------------------------------------------------------------------------
(* The leader.                                                             *)

\* The second disjunct: the lease is closed or the transaction itself fails
StartLeader(c) ==
    /\ pc[c] = "start"
    /\ \/ Start(c, clock) /\ Goto(c, IF lease'[c].status = "active" THEN "exec" ELSE "startfail")
       \/ Goto(c, "startfail") /\ UNCHANGED vars
    /\ UNCHANGED <<world, local, ans>>

FailLease(c) == IF lease[c].status = "active" THEN Fail(c, clock) ELSE UNCHANGED vars

\* fail_gateway_call(Protocol), then execute_direct
StartFailed(c) ==
    /\ pc[c] = "startfail"
    /\ FailLease(c)
    /\ Goto(c, "direct")
    /\ UNCHANGED <<world, local, ans>>

\* The heartbeat thread, alive while the provider executes
HeartbeatStep(c) ==
    /\ pc[c] = "exec" /\ ~local[c].hbFailed
    /\ local' = [local EXCEPT ![c].hbFailed = ~IsLive(c, clock)]
    /\ IF lease[c].status = "active" THEN Heartbeat(c, clock) ELSE UNCHANGED vars
    /\ UNCHANGED <<world, pc, ans>>

\* The provider reads the workspace and returns, or fails
LeadExecute(c) ==
    /\ pc[c] = "exec"
    /\ \/ Hold(c, ws) /\ Goto(c, "after") /\ UNCHANGED ans
       \/ Return(c, "error") /\ Goto(c, "fail") /\ UNCHANGED local
    /\ UNCHANGED <<vars, world>>

AfterExecute(c) ==
    /\ pc[c] = "after"
    /\ \/ Cancelled(c) /\ Return(c, "error") /\ Goto(c, "fail")
       \/ ~Cancelled(c) /\ local[c].hbFailed /\ Return(c, "led") /\ Goto(c, "fail")
       \/ ~Cancelled(c) /\ ~local[c].hbFailed /\ Goto(c, "lrevalidate") /\ UNCHANGED ans
    /\ UNCHANGED <<vars, world, local>>

\* Slip: the workspace is not observed again after the execution
LeadTrusts(c) ==
    /\ pc[c] = "lrevalidate"
    /\ Goto(c, "insert")
    /\ UNCHANGED <<vars, world, local, ans>>

LeadRevalidate(c) ==
    /\ pc[c] = "lrevalidate"
    /\ IF Unchanged(c) THEN Goto(c, "insert") /\ UNCHANGED ans
       ELSE Return(c, "led") /\ Goto(c, "fail")
    /\ UNCHANGED <<vars, world, local>>

\* The last cancellation check and insert_result.  When the files fail, the
\* value is returned and the lease is left to expire.  The store mutex is held
\* from here to the completion: another process, not this one, can step between.
LeadInsert(c) ==
    /\ pc[c] = "insert"
    /\ \/ Cancelled(c) /\ Return(c, "error") /\ Goto(c, "fail") /\ UNCHANGED <<vars, local>>
       \/ /\ ~Cancelled(c)
          /\ Return(c, "led")
          /\ \/ /\ InsertResult(Bnd(c), local[c].held)
                /\ IF source'[Bnd(c)] = [status |-> "visible", content |-> local[c].held]
                   THEN Goto(c, "complete") /\ UNCHANGED local ELSE Finish(c)
             \/ FilesFail /\ Finish(c) /\ UNCHANGED vars
    /\ UNCHANGED world

\* complete_gateway_call; a completed result is remembered as a candidate
LeadComplete(c) ==
    /\ pc[c] = "complete"
    /\ IF lease[c].status = "active" /\ source[Bnd(c)].status = "visible" /\ BlobsValid(Bnd(c))
       THEN Complete(c, Bnd(c), clock) ELSE UNCHANGED vars
    /\ recent' = IF lease'[c].status = "completed" /\ ~poisoned THEN Bnd(c) ELSE recent
    /\ Finish(c)
    /\ UNCHANGED <<clock, ws, stamp, poisoned, crashed, ans>>

\* Slip: the leader returns without closing its lease
LeadLeaves(c) ==
    /\ pc[c] = "fail"
    /\ Finish(c)
    /\ UNCHANGED <<vars, world, ans>>

LeadFail(c) ==
    /\ pc[c] = "fail"
    /\ FailLease(c)
    /\ Finish(c)
    /\ UNCHANGED <<world, ans>>

-----------------------------------------------------------------------------
(* What happens around a call.                                             *)

\* cancel(): finds the registered call and sets its flag; a call that is not
\* registered yet is not found, one past these points has nothing to close.
Cancel(c) ==
    /\ pc[c] \in LeaderPc \cup FollowerPc
    /\ local[c].flag = "no"
    /\ local' = [local EXCEPT ![c].flag = "set"]
    /\ UNCHANGED <<vars, world, pc, ans>>

\* Slip: cancel() leaves the lease alone
CancelLeavesLease(c) ==
    /\ local[c].flag = "set"
    /\ local' = [local EXCEPT ![c].flag = "closed"]
    /\ UNCHANGED <<vars, world, pc, ans>>

\* cancel(), second half: once it has the store it closes the lease or the
\* request, unless the call's own thread was faster.
CancelCloses(c) ==
    /\ local[c].flag = "set"
    /\ local' = [local EXCEPT ![c].flag = "closed"]
    /\ IF request[c].role = "leader" THEN FailLease(c) ELSE CloseWait(c)
    /\ UNCHANGED <<world, pc, ans>>

\* An edit of the observed files
Write ==
    /\ stamp < MaxWrites
    /\ stamp' = stamp + 1
    /\ \E v \in Content \ {ws} :
          /\ ws' = v
          /\ local' = [c \in Call |-> IF pc[c] \in {"idle", "done", "dead"} THEN local[c]
                                      ELSE [local[c] EXCEPT !.seen = @ \cup {v}]]
    /\ UNCHANGED <<vars, clock, poisoned, recent, crashed, pc, ans>>

Tick ==
    /\ clock < MaxClock
    /\ clock' = clock + 1
    /\ UNCHANGED <<vars, threads, ws, stamp, poisoned, recent, crashed>>

\* The daemon dies: its threads and its memory are gone, its rows are not
Crash ==
    /\ ~crashed
    /\ crashed' = TRUE
    /\ pc' = [c \in Call |-> IF pc[c] \in {"idle", "done"} THEN pc[c] ELSE "dead"]
    /\ local' = [c \in Call |-> NoLocal]
    /\ recent' = None
    /\ poisoned' = FALSE
    /\ UNCHANGED <<vars, clock, ws, stamp, ans>>

\* A blob file is damaged or lost
FilesDamaged ==
    /\ FilesFail
    /\ \E v \in Content : DamageBlob(v)
    /\ UNCHANGED <<threads, world>>

-----------------------------------------------------------------------------
Step(c) ==
    \/ Begin(c) \/ Resolve(c) \/ AcquireStep(c) \/ Direct(c)
    \/ ProveExact(c) \/ LoadExact(c) \/ Revalidate(c) \/ Record(c)
    \/ FollowerCancelled(c) \/ ProveJoin(c) \/ WaitJoin(c) \/ RevalidateJoin(c)
    \/ FollowerGivesUp(c)
    \/ StartLeader(c) \/ StartFailed(c) \/ LeadExecute(c) \/ AfterExecute(c)
    \/ LeadRevalidate(c) \/ LeadInsert(c) \/ LeadComplete(c) \/ LeadFail(c)

RNext ==
    \/ \E c \in Call : Step(c) \/ FollowerTimeout(c) \/ HeartbeatStep(c) \/ Cancel(c) \/ CancelCloses(c)
    \/ Write \/ Tick \/ Crash \/ FilesDamaged

RSpec == RInit /\ [][RNext]_rvars

\* Threads are scheduled, providers return and monotonic deadlines pass
FairRSpec ==
    RSpec /\ \A c \in Call : WF_rvars(Step(c)) /\ WF_rvars(FollowerTimeout(c))

-----------------------------------------------------------------------------
\* True results: a published result is what the tool returns in the state its
\* binding names.  Only the observations before and after the execution guard
\* this, so an edit that is undone in between must change the digest.
TrueResults ==
    \A b \in Binding : gresult[<<b, b>>].status # "none" => StoredValue(b) = b[1]

\* Current answers: a call answered by reuse, on the exact route, from a
\* preloaded candidate or by joining, returns content the workspace had at
\* some moment of that very call.
CurrentAnswers == \A c \in Call : ans[c] # "stale"

\* No false quarantine: with sound files, a clock that does not step back and
\* a tool determined by its binding, no completed result is ever found
\* unservable and no source row diverges, whatever races, expires or crashes.
NoFalseQuarantine ==
    /\ \A b \in Binding : source[b].status # "quarantined"
    /\ \A r \in ResultId : gresult[r].status # "quarantined"

\* A leader that returned has closed its lease: no follower is left waiting
\* for a thread that is gone (while inserts succeed).
LeaderClosesLease ==
    \A c \in Call : pc[c] = "done" => lease[c].status # "active"

\* A cancelled leader never publishes: once cancel() has returned, the result
\* of that execution cannot be completed, wherever the leader thread was.
CancelledNeverPublishes ==
    [][\A c \in Call : local[c].flag = "closed" /\ lease[c].status # "completed"
                          => lease'[c].status # "completed"]_rvars

\* Every call returns: neither a dead leader, an expired lease, a quarantine
\* nor a poisoned manifest leaves a caller waiting.
EveryCallReturns ==
    \A c \in Call : pc[c] = "resolve" ~> pc[c] \in {"done", "dead"}
=============================================================================
