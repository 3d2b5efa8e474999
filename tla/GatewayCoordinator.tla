------------------------- MODULE GatewayCoordinator -------------------------
(***************************************************************************)
(* The durable coordinator of exact tool-call reuse: the gateway_* tables  *)
(* of store.rs and the operations on them.  Every operation is one SQLite  *)
(* IMMEDIATE transaction, so it is one action; each samples the wall clock *)
(* BEFORE it waits for the write lock, so the `now' it works with may be   *)
(* stale, and the clock itself may step back: `now' is therefore any       *)
(* member of Time, chosen afresh by every action.                          *)
(*                                                                         *)
(* A lease is created together with the request of its leader and is named *)
(* here after that call (lease_id and call_id are fresh UUIDs of the same  *)
(* transaction).  A gateway result id is the content digest of a binding   *)
(* and of a source row of `results'; rows never change their content, so   *)
(* the id is the pair <<binding, request key of the row>>.                 *)
(* Left out: owners (only the owner of a lease starts or extends it),      *)
(* reasons, events, and the completed_ms that closing a lease other than   *)
(* by completion writes; no operation reads them.                          *)
(***************************************************************************)
EXTENDS Integers

CONSTANTS
    Call,       \* call ids: one per acquire_gateway_call
    Binding,    \* binding digests of ValidatedGatewayReadV1
    Request,    \* request keys of the `results' table
    RequestOf,  \* the request digest a binding contains
    Content,    \* what a provider can return for a request
    Window,     \* freshness evidence: records [observed, until]
    Time,       \* the values now_ms() can return
    LeaseTTL,   \* GATEWAY_LEASE_TTL_MS
    None        \* SQL NULL

ASSUME CoordinatorAssumptions ==
    /\ RequestOf \in [Binding -> Request]
    /\ Time \subseteq Int
    /\ LeaseTTL \in Nat
    /\ Window \subseteq [observed : Int, until : Int]
    /\ None \notin Call \cup Binding \cup (Binding \X Request) \cup Content \cup Int
    /\ None \notin {"leader", "follower", "ready"}

VARIABLES
    lease,      \* inflight_leases, by the leader's call
    request,    \* gateway_requests, by call
    gresult,    \* gateway_results, by gateway result id
    source,     \* results, by request key
    blob,       \* the content-addressed blob files
    served      \* calls with an exact_hit or inflight_join event

vars == <<lease, request, gresult, source, blob, served>>

ResultId == Binding \X Request

NoLease == [status |-> "none", binding |-> None, gen |-> 0, until |-> 0,
            expires |-> 0, started |-> None, completed |-> None, result |-> None]
NoRequest == [status |-> "none", role |-> None, binding |-> None,
              lease |-> None, result |-> None]
NoResult == [status |-> "none", lease |-> None]
NoSource == [status |-> "none", content |-> None]

LeaseRow == [status : {"none", "active", "completed", "failed", "expired", "quarantined"},
             binding : Binding \cup {None}, gen : Nat, until : Int, expires : Int,
             started : Int \cup {None}, completed : Int \cup {None},
             result : ResultId \cup {None}]
RequestRow == [status : {"none", "inflight", "waiting", "ready", "failed",
                         "cancelled", "quarantined"},
               role : {"leader", "follower", "ready", None},
               binding : Binding \cup {None}, lease : Call \cup {None},
               result : ResultId \cup {None}]
ResultRow == [status : {"none", "ready", "quarantined"}, lease : Call \cup {None}]
SourceRow == [status : {"none", "visible", "quarantined"}, content : Content \cup {None}]

\* Every table keeps the shape the schema's CHECK constraints give it.
TypeOK ==
    /\ lease \in [Call -> LeaseRow]
    /\ request \in [Call -> RequestRow]
    /\ gresult \in [ResultId -> ResultRow]
    /\ source \in [Request -> SourceRow]
    /\ blob \in [Content -> {"absent", "good", "corrupt"}]
    /\ served \subseteq Call

Init ==
    /\ lease = [c \in Call |-> NoLease]
    /\ request = [c \in Call |-> NoRequest]
    /\ gresult = [r \in ResultId |-> NoResult]
    /\ source = [k \in Request |-> NoSource]
    /\ blob = [v \in Content |-> "absent"]
    /\ served = {}

-----------------------------------------------------------------------------
(* Helpers on table values.  They take the table as a parameter because a  *)
(* transaction works on what its earlier statements have left.             *)

FreshnessIsCurrent(w, now) == w.observed <= now /\ now <= w.until

LeasesOf(L, b) == {l \in Call : L[l].status # "none" /\ L[l].binding = b}

\* gresult rows of a binding with a status
RowsOf(G, b, status) == {r \in ResultId : r[1] = b /\ G[r].status = status}

\* MAX(lifecycle_generation) of the binding is the lease's own
IsCurrentGeneration(L, l) == \A m \in LeasesOf(L, L[l].binding) : L[m].gen <= L[l].gen

\* Slip: the maximum is taken over live leases only
NextGenerationOfLive(L, b) ==
    LET live == {m \in LeasesOf(L, b) : L[m].status = "active"} IN
    {g \in {1} \cup {L[m].gen + 1 : m \in live} : \A m \in live : L[m].gen < g}

\* COALESCE(MAX(lifecycle_generation), 0) + 1, as the one member of a set
NextGeneration(L, b) ==
    {g \in {1} \cup {L[m].gen + 1 : m \in LeasesOf(L, b)} :
        \A m \in LeasesOf(L, b) : L[m].gen < g}

LeaseExpiry(now, until) == IF now + LeaseTTL <= until THEN now + LeaseTTL ELSE until

BlobsValid(k) == source[k].content \in Content /\ blob[source[k].content] = "good"

\* Slip: a result completed in the millisecond it was started is refused
StrictlyServable(L, G, r) ==
    LET l == G[r].lease IN
    /\ G[r].status = "ready" /\ r[2] = RequestOf[r[1]] /\ source[r[2]].status = "visible"
    /\ l \in Call /\ L[l].status = "completed" /\ L[l].result = r /\ L[l].binding = r[1]
    /\ IsCurrentGeneration(L, l)
    /\ L[l].started \in Int /\ L[l].completed \in Int
    /\ 0 <= L[l].started /\ L[l].started < L[l].completed
    /\ BlobsValid(r[2])

\* gateway_result_is_servable_v1: the row, its source row, the completed
\* lease of the newest generation it came from and the CAS bytes all agree.
Servable(L, G, r) ==
    LET l == G[r].lease IN
    /\ G[r].status = "ready"
    /\ r[2] = RequestOf[r[1]]
    /\ source[r[2]].status = "visible"
    /\ l \in Call
    /\ L[l].status = "completed"
    /\ L[l].result = r
    /\ L[l].binding = r[1]
    /\ IsCurrentGeneration(L, l)
    /\ L[l].started \in Int
    /\ L[l].completed \in Int
    /\ 0 <= L[l].started
    /\ L[l].started <= L[l].completed
    /\ BlobsValid(r[2])

Overdue(L, b, now) ==
    {l \in LeasesOf(L, b) : L[l].status = "active" /\ L[l].expires <= now}

\* expire_gateway_leases_v1_tx, the lease half and the request half
ExpireLeases(L, b, now) ==
    [l \in Call |-> IF l \in Overdue(L, b, now)
                    THEN [L[l] EXCEPT !.status = "expired"] ELSE L[l]]

\* Slip: the followers that wait are forgotten
CloseLeaderRequests(R, leases, status, r) ==
    [c \in Call |-> IF R[c].lease \in leases /\ R[c].status = "inflight"
                    THEN [R[c] EXCEPT !.status = status, !.result = r] ELSE R[c]]

\* Close the unresolved requests of some leases with a status and a result
CloseRequests(R, leases, status, r) ==
    [c \in Call |-> IF R[c].lease \in leases /\ R[c].status \in {"inflight", "waiting"}
                    THEN [R[c] EXCEPT !.status = status, !.result = r] ELSE R[c]]

\* Slip: the lease's status is written to its requests
ExpireRequestsLikeLeases(R, L, b, now) ==
    CloseRequests(R, Overdue(L, b, now), "expired", None)

ExpireRequests(R, L, b, now) == CloseRequests(R, Overdue(L, b, now), "failed", None)

\* quarantine_invalid_gateway_result_v1_tx on the three tables
QuarantineLeases(L, r) ==
    [l \in Call |-> IF L[l].result = r /\ L[l].status = "completed"
                    THEN [L[l] EXCEPT !.status = "quarantined"] ELSE L[l]]
QuarantineRequests(R, r) ==
    [c \in Call |-> IF R[c].result = r /\ R[c].status = "ready"
                    THEN [R[c] EXCEPT !.status = "quarantined"] ELSE R[c]]

-----------------------------------------------------------------------------
(* acquire_gateway_call: after the overdue leases of the binding have been *)
(* expired, the call is answered by a ready result, refused by a           *)
(* quarantine, attached to the active lease, or made the leader.           *)

AcquireReady(c, r, L, R) ==
    /\ Servable(L, gresult, r)
    /\ lease' = L
    /\ request' = [R EXCEPT ![c] = [status |-> "ready", role |-> "ready",
                                    binding |-> r[1], lease |-> None, result |-> r]]
    /\ UNCHANGED gresult

\* Slip: the invalid row is deleted instead of kept as quarantined
AcquireDeletes(r, L, R) ==
    /\ ~Servable(L, gresult, r)
    /\ lease' = QuarantineLeases(L, r)
    /\ request' = QuarantineRequests(R, r)
    /\ gresult' = [gresult EXCEPT ![r] = NoResult]

AcquireInvalid(r, L, R) ==
    /\ ~Servable(L, gresult, r)
    /\ lease' = QuarantineLeases(L, r)
    /\ request' = QuarantineRequests(R, r)
    /\ gresult' = [gresult EXCEPT ![r].status = "quarantined"]

AcquireFollower(c, b, l, L, R) ==
    /\ lease' = L
    /\ request' = [R EXCEPT ![c] = [status |-> "waiting", role |-> "follower",
                                    binding |-> b, lease |-> l, result |-> None]]
    /\ UNCHANGED gresult

AcquireLeader(c, b, w, now, L, R) ==
    /\ \E g \in NextGeneration(L, b) :
          lease' = [L EXCEPT ![c] =
                      [status |-> "active", binding |-> b, gen |-> g, until |-> w.until,
                       expires |-> LeaseExpiry(now, w.until), started |-> None,
                       completed |-> None, result |-> None]]
    /\ request' = [R EXCEPT ![c] = [status |-> "inflight", role |-> "leader",
                                    binding |-> b, lease |-> c, result |-> None]]
    /\ UNCHANGED gresult

Acquire(c, b, w, now) ==
    LET L == ExpireLeases(lease, b, now)
        R == ExpireRequests(request, lease, b, now)
        ready == RowsOf(gresult, b, "ready")
        active == {l \in LeasesOf(L, b) : L[l].status = "active"}
    IN  /\ request[c].status = "none"
        /\ FreshnessIsCurrent(w, now)
        /\ \/ \E r \in ready : AcquireReady(c, r, L, R) \/ AcquireInvalid(r, L, R)
           \/ /\ ready = {}
              /\ RowsOf(gresult, b, "quarantined") # {}
              /\ lease' = L /\ request' = R /\ UNCHANGED gresult
           \/ /\ ready = {} /\ RowsOf(gresult, b, "quarantined") = {}
              /\ \/ \E l \in active : AcquireFollower(c, b, l, L, R)
                 \/ active = {} /\ AcquireLeader(c, b, w, now, L, R)
        /\ UNCHANGED <<source, blob, served>>

-----------------------------------------------------------------------------
(* What start, heartbeat, complete and fail do to an overdue lease.        *)
ExpireOnTouch(l, now) ==
    /\ lease[l].status = "active"
    /\ lease[l].expires <= now
    /\ lease' = ExpireLeases(lease, lease[l].binding, now)
    /\ request' = ExpireRequests(request, lease, lease[l].binding, now)
    /\ UNCHANGED <<gresult, source, blob, served>>

IsLive(l, now) == lease[l].status = "active" /\ now < lease[l].expires

\* start_gateway_execution, called by the owner of the lease
Start(l, now) ==
    \/ ExpireOnTouch(l, now)
    \/ /\ IsLive(l, now)
       /\ lease[l].started = None
       /\ lease' = [lease EXCEPT ![l].started = now]
       /\ UNCHANGED <<request, gresult, source, blob, served>>

\* Slip: a late heartbeat takes an expired lease up again
HeartbeatRevives(l, now) ==
    /\ lease[l].status \in {"active", "expired"}
    /\ lease' = [lease EXCEPT ![l].status = "active",
                             ![l].expires = LeaseExpiry(now, lease[l].until)]
    /\ UNCHANGED <<request, gresult, source, blob, served>>

\* heartbeat_gateway_call, called by the owner of the lease
Heartbeat(l, now) ==
    \/ ExpireOnTouch(l, now)
    \/ /\ IsLive(l, now)
       /\ lease' = [lease EXCEPT ![l].expires = LeaseExpiry(now, lease[l].until)]
       /\ UNCHANGED <<request, gresult, source, blob, served>>

\* Slip: the status of the lease is not checked
FailAnyLease(l, now) ==
    /\ lease[l].status # "none"
    /\ lease' = [lease EXCEPT ![l].status = "failed"]
    /\ request' = CloseRequests(request, {l}, "failed", None)
    /\ UNCHANGED <<gresult, source, blob, served>>

\* fail_gateway_call
Fail(l, now) ==
    \/ ExpireOnTouch(l, now)
    \/ /\ IsLive(l, now)
       /\ lease' = [lease EXCEPT ![l].status = "failed"]
       /\ request' = CloseRequests(request, {l}, "failed", None)
       /\ UNCHANGED <<gresult, source, blob, served>>

\* Slip: the leader of an expired lease still publishes
PublishLate(l, k, now) ==
    LET r == <<lease[l].binding, k>> IN
    /\ lease[l].status \in {"active", "expired"} /\ lease[l].started # None
    /\ k = RequestOf[lease[l].binding] /\ gresult[r].status = "none"
    /\ gresult' = [gresult EXCEPT ![r] = [status |-> "ready", lease |-> l]]
    /\ lease' = [lease EXCEPT ![l].status = "completed", ![l].completed = now, ![l].result = r]
    /\ request' = CloseRequests(request, {l}, "ready", r)

\* Slip: the row's request is not compared with the binding's
PublishForeign(l, k, now) ==
    LET r == <<lease[l].binding, k>> IN
    /\ IsLive(l, now) /\ lease[l].started # None
    /\ RowsOf(gresult, r[1], "ready") = {} /\ gresult[r].status = "none"
    /\ gresult' = [gresult EXCEPT ![r] = [status |-> "ready", lease |-> l]]
    /\ lease' = [lease EXCEPT ![l].status = "completed", ![l].completed = now, ![l].result = r]
    /\ request' = CloseRequests(request, {l}, "ready", r)

\* complete_gateway_call: publish the source row k as the result of a lease
Publish(l, k, now) ==
    LET r == <<lease[l].binding, k>> IN
    /\ IsLive(l, now)
    /\ lease[l].started # None
    /\ k = RequestOf[lease[l].binding]
    /\ RowsOf(gresult, r[1], "ready") = {}   \* UNIQUE index: one ready row per binding
    /\ gresult[r].status = "none"            \* PRIMARY KEY
    /\ gresult' = [gresult EXCEPT ![r] = [status |-> "ready", lease |-> l]]
    /\ lease' = [lease EXCEPT ![l].status = "completed", ![l].completed = now, ![l].result = r]
    /\ request' = CloseRequests(request, {l}, "ready", r)

\* quarantine_gateway_divergence_v1_tx: the lease had completed with another
\* result.  Every request that joined the lease is quarantined, whatever its
\* status; requests answered by the ready row (no joined lease) are not.
Diverge(l, k) ==
    LET b == lease[l].binding IN
    /\ lease[l].status = "completed"
    /\ lease[l].result # <<b, k>>
    /\ gresult' = [r \in ResultId |-> IF r[1] = b /\ gresult[r].status = "ready"
                                      THEN [gresult[r] EXCEPT !.status = "quarantined"]
                                      ELSE gresult[r]]
    /\ lease' = [lease EXCEPT ![l].status = "quarantined"]
    /\ request' = [c \in Call |-> IF request[c].lease = l
                                  THEN [request[c] EXCEPT !.status = "quarantined"]
                                  ELSE request[c]]

Complete(l, k, now) ==
    /\ source[k].status = "visible"
    /\ BlobsValid(k)
    /\ \/ ExpireOnTouch(l, now)
       \/ /\ Publish(l, k, now) \/ Diverge(l, k)
          /\ UNCHANGED <<source, blob, served>>

\* observe_gateway_call and observe_gateway_route_proof_v1: both expire the
\* binding's overdue leases and quarantine a ready row that is not servable.
Observe(b, w, now) ==
    LET L == ExpireLeases(lease, b, now)
        R == ExpireRequests(request, lease, b, now)
        broken == {r \in RowsOf(gresult, b, "ready") : ~Servable(L, gresult, r)}
    IN  /\ FreshnessIsCurrent(w, now)
        /\ \/ /\ RowsOf(gresult, b, "quarantined") = {}
              /\ \E r \in broken : /\ lease' = QuarantineLeases(L, r)
                                   /\ request' = QuarantineRequests(R, r)
                                   /\ gresult' = [gresult EXCEPT ![r].status = "quarantined"]
           \/ /\ broken = {} \/ RowsOf(gresult, b, "quarantined") # {}
              /\ lease' = L /\ request' = R /\ UNCHANGED gresult
        /\ UNCHANGED <<source, blob, served>>

\* cancel_gateway_follower
CancelFollower(c) ==
    /\ request[c].role = "follower"
    /\ request[c].status = "waiting"
    /\ request' = [request EXCEPT ![c].status = "cancelled"]
    /\ UNCHANGED <<lease, gresult, source, blob, served>>

\* Slip: the result row is not read again before the serve is recorded
ServeUnchecked(c, r) ==
    /\ \/ request[c].role = "ready" /\ request[c].lease = None
       \/ request[c].role = "follower" /\ request[c].lease # None
    /\ request[c].status = "ready"
    /\ request[c].result = r
    /\ c \notin served

\* record_gateway_route_served, on the exact route or on the inflight route
ServeRecordable(c, r) ==
    /\ \/ request[c].role = "ready" /\ request[c].lease = None
       \/ request[c].role = "follower" /\ request[c].lease # None
    /\ request[c].status = "ready"
    /\ request[c].result = r
    /\ gresult[r].status = "ready"
    /\ c \notin served

RecordServed(c, r) ==
    /\ ServeRecordable(c, r)
    /\ served' = served \cup {c}
    /\ UNCHANGED <<lease, request, gresult, source, blob>>

-----------------------------------------------------------------------------
(* The source rows and the blob files.                                     *)

\* Slip: INSERT OR REPLACE
InsertReplaces(k, v) ==
    /\ blob[v] # "corrupt"
    /\ blob' = [blob EXCEPT ![v] = "good"]
    /\ source' = [source EXCEPT ![k] = [status |-> "visible", content |-> v]]
    /\ UNCHANGED <<lease, request, gresult, served>>

\* insert_result: the blobs are put first (a corrupt file refuses the put),
\* then the row is inserted, found equal, or found different and quarantined.
InsertResult(k, v) ==
    /\ blob[v] # "corrupt"
    /\ blob' = [blob EXCEPT ![v] = "good"]
    /\ source' = [source EXCEPT ![k] =
          IF @.status = "none" THEN [status |-> "visible", content |-> v]
          ELSE IF @.content # v THEN [@ EXCEPT !.status = "quarantined"] ELSE @]
    /\ UNCHANGED <<lease, request, gresult, served>>

\* quarantine: an explicit quarantine of a source row
QuarantineSource(k) ==
    /\ source[k].status = "visible"
    /\ source' = [source EXCEPT ![k].status = "quarantined"]
    /\ UNCHANGED <<lease, request, gresult, blob, served>>

\* The file system damages or loses a blob file: what get_blob guards against
DamageBlob(v) ==
    /\ blob[v] = "good"
    /\ \E damage \in {"absent", "corrupt"} : blob' = [blob EXCEPT ![v] = damage]
    /\ UNCHANGED <<lease, request, gresult, source, served>>

-----------------------------------------------------------------------------
Next ==
    \/ \E c \in Call, b \in Binding, w \in Window, now \in Time : Acquire(c, b, w, now)
    \/ \E b \in Binding, w \in Window, now \in Time : Observe(b, w, now)
    \/ \E l \in Call, now \in Time : Start(l, now) \/ Heartbeat(l, now) \/ Fail(l, now)
    \/ \E l \in Call, k \in Request, now \in Time : Complete(l, k, now)
    \/ \E c \in Call : CancelFollower(c)
    \/ \E c \in Call, r \in ResultId : RecordServed(c, r)
    \/ \E k \in Request, v \in Content : InsertResult(k, v)
    \/ \E k \in Request : QuarantineSource(k)
    \/ \E v \in Content : DamageBlob(v)

Spec == Init /\ [][Next]_vars

-----------------------------------------------------------------------------
(* Safety properties                                                       *)

\* Single flight: one binding never has two live leaders, whatever the
\* interleaving of expiry, failure and re-acquisition and however stale the
\* clock each of them read (unique index inflight_leases_active).
SingleFlight ==
    \A l, m \in Call :
        /\ lease[l].status = "active"
        /\ lease[m].status = "active"
        /\ lease[l].binding = lease[m].binding
        => l = m

\* Write once: a binding with a live leader has no result row, and never gets
\* a second one; so the INSERT of complete_gateway_call cannot collide with
\* the primary key or with the one-ready-row index after its checks.
WriteOnce ==
    /\ \A l \in Call, r \in ResultId :
          lease[l].status = "active" /\ lease[l].binding = r[1] => gresult[r].status = "none"
    /\ \A r, q \in ResultId :
          gresult[r].status # "none" /\ gresult[q].status # "none" /\ r[1] = q[1] => r = q

\* Generations: the leases of a binding have distinct generations (unique
\* index on binding and generation), the live lease and the lease behind a
\* result row have the newest one; so a late leader of an older generation can
\* neither hide nor replace a result.
Generations ==
    /\ \A l, m \in Call :
          /\ lease[l].status # "none" /\ lease[m].status # "none"
          /\ lease[l].binding = lease[m].binding
          /\ lease[l].gen = lease[m].gen
          => l = m
    /\ \A l \in Call : lease[l].status = "active" => IsCurrentGeneration(lease, l)
    /\ \A r \in ResultId : gresult[r].status # "none"
                              => IsCurrentGeneration(lease, gresult[r].lease)

\* Bound results: a ready row was published by a lease of its own binding that
\* completed with it, after it was started, from the source row of its own
\* request (load_gateway_result_with_origin_v1 trusts nothing else).
ResultsBound ==
    \A r \in ResultId :
        gresult[r].status # "none" =>
            LET l == gresult[r].lease IN
            /\ l \in Call
            /\ r[2] = RequestOf[r[1]]
            /\ source[r[2]].status # "none"
            /\ lease[l].result = r
            /\ lease[l].binding = r[1]
            /\ lease[l].started # None
            /\ lease[l].status = IF gresult[r].status = "ready" THEN "completed" ELSE "quarantined"

\* No orphan waits: a request that still waits, as leader or follower, waits
\* on a live lease of its own binding; expiry, failure, completion and
\* divergence each resolve every request that joined the lease.
NoOrphanWait ==
    \A c \in Call :
        request[c].status \in {"inflight", "waiting"} =>
            /\ request[c].lease \in Call
            /\ lease[request[c].lease].status = "active"
            /\ lease[request[c].lease].binding = request[c].binding

\* Agreement: two calls of one binding that hold a result hold the same one,
\* and a result handed to a call exists as a row of that call's binding.
Agreement ==
    /\ \A c \in Call :
          request[c].result # None =>
              /\ request[c].result \in ResultId
              /\ request[c].result[1] = request[c].binding
              /\ gresult[request[c].result].status # "none"
    /\ \A c, d \in Call :
          /\ request[c].result # None /\ request[d].result # None
          /\ request[c].binding = request[d].binding
          => request[c].result = request[d].result

Quarantined(b) == RowsOf(gresult, b, "quarantined") # {}

KeepsQuarantine(b) ==
    /\ RowsOf(gresult', b, "quarantined") # {}
    /\ RowsOf(gresult', b, "ready") = {}
    /\ \A l \in Call : lease'[l].binding = b /\ lease[l].status # "active"
                          => lease'[l].status # "active"
    /\ \A c \in Call : request'[c].binding = b /\ request[c].status = "none"
                          => request'[c].status = "none"
    /\ \A c \in served' \ served : request[c].binding # b

\* Quarantine is for good: once a binding is quarantined no row of it becomes
\* ready, no lease of it becomes active, no request of it becomes ready or
\* waits, and no serve of it is recorded.
QuarantineIsForGood == [][\A b \in Binding : Quarantined(b) => KeepsQuarantine(b)]_vars

StaysClosed(l) ==
    /\ lease[l].status \in {"failed", "expired", "quarantined"} => lease'[l] = lease[l]
    /\ lease[l].status = "completed" =>
          /\ lease'[l].status \in {"completed", "quarantined"}
          /\ lease'[l].result = lease[l].result

\* A stale leader stays out: a lease that failed, expired or was quarantined
\* never changes again, and a completed one may only be quarantined; a late
\* start, heartbeat or completion cannot revive it.
StaleLeaderStaysOut == [][\A l \in Call : StaysClosed(l)]_vars
=============================================================================
