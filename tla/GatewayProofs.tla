---------------------------- MODULE GatewayProofs ----------------------------
(***************************************************************************)
(* The shared tables of the gateway and the calls that use them, for any   *)
(* sets of calls, bindings, request keys and contents and for any clock.   *)
(***************************************************************************)
EXTENDS GatewayRefinement, GatewayRuntime, TLAPS

-----------------------------------------------------------------------------
(***************************************************************************)
(* The coordinator.  The inductive invariant is stated on table values,    *)
(* not on the variables: acquire, observe and the touch of an overdue      *)
(* lease first expire the leases of a binding and go on with the tables    *)
(* that leaves, so what expiry preserves is proved once and used by all of *)
(* them.                                                                   *)
(***************************************************************************)

Types(L, R, G) ==
    /\ L \in [Call -> LeaseRow]
    /\ R \in [Call -> RequestRow]
    /\ G \in [ResultId -> ResultRow]

OneLive(L) ==
    \A l, m \in Call : /\ L[l].status = "active"
                       /\ L[m].status = "active"
                       /\ L[l].binding = L[m].binding
                       => l = m

OneRow(L, G) ==
    /\ \A l \in Call, r \in ResultId :
          L[l].status = "active" /\ L[l].binding = r[1] => G[r].status = "none"
    /\ \A r, q \in ResultId :
          G[r].status # "none" /\ G[q].status # "none" /\ r[1] = q[1] => r = q

NewestGeneration(L, G) ==
    /\ \A l, m \in Call : /\ L[l].status # "none" /\ L[m].status # "none"
                          /\ L[l].binding = L[m].binding
                          /\ L[l].gen = L[m].gen
                          => l = m
    /\ \A l \in Call : L[l].status = "active" => IsCurrentGeneration(L, l)
    /\ \A r \in ResultId : G[r].status # "none" => IsCurrentGeneration(L, G[r].lease)

RowsBound(L, G, S) ==
    \A r \in ResultId :
        G[r].status # "none" =>
            /\ G[r].lease \in Call
            /\ r[2] = RequestOf[r[1]]
            /\ S[r[2]].status # "none"
            /\ L[G[r].lease].result = r
            /\ L[G[r].lease].binding = r[1]
            /\ L[G[r].lease].started # None
            /\ L[G[r].lease].status =
                  IF G[r].status = "ready" THEN "completed" ELSE "quarantined"

LiveWaits(L, R) ==
    \A c \in Call :
        R[c].status \in {"inflight", "waiting"} =>
            /\ R[c].lease \in Call
            /\ L[R[c].lease].status = "active"
            /\ L[R[c].lease].binding = R[c].binding

HeldResults(R, G) ==
    \A c \in Call :
        R[c].result # None =>
            /\ R[c].result \in ResultId
            /\ R[c].result[1] = R[c].binding
            /\ G[R[c].result].status # "none"

\* What the named properties leave out: a call that leads has a request row, so
\* a fresh call has no lease, and a closed lease is the one its result row names.
Links(L, R, G) ==
    \A l \in Call :
        /\ L[l].status # "none" => L[l].binding \in Binding /\ R[l].status # "none"
        /\ L[l].status \in {"completed", "quarantined"} =>
              /\ L[l].result \in ResultId
              /\ G[L[l].result].status # "none"
              /\ G[L[l].result].lease = l

TablesInv(L, R, G, S) ==
    /\ Types(L, R, G)
    /\ OneLive(L)
    /\ OneRow(L, G)
    /\ NewestGeneration(L, G)
    /\ RowsBound(L, G, S)
    /\ LiveWaits(L, R)
    /\ HeldResults(R, G)
    /\ Links(L, R, G)

\* The operations with any clock and any freshness evidence: what the proofs
\* need of either is only that it is a number.
AnyWindow == [observed : Int, until : Int]

OtherOperation(now) ==
    \/ \E b \in Binding, w \in AnyWindow : Observe(b, w, now)
    \/ \E l \in Call : Start(l, now) \/ Heartbeat(l, now) \/ Fail(l, now)
    \/ \E l \in Call, k \in Request : Complete(l, k, now)
    \/ \E c \in Call : CancelFollower(c)
    \/ \E c \in Call, r \in ResultId : RecordServed(c, r)
    \/ \E k \in Request, v \in Content : InsertResult(k, v)
    \/ \E k \in Request : QuarantineSource(k)
    \/ \E v \in Content : DamageBlob(v)

Operation ==
    \E now \in Int : \/ \E c \in Call, b \in Binding, w \in AnyWindow : Acquire(c, b, w, now)
                     \/ OtherOperation(now)

IndInv ==
    /\ TablesInv(lease, request, gresult, source)
    /\ source \in [Request -> SourceRow]
    /\ blob \in [Content -> {"absent", "good", "corrupt"}]
    /\ served \subseteq Call

-----------------------------------------------------------------------------
(* Expiry and quarantine on table values.                                  *)

\* expire_gateway_leases_v1_tx: each lease keeps everything but its status,
\* and the status changes only from active to expired.
LEMMA ExpireLeasesRows ==
    ASSUME NEW L \in [Call -> LeaseRow], NEW b, NEW now
    PROVE  /\ ExpireLeases(L, b, now) \in [Call -> LeaseRow]
           /\ \A l \in Call :
                 LET N == ExpireLeases(L, b, now)[l] IN
                 /\ N.binding = L[l].binding /\ N.gen = L[l].gen
                 /\ N.result = L[l].result /\ N.started = L[l].started
                 /\ N.status = IF l \in Overdue(L, b, now) THEN "expired" ELSE L[l].status
                 /\ l \notin Overdue(L, b, now) => N = L[l]
                 /\ l \in Overdue(L, b, now) => L[l].status = "active"
  <1> DEFINE X == ExpireLeases(L, b, now)
  <1>1. \A l \in Call : X[l] = IF l \in Overdue(L, b, now)
                               THEN [L[l] EXCEPT !.status = "expired"] ELSE L[l]
    BY DEF ExpireLeases
  <1>2. ASSUME NEW l \in Call PROVE X[l] \in LeaseRow
    BY <1>1 DEF LeaseRow
  <1>3. X \in [Call -> LeaseRow]
    BY <1>2 DEF ExpireLeases
  <1>4. ASSUME NEW l \in Call, l \in Overdue(L, b, now)
        PROVE  /\ X[l] = [L[l] EXCEPT !.status = "expired"]
               /\ L[l] \in LeaseRow
               /\ L[l].status = "active"
    BY <1>1, <1>4 DEF Overdue
  <1>5. ASSUME NEW l \in Call
        PROVE  /\ X[l].binding = L[l].binding /\ X[l].gen = L[l].gen
               /\ X[l].result = L[l].result /\ X[l].started = L[l].started
               /\ X[l].status = IF l \in Overdue(L, b, now) THEN "expired" ELSE L[l].status
    BY <1>1, <1>4 DEF LeaseRow
  <1> QED
    BY <1>1, <1>3, <1>4, <1>5

\* Closing requests touches only unresolved requests of the given leases.
LEMMA CloseRequestsRows ==
    ASSUME NEW R \in [Call -> RequestRow], NEW Ls,
           NEW s \in {"failed", "ready"}, NEW r \in ResultId \cup {None},
           NEW X, X = CloseRequests(R, Ls, s, r)
    PROVE  /\ X \in [Call -> RequestRow]
           /\ \A c \in Call :
                 /\ X[c].binding = R[c].binding /\ X[c].lease = R[c].lease /\ X[c].role = R[c].role
                 /\ IF R[c].lease \in Ls /\ R[c].status \in {"inflight", "waiting"}
                    THEN X[c].status = s /\ X[c].result = r ELSE X[c] = R[c]
  <1>1. \A c \in Call : X[c] = IF R[c].lease \in Ls /\ R[c].status \in {"inflight", "waiting"}
                               THEN [R[c] EXCEPT !.status = s, !.result = r] ELSE R[c]
    BY DEF CloseRequests
  <1>2. ASSUME NEW c \in Call PROVE X[c] \in RequestRow
    BY <1>1 DEF RequestRow
  <1>3. X \in [Call -> RequestRow]
    BY <1>2 DEF CloseRequests
  <1>4. ASSUME NEW c \in Call
        PROVE  /\ X[c].binding = R[c].binding /\ X[c].lease = R[c].lease /\ X[c].role = R[c].role
               /\ IF R[c].lease \in Ls /\ R[c].status \in {"inflight", "waiting"}
                  THEN X[c].status = s /\ X[c].result = r ELSE X[c] = R[c]
    BY <1>1 DEF RequestRow
  <1> QED
    BY <1>3, <1>4

\* Expiry keeps the invariant: a request of an overdue lease is closed in the
\* same transaction, and no result row names a lease that was still active.
LEMMA ExpiryKeepsTables ==
    ASSUME NEW L, NEW R, NEW G, NEW S, NEW b, NEW now, TablesInv(L, R, G, S)
    PROVE  TablesInv(ExpireLeases(L, b, now), ExpireRequests(R, L, b, now), G, S)
  <1> DEFINE X == ExpireLeases(L, b, now)
             Y == ExpireRequests(R, L, b, now)
             O == Overdue(L, b, now)
  <1>0. Types(L, R, G)
    BY DEF TablesInv
  <1>1. /\ X \in [Call -> LeaseRow]
        /\ \A l \in Call : /\ X[l].binding = L[l].binding /\ X[l].gen = L[l].gen
                           /\ X[l].result = L[l].result /\ X[l].started = L[l].started
                           /\ X[l].status = IF l \in O THEN "expired" ELSE L[l].status
                           /\ l \in O => L[l].status = "active"
    BY <1>0, ExpireLeasesRows DEF Types
  <1>2. /\ Y \in [Call -> RequestRow]
        /\ \A c \in Call : /\ Y[c].binding = R[c].binding /\ Y[c].lease = R[c].lease
                           /\ IF R[c].lease \in O /\ R[c].status \in {"inflight", "waiting"}
                              THEN Y[c].status = "failed" /\ Y[c].result = None
                              ELSE Y[c] = R[c]
    <2>1. R \in [Call -> RequestRow] /\ None \in ResultId \cup {None}
      BY <1>0 DEF Types
    <2>2. Y = CloseRequests(R, O, "failed", None)
      BY DEF ExpireRequests
    <2> HIDE DEF Y, O
    <2>3. "failed" \in {"failed", "ready"}
      OBVIOUS
    <2> QED
      BY <2>1, <2>2, <2>3, CloseRequestsRows
  <1> HIDE DEF X, Y, O
  <1>3. Types(X, Y, G)
    BY <1>0, <1>1, <1>2 DEF Types
  <1>4. OneLive(X)
    BY <1>1 DEF TablesInv, OneLive
  <1>5. OneRow(X, G)
    BY <1>1 DEF TablesInv, OneRow
  <1>6. RowsBound(X, G, S)
    BY <1>1 DEF TablesInv, RowsBound
  <1>7. \A l \in Call : IsCurrentGeneration(X, l) <=> IsCurrentGeneration(L, l)
    BY <1>1 DEF IsCurrentGeneration, LeasesOf
  <1>8. NewestGeneration(X, G)
    BY <1>1, <1>7 DEF TablesInv, NewestGeneration, RowsBound
  <1>9. LiveWaits(X, Y)
    BY <1>1, <1>2 DEF TablesInv, LiveWaits
  <1>10. HeldResults(Y, G)
    BY <1>2 DEF TablesInv, HeldResults
  <1>11. Links(X, Y, G)
    <2> SUFFICES ASSUME NEW l \in Call
                 PROVE  /\ X[l].status # "none" => X[l].binding \in Binding /\ Y[l].status # "none"
                        /\ X[l].status \in {"completed", "quarantined"} =>
                              /\ X[l].result \in ResultId
                              /\ G[X[l].result].status # "none"
                              /\ G[X[l].result].lease = l
      BY DEF Links
    <2>1. X[l].status # "none" => X[l].binding \in Binding /\ Y[l].status # "none"
      BY <1>1, <1>2 DEF TablesInv, Links
    <2>2. X[l].status \in {"completed", "quarantined"} =>
             L[l].status \in {"completed", "quarantined"}
      BY <1>1
    <2> QED
      BY <1>1, <2>1, <2>2 DEF TablesInv, Links
  <1> QED
    BY <1>3, <1>4, <1>5, <1>6, <1>8, <1>9, <1>10, <1>11 DEF TablesInv, X, Y

\* quarantine_invalid_gateway_result_v1_tx: the row, the lease that completed
\* with it and the requests that hold it leave the ready state together.
LEMMA QuarantineKeepsTables ==
    ASSUME NEW L, NEW R, NEW G, NEW S, TablesInv(L, R, G, S),
           NEW r \in ResultId, G[r].status = "ready"
    PROVE  TablesInv(QuarantineLeases(L, r), QuarantineRequests(R, r),
                     [G EXCEPT ![r].status = "quarantined"], S)
  <1> DEFINE X == QuarantineLeases(L, r)
             Y == QuarantineRequests(R, r)
             H == [G EXCEPT ![r].status = "quarantined"]
  <1>0. /\ L \in [Call -> LeaseRow]
        /\ R \in [Call -> RequestRow]
        /\ G \in [ResultId -> ResultRow]
    BY DEF TablesInv, Types
  <1>1. /\ X \in [Call -> LeaseRow]
        /\ \A l \in Call : /\ X[l].binding = L[l].binding /\ X[l].gen = L[l].gen
                           /\ X[l].result = L[l].result /\ X[l].started = L[l].started
                           /\ X[l].status = IF L[l].result = r /\ L[l].status = "completed"
                                            THEN "quarantined" ELSE L[l].status
    <2>1. \A l \in Call : X[l] = IF L[l].result = r /\ L[l].status = "completed"
                                THEN [L[l] EXCEPT !.status = "quarantined"] ELSE L[l]
      BY DEF QuarantineLeases
    <2>2. ASSUME NEW l \in Call PROVE X[l] \in LeaseRow
      BY <1>0, <2>1 DEF LeaseRow
    <2>3. X \in [Call -> LeaseRow]
      BY <2>2 DEF QuarantineLeases
    <2> QED
      BY <1>0, <2>1, <2>3 DEF LeaseRow
  <1>2. /\ Y \in [Call -> RequestRow]
        /\ \A c \in Call : /\ Y[c].binding = R[c].binding /\ Y[c].lease = R[c].lease
                           /\ Y[c].result = R[c].result
                           /\ Y[c].status = IF R[c].result = r /\ R[c].status = "ready"
                                            THEN "quarantined" ELSE R[c].status
    <2>1. \A c \in Call : Y[c] = IF R[c].result = r /\ R[c].status = "ready"
                                THEN [R[c] EXCEPT !.status = "quarantined"] ELSE R[c]
      BY DEF QuarantineRequests
    <2>2. ASSUME NEW c \in Call PROVE Y[c] \in RequestRow
      BY <1>0, <2>1 DEF RequestRow
    <2>3. Y \in [Call -> RequestRow]
      BY <2>2 DEF QuarantineRequests
    <2> QED
      BY <1>0, <2>1, <2>3 DEF RequestRow
  <1>3. /\ H \in [ResultId -> ResultRow]
        /\ \A q \in ResultId : /\ H[q].lease = G[q].lease
                               /\ H[q].status = IF q = r THEN "quarantined" ELSE G[q].status
    BY <1>0 DEF ResultRow
  <1> HIDE DEF X, Y, H
  <1>4. Types(X, Y, H)
    BY <1>1, <1>2, <1>3 DEF Types
  <1>5. OneLive(X)
    BY <1>1 DEF TablesInv, OneLive
  <1>6. OneRow(X, H)
    BY <1>1, <1>3 DEF TablesInv, OneRow
  <1>7. RowsBound(X, H, S)
    BY <1>1, <1>3 DEF TablesInv, RowsBound
  <1>8. \A l \in Call : IsCurrentGeneration(X, l) <=> IsCurrentGeneration(L, l)
    BY <1>1 DEF IsCurrentGeneration, LeasesOf
  <1>9. NewestGeneration(X, H)
    BY <1>1, <1>3, <1>8 DEF TablesInv, NewestGeneration, RowsBound
  <1>10. LiveWaits(X, Y)
    BY <1>1, <1>2 DEF TablesInv, LiveWaits
  <1>11. HeldResults(Y, H)
    BY <1>2, <1>3 DEF TablesInv, HeldResults
  <1>12. Links(X, Y, H)
    <2> SUFFICES ASSUME NEW l \in Call
                 PROVE  /\ X[l].status # "none" => X[l].binding \in Binding /\ Y[l].status # "none"
                        /\ X[l].status \in {"completed", "quarantined"} =>
                              /\ X[l].result \in ResultId
                              /\ H[X[l].result].status # "none"
                              /\ H[X[l].result].lease = l
      BY DEF Links
    <2>1. X[l].status # "none" => X[l].binding \in Binding /\ Y[l].status # "none"
      BY <1>1, <1>2 DEF TablesInv, Links
    <2>2. X[l].status \in {"completed", "quarantined"} =>
             L[l].status \in {"completed", "quarantined"}
      BY <1>1
    <2> QED
      BY <1>1, <1>3, <2>1, <2>2 DEF TablesInv, Links
  <1> QED
    BY <1>4, <1>5, <1>6, <1>7, <1>9, <1>10, <1>11, <1>12 DEF TablesInv, X, Y, H

-----------------------------------------------------------------------------
(* One row at a time.                                                      *)

\* A request row may be written when it is not empty, what it waits for is
\* live and what it holds is a row of its binding.
LEMMA RequestWriteKeepsTables ==
    ASSUME NEW L, NEW R, NEW G, NEW S, TablesInv(L, R, G, S),
           NEW c \in Call, NEW row \in RequestRow, row.status # "none",
           row.status \in {"inflight", "waiting"} =>
               /\ row.lease \in Call
               /\ L[row.lease].status = "active"
               /\ L[row.lease].binding = row.binding,
           row.result # None =>
               /\ row.result \in ResultId
               /\ row.result[1] = row.binding
               /\ G[row.result].status # "none"
    PROVE  TablesInv(L, [R EXCEPT ![c] = row], G, S)
  <1> DEFINE Y == [R EXCEPT ![c] = row]
  <1>1. /\ R \in [Call -> RequestRow]
        /\ Y \in [Call -> RequestRow]
        /\ \A d \in Call : Y[d] = IF d = c THEN row ELSE R[d]
    BY DEF TablesInv, Types
  <1> HIDE DEF Y
  <1>2. Types(L, Y, G)
    BY <1>1 DEF TablesInv, Types
  <1>3. LiveWaits(L, Y)
    BY <1>1 DEF TablesInv, LiveWaits
  <1>4. HeldResults(Y, G)
    BY <1>1 DEF TablesInv, HeldResults
  <1>5. Links(L, Y, G)
    BY <1>1 DEF TablesInv, Links
  <1> QED
    BY <1>2, <1>3, <1>4, <1>5 DEF TablesInv, Y

\* A new lease, with a newer generation, for a binding that has no live lease
\* and no result row.
LEMMA NewLeaseKeepsTables ==
    ASSUME NEW L, NEW R, NEW G, NEW S, TablesInv(L, R, G, S),
           NEW c \in Call, R[c].status = "none", NEW b \in Binding,
           NEW row \in LeaseRow, row.status = "active", row.binding = b,
           \A m \in LeasesOf(L, b) : L[m].status # "active" /\ L[m].gen < row.gen,
           \A r \in ResultId : r[1] = b => G[r].status = "none",
           NEW req \in RequestRow, req.status = "inflight", req.lease = c,
           req.binding = b, req.result = None
    PROVE  TablesInv([L EXCEPT ![c] = row], [R EXCEPT ![c] = req], G, S)
  <1> DEFINE X == [L EXCEPT ![c] = row]
             Y == [R EXCEPT ![c] = req]
  <1>1. /\ L \in [Call -> LeaseRow]
        /\ X \in [Call -> LeaseRow]
        /\ \A l \in Call : X[l] = IF l = c THEN row ELSE L[l]
    BY DEF TablesInv, Types
  <1>2. /\ R \in [Call -> RequestRow]
        /\ Y \in [Call -> RequestRow]
        /\ \A d \in Call : Y[d] = IF d = c THEN req ELSE R[d]
    BY DEF TablesInv, Types
  <1>3. L[c].status = "none"
    BY DEF TablesInv, Links
  <1>4. \A m \in Call : L[m].status # "none" /\ L[m].binding = b =>
                          L[m].status # "active" /\ L[m].gen < row.gen
    BY DEF LeasesOf
  <1>5. \A m \in Call : L[m].gen \in Int
    BY <1>1 DEF LeaseRow
  <1>6. row.gen \in Int
    BY DEF LeaseRow
  <1> HIDE DEF X, Y
  <1>7. Types(X, Y, G)
    BY <1>1, <1>2 DEF TablesInv, Types
  <1>8. OneLive(X)
    BY <1>1, <1>4 DEF TablesInv, OneLive
  <1>9. OneRow(X, G)
    BY <1>1 DEF TablesInv, OneRow
  <1>10. RowsBound(X, G, S)
    BY <1>1, <1>3 DEF TablesInv, RowsBound
  <1>11. NewestGeneration(X, G)
    <2>1. \A l, m \in Call : /\ X[l].status # "none" /\ X[m].status # "none"
                             /\ X[l].binding = X[m].binding
                             /\ X[l].gen = X[m].gen
                             => l = m
      BY <1>1, <1>4, <1>5, <1>6 DEF TablesInv, NewestGeneration
    <2>2. ASSUME NEW l \in Call, X[l].status = "active" PROVE IsCurrentGeneration(X, l)
      <3>1. CASE l = c
        <4>1. ASSUME NEW m \in LeasesOf(X, b) PROVE X[m].gen <= row.gen
          BY <1>1, <1>4, <1>5, <1>6, <4>1 DEF LeasesOf
        <4> QED
          BY <1>1, <3>1, <4>1 DEF IsCurrentGeneration
      <3>2. CASE l # c
        <4>1. L[l].status = "active" /\ L[l].binding # b
          BY <1>1, <1>4, <2>2, <3>2
        <4>2. IsCurrentGeneration(L, l)
          BY <4>1 DEF TablesInv, NewestGeneration
        <4> QED
          BY <1>1, <3>2, <4>1, <4>2 DEF IsCurrentGeneration, LeasesOf
      <3> QED
        BY <3>1, <3>2
    <2>3. ASSUME NEW r \in ResultId, G[r].status # "none"
          PROVE  IsCurrentGeneration(X, G[r].lease)
      <3>1. /\ G[r].lease \in Call /\ G[r].lease # c
            /\ L[G[r].lease].binding = r[1] /\ r[1] # b
        BY <1>3, <2>3 DEF TablesInv, RowsBound
      <3>2. IsCurrentGeneration(L, G[r].lease)
        BY <2>3 DEF TablesInv, NewestGeneration
      <3> QED
        BY <1>1, <3>1, <3>2 DEF IsCurrentGeneration, LeasesOf
    <2> QED
      BY <2>1, <2>2, <2>3 DEF NewestGeneration
  <1>12. LiveWaits(X, Y)
    BY <1>1, <1>2, <1>3 DEF TablesInv, LiveWaits
  <1>13. HeldResults(Y, G)
    BY <1>2 DEF TablesInv, HeldResults
  <1>14. Links(X, Y, G)
    <2> SUFFICES ASSUME NEW l \in Call
                 PROVE  /\ X[l].status # "none" => X[l].binding \in Binding /\ Y[l].status # "none"
                        /\ X[l].status \in {"completed", "quarantined"} =>
                              /\ X[l].result \in ResultId
                              /\ G[X[l].result].status # "none"
                              /\ G[X[l].result].lease = l
      BY DEF Links
    <2>1. CASE l = c
      BY <1>1, <1>2, <2>1
    <2>2. CASE l # c
      BY <1>1, <1>2, <2>2 DEF TablesInv, Links
    <2> QED
      BY <2>1, <2>2
  <1> QED
    BY <1>7, <1>8, <1>9, <1>10, <1>11, <1>12, <1>13, <1>14 DEF TablesInv, X, Y

\* start and heartbeat rewrite a live lease without changing what it is.
LEMMA LiveLeaseWriteKeepsTables ==
    ASSUME NEW L, NEW R, NEW G, NEW S, TablesInv(L, R, G, S),
           NEW l \in Call, L[l].status = "active", NEW row \in LeaseRow,
           row.status = "active", row.binding = L[l].binding, row.gen = L[l].gen
    PROVE  TablesInv([L EXCEPT ![l] = row], R, G, S)
  <1> DEFINE X == [L EXCEPT ![l] = row]
  <1>1. /\ L \in [Call -> LeaseRow]
        /\ X \in [Call -> LeaseRow]
        /\ \A m \in Call : X[m] = IF m = l THEN row ELSE L[m]
    BY DEF TablesInv, Types
  <1> HIDE DEF X
  <1>2. \A m \in Call : X[m].status = L[m].status /\ X[m].binding = L[m].binding /\ X[m].gen = L[m].gen
    BY <1>1
  <1>3. Types(X, R, G)
    BY <1>1 DEF TablesInv, Types
  <1>4. OneLive(X) /\ OneRow(X, G)
    BY <1>2 DEF TablesInv, OneLive, OneRow
  <1>5. RowsBound(X, G, S)
    BY <1>1 DEF TablesInv, RowsBound
  <1>6. \A m \in Call : IsCurrentGeneration(X, m) <=> IsCurrentGeneration(L, m)
    BY <1>2 DEF IsCurrentGeneration, LeasesOf
  <1>7. NewestGeneration(X, G)
    BY <1>2, <1>6 DEF TablesInv, NewestGeneration, RowsBound
  <1>8. LiveWaits(X, R)
    BY <1>2 DEF TablesInv, LiveWaits
  <1>9. Links(X, R, G)
    BY <1>1 DEF TablesInv, Links
  <1> QED
    BY <1>3, <1>4, <1>5, <1>7, <1>8, <1>9 DEF TablesInv, X

\* fail_gateway_call: the lease and every request that waits on it close.
LEMMA FailKeepsTables ==
    ASSUME NEW L, NEW R, NEW G, NEW S, TablesInv(L, R, G, S),
           NEW l \in Call, L[l].status = "active"
    PROVE  TablesInv([L EXCEPT ![l].status = "failed"],
                     CloseRequests(R, {l}, "failed", None), G, S)
  <1> DEFINE X == [L EXCEPT ![l].status = "failed"]
             Y == CloseRequests(R, {l}, "failed", None)
  <1>0. L \in [Call -> LeaseRow] /\ R \in [Call -> RequestRow]
    BY DEF TablesInv, Types
  <1>1. /\ X \in [Call -> LeaseRow]
        /\ \A m \in Call : /\ X[m].binding = L[m].binding /\ X[m].gen = L[m].gen
                           /\ X[m].status = IF m = l THEN "failed" ELSE L[m].status
                           /\ m # l => X[m] = L[m]
    BY <1>0 DEF LeaseRow
  <1>2. /\ Y \in [Call -> RequestRow]
        /\ \A c \in Call : /\ Y[c].binding = R[c].binding /\ Y[c].lease = R[c].lease
                           /\ IF R[c].lease = l /\ R[c].status \in {"inflight", "waiting"}
                              THEN Y[c].status = "failed" /\ Y[c].result = None
                              ELSE Y[c] = R[c]
    <2>1. \A c \in Call : Y[c] = IF R[c].lease = l /\ R[c].status \in {"inflight", "waiting"}
                                THEN [R[c] EXCEPT !.status = "failed", !.result = None] ELSE R[c]
      BY DEF CloseRequests
    <2>2. ASSUME NEW c \in Call PROVE Y[c] \in RequestRow
      BY <1>0, <2>1 DEF RequestRow
    <2>3. Y \in [Call -> RequestRow]
      BY <2>2 DEF CloseRequests
    <2>4. ASSUME NEW c \in Call
          PROVE  /\ Y[c].binding = R[c].binding /\ Y[c].lease = R[c].lease
                 /\ IF R[c].lease = l /\ R[c].status \in {"inflight", "waiting"}
                    THEN Y[c].status = "failed" /\ Y[c].result = None ELSE Y[c] = R[c]
      BY <1>0, <2>1 DEF RequestRow
    <2> QED
      BY <2>3, <2>4
  <1> HIDE DEF X, Y
  <1>3. Types(X, Y, G)
    BY <1>1, <1>2 DEF TablesInv, Types
  <1>4. OneLive(X) /\ OneRow(X, G)
    BY <1>1 DEF TablesInv, OneLive, OneRow
  <1>5. RowsBound(X, G, S)
    BY <1>1 DEF TablesInv, RowsBound
  <1>6. \A m \in Call : IsCurrentGeneration(X, m) <=> IsCurrentGeneration(L, m)
    BY <1>1 DEF IsCurrentGeneration, LeasesOf
  <1>7. NewestGeneration(X, G)
    BY <1>1, <1>6 DEF TablesInv, NewestGeneration, RowsBound
  <1>8. LiveWaits(X, Y)
    BY <1>1, <1>2 DEF TablesInv, LiveWaits
  <1>9. HeldResults(Y, G)
    BY <1>2 DEF TablesInv, HeldResults
  <1>10. Links(X, Y, G)
    <2> SUFFICES ASSUME NEW m \in Call
                 PROVE  /\ X[m].status # "none" => X[m].binding \in Binding /\ Y[m].status # "none"
                        /\ X[m].status \in {"completed", "quarantined"} =>
                              /\ X[m].result \in ResultId
                              /\ G[X[m].result].status # "none"
                              /\ G[X[m].result].lease = m
      BY DEF Links
    <2>1. X[m].status # "none" => X[m].binding \in Binding /\ Y[m].status # "none"
      BY <1>1, <1>2 DEF TablesInv, Links
    <2>2. CASE m = l
      BY <1>1, <2>1, <2>2
    <2>3. CASE m # l
      BY <1>1, <2>1, <2>3 DEF TablesInv, Links
    <2> QED
      BY <2>2, <2>3
  <1> QED
    BY <1>3, <1>4, <1>5, <1>7, <1>8, <1>9, <1>10 DEF TablesInv, X, Y

\* complete_gateway_call: the live, started lease of a binding publishes the
\* first row of that binding, and its followers get it.
LEMMA PublishKeepsTables ==
    ASSUME NEW L, NEW R, NEW G, NEW S, TablesInv(L, R, G, S),
           NEW l \in Call, L[l].status = "active", L[l].started # None,
           NEW k \in Request, k = RequestOf[L[l].binding], S[k].status # "none",
           NEW now \in Int, NEW r, r = <<L[l].binding, k>>,
           NEW row \in LeaseRow, row.status = "completed", row.binding = L[l].binding,
           row.gen = L[l].gen, row.started = L[l].started, row.result = r
    PROVE  TablesInv([L EXCEPT ![l] = row], CloseRequests(R, {l}, "ready", r),
                     [G EXCEPT ![r] = [status |-> "ready", lease |-> l]], S)
  <1> DEFINE X == [L EXCEPT ![l] = row]
             Y == CloseRequests(R, {l}, "ready", r)
             H == [G EXCEPT ![r] = [status |-> "ready", lease |-> l]]
  <1>0. L \in [Call -> LeaseRow] /\ R \in [Call -> RequestRow] /\ G \in [ResultId -> ResultRow]
    BY DEF TablesInv, Types
  <1>1. r \in ResultId /\ r[1] = L[l].binding /\ r[2] = k
    BY DEF TablesInv, Links, ResultId
  <1>2. /\ X \in [Call -> LeaseRow]
        /\ \A m \in Call : X[m] = IF m = l THEN row ELSE L[m]
    BY <1>0
  <1>3. /\ H \in [ResultId -> ResultRow]
        /\ \A q \in ResultId : IF q = r THEN H[q].status = "ready" /\ H[q].lease = l
                                       ELSE H[q] = G[q]
    BY <1>0, <1>1 DEF ResultRow
  <1>4. /\ Y \in [Call -> RequestRow]
        /\ \A c \in Call : /\ Y[c].binding = R[c].binding /\ Y[c].lease = R[c].lease
                           /\ IF R[c].lease = l /\ R[c].status \in {"inflight", "waiting"}
                              THEN Y[c].status = "ready" /\ Y[c].result = r
                              ELSE Y[c] = R[c]
    <2>1. \A c \in Call : Y[c] = IF R[c].lease = l /\ R[c].status \in {"inflight", "waiting"}
                                THEN [R[c] EXCEPT !.status = "ready", !.result = r] ELSE R[c]
      BY DEF CloseRequests
    <2>2. ASSUME NEW c \in Call PROVE Y[c] \in RequestRow
      BY <1>0, <1>1, <2>1 DEF RequestRow
    <2>3. Y \in [Call -> RequestRow]
      BY <2>2 DEF CloseRequests
    <2>4. ASSUME NEW c \in Call
          PROVE  /\ Y[c].binding = R[c].binding /\ Y[c].lease = R[c].lease
                 /\ IF R[c].lease = l /\ R[c].status \in {"inflight", "waiting"}
                    THEN Y[c].status = "ready" /\ Y[c].result = r ELSE Y[c] = R[c]
      BY <1>0, <2>1 DEF RequestRow
    <2> QED
      BY <2>3, <2>4
  <1>5. \A q \in ResultId : q[1] = L[l].binding => G[q].status = "none"
    BY DEF TablesInv, OneRow
  <1> HIDE DEF X, Y, H
  <1>6. Types(X, Y, H)
    BY <1>2, <1>3, <1>4 DEF Types
  <1>7. OneLive(X)
    BY <1>2 DEF TablesInv, OneLive
  <1>8. OneRow(X, H)
    <2>1. ASSUME NEW m \in Call, NEW q \in ResultId, X[m].status = "active", X[m].binding = q[1]
          PROVE  H[q].status = "none"
      <3>1. m # l /\ L[m].status = "active" /\ L[m].binding = q[1]
        BY <1>2, <2>1
      <3>2. q # r
        BY <1>1, <3>1 DEF TablesInv, OneLive
      <3> QED
        BY <1>3, <3>1, <3>2 DEF TablesInv, OneRow
    <2>2. ASSUME NEW q \in ResultId, NEW p \in ResultId,
                 H[q].status # "none", H[p].status # "none", q[1] = p[1]
          PROVE  q = p
      BY <1>1, <1>3, <1>5, <2>2 DEF TablesInv, OneRow
    <2> QED
      BY <2>1, <2>2 DEF OneRow
  <1>9. RowsBound(X, H, S)
    BY <1>1, <1>2, <1>3 DEF TablesInv, RowsBound
  <1>10. \A m \in Call : IsCurrentGeneration(X, m) <=> IsCurrentGeneration(L, m)
    BY <1>2 DEF IsCurrentGeneration, LeasesOf
  <1>11. NewestGeneration(X, H)
    BY <1>1, <1>2, <1>3, <1>10 DEF TablesInv, NewestGeneration, RowsBound
  <1>12. LiveWaits(X, Y)
    BY <1>2, <1>4 DEF TablesInv, LiveWaits
  <1>13. HeldResults(Y, H)
    BY <1>1, <1>3, <1>4 DEF TablesInv, HeldResults, LiveWaits
  <1>14. Links(X, Y, H)
    <2> SUFFICES ASSUME NEW m \in Call
                 PROVE  /\ X[m].status # "none" => X[m].binding \in Binding /\ Y[m].status # "none"
                        /\ X[m].status \in {"completed", "quarantined"} =>
                              /\ X[m].result \in ResultId
                              /\ H[X[m].result].status # "none"
                              /\ H[X[m].result].lease = m
      BY DEF Links
    <2>1. X[m].status # "none" => X[m].binding \in Binding /\ Y[m].status # "none"
      BY <1>2, <1>4 DEF TablesInv, Links
    <2>2. CASE m = l
      BY <1>1, <1>2, <1>3, <2>1, <2>2
    <2>3. CASE m # l
      <3>1. X[m].status \in {"completed", "quarantined"} =>
              /\ X[m].result \in ResultId
              /\ G[X[m].result].status # "none"
              /\ G[X[m].result].lease = m
        BY <1>2, <2>3 DEF TablesInv, Links
      <3>2. G[r].status = "none"
        BY <1>1, <1>5
      <3> QED
        BY <1>3, <2>1, <3>1, <3>2
    <2> QED
      BY <2>2, <2>3
  <1> QED
    BY <1>6, <1>7, <1>8, <1>9, <1>11, <1>12, <1>13, <1>14 DEF TablesInv, X, Y, H

\* quarantine_gateway_divergence_v1_tx: the ready row it quarantines is the
\* one its own lease completed with, since a binding has one row at most.
LEMMA DivergenceKeepsTables ==
    ASSUME NEW L, NEW R, NEW G, NEW S, TablesInv(L, R, G, S),
           NEW l \in Call, L[l].status = "completed",
           NEW X \in [Call -> LeaseRow], NEW Y \in [Call -> RequestRow],
           NEW H \in [ResultId -> ResultRow],
           \A m \in Call : /\ X[m].binding = L[m].binding /\ X[m].gen = L[m].gen
                           /\ X[m].result = L[m].result /\ X[m].started = L[m].started
                           /\ X[m].status = IF m = l THEN "quarantined" ELSE L[m].status,
           \A c \in Call : /\ Y[c].binding = R[c].binding /\ Y[c].lease = R[c].lease
                           /\ Y[c].result = R[c].result
                           /\ Y[c].status = IF R[c].lease = l THEN "quarantined" ELSE R[c].status,
           \A r \in ResultId :
               /\ H[r].lease = G[r].lease
               /\ H[r].status = IF r[1] = L[l].binding /\ G[r].status = "ready"
                                THEN "quarantined" ELSE G[r].status
    PROVE  TablesInv(X, Y, H, S)
  <1> DEFINE p == L[l].result
             b == L[l].binding
  <1>0. L \in [Call -> LeaseRow] /\ R \in [Call -> RequestRow] /\ G \in [ResultId -> ResultRow]
    BY DEF TablesInv, Types
  <1>1. \A m \in Call : /\ X[m].binding = L[m].binding /\ X[m].gen = L[m].gen
                        /\ X[m].result = L[m].result /\ X[m].started = L[m].started
                        /\ X[m].status = IF m = l THEN "quarantined" ELSE L[m].status
    OBVIOUS
  <1>2. \A c \in Call : /\ Y[c].binding = R[c].binding /\ Y[c].lease = R[c].lease
                        /\ Y[c].result = R[c].result
                        /\ Y[c].status = IF R[c].lease = l THEN "quarantined" ELSE R[c].status
    OBVIOUS
  <1>3. p \in ResultId /\ G[p].lease = l /\ G[p].status # "none"
    BY DEF TablesInv, Links
  <1>4. p[1] = b /\ G[p].status = "ready"
    BY <1>0, <1>3 DEF TablesInv, RowsBound, ResultRow
  <1>5. \A r \in ResultId : r[1] = b /\ G[r].status = "ready" <=> r = p
    BY <1>3, <1>4 DEF TablesInv, OneRow
  <1>7. \A r \in ResultId : /\ H[r].lease = G[r].lease
                            /\ H[r].status = IF r = p THEN "quarantined" ELSE G[r].status
    BY <1>0, <1>5 DEF ResultRow
  <1> HIDE DEF p
  <1>8. Types(X, Y, H)
    BY DEF Types
  <1>9. OneLive(X)
    BY <1>1 DEF TablesInv, OneLive
  <1>10. OneRow(X, H)
    BY <1>1, <1>3, <1>7 DEF TablesInv, OneRow
  <1>11. RowsBound(X, H, S)
    <2> SUFFICES ASSUME NEW r \in ResultId, H[r].status # "none"
                 PROVE  /\ H[r].lease \in Call
                        /\ r[2] = RequestOf[r[1]]
                        /\ S[r[2]].status # "none"
                        /\ X[H[r].lease].result = r
                        /\ X[H[r].lease].binding = r[1]
                        /\ X[H[r].lease].started # None
                        /\ X[H[r].lease].status =
                              IF H[r].status = "ready" THEN "completed" ELSE "quarantined"
      BY DEF RowsBound
    <2>1. G[r].status # "none"
      BY <1>3, <1>7
    <2>2. /\ G[r].lease \in Call
          /\ r[2] = RequestOf[r[1]]
          /\ S[r[2]].status # "none"
          /\ L[G[r].lease].result = r
          /\ L[G[r].lease].binding = r[1]
          /\ L[G[r].lease].started # None
          /\ L[G[r].lease].status =
                IF G[r].status = "ready" THEN "completed" ELSE "quarantined"
      BY <2>1 DEF TablesInv, RowsBound
    <2>3. CASE r = p
      BY <1>1, <1>3, <1>7, <2>2, <2>3
    <2>4. CASE r # p
      <3>1. G[r].lease # l
        BY <2>2, <2>4 DEF p
      <3> QED
        BY <1>1, <1>7, <2>2, <2>4, <3>1
    <2> QED
      BY <2>3, <2>4
  <1>12. \A m \in Call : IsCurrentGeneration(X, m) <=> IsCurrentGeneration(L, m)
    BY <1>1 DEF IsCurrentGeneration, LeasesOf
  <1>13. NewestGeneration(X, H)
    <2>1. \A m, n \in Call : /\ X[m].status # "none" /\ X[n].status # "none"
                             /\ X[m].binding = X[n].binding
                             /\ X[m].gen = X[n].gen
                             => m = n
      BY <1>1 DEF TablesInv, NewestGeneration
    <2>2. \A m \in Call : X[m].status = "active" => IsCurrentGeneration(X, m)
      BY <1>1, <1>12 DEF TablesInv, NewestGeneration
    <2>3. ASSUME NEW r \in ResultId, H[r].status # "none"
          PROVE  IsCurrentGeneration(X, H[r].lease)
      <3>1. G[r].status # "none" /\ H[r].lease = G[r].lease
        BY <1>3, <1>7, <2>3
      <3>2. G[r].lease \in Call /\ IsCurrentGeneration(L, G[r].lease)
        BY <3>1 DEF TablesInv, NewestGeneration, RowsBound
      <3> QED
        BY <1>12, <3>1, <3>2
    <2> QED
      BY <2>1, <2>2, <2>3 DEF NewestGeneration
  <1>14. LiveWaits(X, Y)
    BY <1>1, <1>2 DEF TablesInv, LiveWaits
  <1>15. HeldResults(Y, H)
    BY <1>2, <1>3, <1>7 DEF TablesInv, HeldResults
  <1>16. Links(X, Y, H)
    <2> SUFFICES ASSUME NEW m \in Call
                 PROVE  /\ X[m].status # "none" => X[m].binding \in Binding /\ Y[m].status # "none"
                        /\ X[m].status \in {"completed", "quarantined"} =>
                              /\ X[m].result \in ResultId
                              /\ H[X[m].result].status # "none"
                              /\ H[X[m].result].lease = m
      BY DEF Links
    <2>1. X[m].status # "none" => L[m].status # "none"
      BY <1>1
    <2>2. X[m].status # "none" => X[m].binding \in Binding /\ Y[m].status # "none"
      BY <1>1, <1>2, <2>1 DEF TablesInv, Links
    <2>3. X[m].status \in {"completed", "quarantined"} =>
             /\ L[m].result \in ResultId
             /\ G[L[m].result].status # "none"
             /\ G[L[m].result].lease = m
      BY <1>1 DEF TablesInv, Links
    <2> QED
      BY <1>1, <1>7, <2>2, <2>3
  <1> QED
    BY <1>8, <1>9, <1>10, <1>11, <1>13, <1>14, <1>15, <1>16 DEF TablesInv

-----------------------------------------------------------------------------
(* The operations keep the inductive invariant.                            *)

\* The empty tables of a new store satisfy it.
LEMMA InitIndInv == Init => IndInv
  <1> SUFFICES ASSUME Init PROVE IndInv
    OBVIOUS
  <1>1. /\ lease = [c \in Call |-> NoLease]
        /\ request = [c \in Call |-> NoRequest]
        /\ gresult = [r \in ResultId |-> NoResult]
        /\ source = [k \in Request |-> NoSource]
        /\ blob = [v \in Content |-> "absent"]
        /\ served = {}
    BY DEF Init
  <1>2. Types(lease, request, gresult)
    BY <1>1 DEF Types, LeaseRow, NoLease, RequestRow, NoRequest, ResultRow, NoResult
  <1>3. source \in [Request -> SourceRow] /\ blob \in [Content -> {"absent", "good", "corrupt"}]
    BY <1>1 DEF SourceRow, NoSource
  <1>4. /\ \A l \in Call : lease[l].status = "none"
        /\ \A c \in Call : request[c].status = "none" /\ request[c].result = None
        /\ \A r \in ResultId : gresult[r].status = "none"
    BY <1>1 DEF NoLease, NoRequest, NoResult
  <1>5. TablesInv(lease, request, gresult, source)
    BY <1>2, <1>4 DEF TablesInv, OneLive, OneRow, NewestGeneration, RowsBound, LiveWaits,
                      HeldResults, Links
  <1> QED
    BY <1>1, <1>3, <1>5 DEF IndInv

\* What acquire and observe go on with once overdue leases are expired.
LEMMA ExpiredTables ==
    ASSUME IndInv, NEW b, NEW now
    PROVE  /\ TablesInv(ExpireLeases(lease, b, now), ExpireRequests(request, lease, b, now),
                        gresult, source)
           /\ \A c \in Call : request[c].status = "none" =>
                 ExpireRequests(request, lease, b, now)[c].status = "none"
  <1>1. \A c \in Call : request[c].status = "none" =>
                 ExpireRequests(request, lease, b, now)[c].status = "none"
    BY DEF ExpireRequests, CloseRequests
  <1> QED
    BY <1>1, ExpiryKeepsTables DEF IndInv

\* acquire_gateway_call, each of its outcomes: answered, refused by a
\* quarantine, attached to the live lease, or made the leader.
LEMMA AcquireKeepsInv ==
    ASSUME IndInv, NEW c \in Call, NEW b \in Binding, NEW w \in AnyWindow, NEW now \in Int,
           Acquire(c, b, w, now)
    PROVE  IndInv'
  <1> DEFINE L == ExpireLeases(lease, b, now)
             R == ExpireRequests(request, lease, b, now)
             ready == RowsOf(gresult, b, "ready")
             active == {l \in LeasesOf(L, b) : L[l].status = "active"}
  <1>1. TablesInv(L, R, gresult, source) /\ R[c].status = "none"
    BY ExpiredTables DEF Acquire
  <1>2. /\ L \in [Call -> LeaseRow] /\ R \in [Call -> RequestRow]
        /\ gresult \in [ResultId -> ResultRow]
    BY <1>1 DEF TablesInv, Types
  <1>3. UNCHANGED <<source, blob, served>>
    BY DEF Acquire
  <1>4. \/ \E r \in ready : AcquireReady(c, r, L, R) \/ AcquireInvalid(r, L, R)
        \/ lease' = L /\ request' = R /\ UNCHANGED gresult
        \/ \E l \in active : AcquireFollower(c, b, l, L, R)
        \/ /\ ready = {} /\ RowsOf(gresult, b, "quarantined") = {} /\ active = {}
           /\ AcquireLeader(c, b, w, now, L, R)
    BY DEF Acquire
  <1> HIDE DEF L, R
  <1>5. ASSUME NEW r \in ready, AcquireReady(c, r, L, R)
        PROVE  TablesInv(lease', request', gresult', source)
    <2> DEFINE row == [status |-> "ready", role |-> "ready", binding |-> r[1],
                       lease |-> None, result |-> r]
    <2>1. r \in ResultId /\ r[1] \in Binding /\ gresult[r].status = "ready"
      BY DEF RowsOf, ResultId
    <2>2. /\ row \in RequestRow /\ row.status = "ready" /\ row.result = r
          /\ row.binding = r[1]
      BY <2>1 DEF RequestRow
    <2>3. lease' = L /\ request' = [R EXCEPT ![c] = row] /\ gresult' = gresult
      BY <1>5 DEF AcquireReady
    <2> HIDE DEF row
    <2>4. TablesInv(L, [R EXCEPT ![c] = row], gresult, source)
      BY <1>1, <2>1, <2>2, RequestWriteKeepsTables
    <2> QED
      BY <2>3, <2>4
  <1>6. ASSUME NEW r \in ready, AcquireInvalid(r, L, R)
        PROVE  TablesInv(lease', request', gresult', source)
    <2>1. r \in ResultId /\ gresult[r].status = "ready"
      BY DEF RowsOf
    <2> QED
      BY <1>1, <1>6, <2>1, QuarantineKeepsTables DEF AcquireInvalid
  <1>7. ASSUME NEW l \in active, AcquireFollower(c, b, l, L, R)
        PROVE  TablesInv(lease', request', gresult', source)
    <2> DEFINE row == [status |-> "waiting", role |-> "follower", binding |-> b,
                       lease |-> l, result |-> None]
    <2>1. l \in Call /\ L[l].status = "active" /\ L[l].binding = b
      BY DEF LeasesOf
    <2>2. /\ row \in RequestRow /\ row.status = "waiting" /\ row.result = None
          /\ row.binding = b /\ row.lease = l
      BY <2>1 DEF RequestRow
    <2>3. lease' = L /\ request' = [R EXCEPT ![c] = row] /\ gresult' = gresult
      BY <1>7 DEF AcquireFollower
    <2> HIDE DEF row
    <2>4. TablesInv(L, [R EXCEPT ![c] = row], gresult, source)
      BY <1>1, <2>1, <2>2, RequestWriteKeepsTables
    <2> QED
      BY <2>3, <2>4
  <1>8. ASSUME ready = {}, RowsOf(gresult, b, "quarantined") = {}, active = {},
               AcquireLeader(c, b, w, now, L, R)
        PROVE  TablesInv(lease', request', gresult', source)
    <2>1. PICK g \in NextGeneration(L, b) :
            lease' = [L EXCEPT ![c] =
                      [status |-> "active", binding |-> b, gen |-> g, until |-> w.until,
                       expires |-> LeaseExpiry(now, w.until), started |-> None,
                       completed |-> None, result |-> None]]
      BY <1>8 DEF AcquireLeader
    <2> DEFINE row == [status |-> "active", binding |-> b, gen |-> g, until |-> w.until,
                       expires |-> LeaseExpiry(now, w.until), started |-> None,
                       completed |-> None, result |-> None]
               req == [status |-> "inflight", role |-> "leader", binding |-> b,
                       lease |-> c, result |-> None]
    <2>2. g \in Nat /\ \A m \in LeasesOf(L, b) : L[m].gen < g
      BY <1>2 DEF NextGeneration, LeasesOf, LeaseRow
    <2>3. w.until \in Int /\ LeaseExpiry(now, w.until) \in Int
      BY CoordinatorAssumptions DEF LeaseExpiry, AnyWindow
    <2>4. row \in LeaseRow /\ row.status = "active" /\ row.binding = b /\ row.gen = g
      BY <2>2, <2>3 DEF LeaseRow
    <2>5. /\ req \in RequestRow /\ req.status = "inflight" /\ req.lease = c
          /\ req.binding = b /\ req.result = None
      BY DEF RequestRow
    <2>6. \A m \in LeasesOf(L, b) : L[m].status # "active" /\ L[m].gen < g
      BY <1>8, <2>2
    <2>7. \A r \in ResultId : r[1] = b => gresult[r].status = "none"
      BY <1>2, <1>8 DEF RowsOf, ResultRow
    <2>8. lease' = [L EXCEPT ![c] = row] /\ request' = [R EXCEPT ![c] = req]
          /\ gresult' = gresult
      BY <1>8, <2>1 DEF AcquireLeader
    <2> HIDE DEF row, req, ready, active
    <2>9. TablesInv([L EXCEPT ![c] = row], [R EXCEPT ![c] = req], gresult, source)
      BY <1>1, <2>4, <2>5, <2>6, <2>7, NewLeaseKeepsTables
    <2> QED
      BY <2>8, <2>9
  <1>9. TablesInv(lease', request', gresult', source)
    BY <1>1, <1>4, <1>5, <1>6, <1>7, <1>8
  <1> QED
    BY <1>3, <1>9 DEF IndInv

\* observe_gateway_call and observe_gateway_route_proof_v1.
LEMMA ObserveKeepsInv ==
    ASSUME IndInv, NEW b \in Binding, NEW w \in AnyWindow, NEW now \in Int, Observe(b, w, now)
    PROVE  IndInv'
  <1> DEFINE L == ExpireLeases(lease, b, now)
             R == ExpireRequests(request, lease, b, now)
             broken == {r \in RowsOf(gresult, b, "ready") : ~Servable(L, gresult, r)}
  <1>1. TablesInv(L, R, gresult, source)
    BY ExpiredTables
  <1>2. /\ \/ \E r \in broken : /\ lease' = QuarantineLeases(L, r)
                                /\ request' = QuarantineRequests(R, r)
                                /\ gresult' = [gresult EXCEPT ![r].status = "quarantined"]
           \/ lease' = L /\ request' = R /\ UNCHANGED gresult
        /\ UNCHANGED <<source, blob, served>>
    BY DEF Observe
  <1>3. \A r \in broken : r \in ResultId /\ gresult[r].status = "ready"
    BY DEF RowsOf
  <1> HIDE DEF L, R, broken
  <1>4. TablesInv(lease', request', gresult', source)
    BY <1>1, <1>2, <1>3, QuarantineKeepsTables
  <1> QED
    BY <1>2, <1>4 DEF IndInv

\* A lease found overdue by its own leader expires like any other.
LEMMA TouchKeepsInv ==
    ASSUME IndInv, NEW l \in Call, NEW now \in Int, ExpireOnTouch(l, now)
    PROVE  IndInv'
  BY ExpiredTables DEF ExpireOnTouch, IndInv

\* start_gateway_execution.
LEMMA StartKeepsInv ==
    ASSUME IndInv, NEW l \in Call, NEW now \in Int, Start(l, now)
    PROVE  IndInv'
  <1>1. CASE ExpireOnTouch(l, now)
    BY <1>1, TouchKeepsInv
  <1>2. CASE /\ IsLive(l, now)
             /\ lease' = [lease EXCEPT ![l].started = now]
             /\ UNCHANGED <<request, gresult, source, blob, served>>
    <2> DEFINE row == [lease[l] EXCEPT !.started = now]
    <2>1. lease \in [Call -> LeaseRow] /\ lease[l].status = "active" /\ now \in Int
      BY <1>2, CoordinatorAssumptions DEF IsLive, IndInv, TablesInv, Types
    <2>2. /\ row \in LeaseRow /\ row.status = "active" /\ row.binding = lease[l].binding
          /\ row.gen = lease[l].gen
      BY <2>1 DEF LeaseRow
    <2>3. lease' = [lease EXCEPT ![l] = row]
      BY <1>2, <2>1
    <2> HIDE DEF row
    <2>4. TablesInv(lease', request, gresult, source)
      BY <2>1, <2>2, <2>3, LiveLeaseWriteKeepsTables DEF IndInv
    <2> QED
      BY <1>2, <2>4 DEF IndInv
  <1> QED
    BY <1>1, <1>2 DEF Start

\* heartbeat_gateway_call.
LEMMA HeartbeatKeepsInv ==
    ASSUME IndInv, NEW l \in Call, NEW now \in Int, Heartbeat(l, now)
    PROVE  IndInv'
  <1>1. CASE ExpireOnTouch(l, now)
    BY <1>1, TouchKeepsInv
  <1>2. CASE /\ IsLive(l, now)
             /\ lease' = [lease EXCEPT ![l].expires = LeaseExpiry(now, lease[l].until)]
             /\ UNCHANGED <<request, gresult, source, blob, served>>
    <2> DEFINE row == [lease[l] EXCEPT !.expires = LeaseExpiry(now, lease[l].until)]
    <2>1. lease \in [Call -> LeaseRow] /\ lease[l].status = "active" /\ now \in Int
      BY <1>2, CoordinatorAssumptions DEF IsLive, IndInv, TablesInv, Types
    <2>2. LeaseExpiry(now, lease[l].until) \in Int
      BY <2>1, CoordinatorAssumptions DEF LeaseExpiry, LeaseRow
    <2>3. /\ row \in LeaseRow /\ row.status = "active" /\ row.binding = lease[l].binding
          /\ row.gen = lease[l].gen
      BY <2>1, <2>2 DEF LeaseRow
    <2>4. lease' = [lease EXCEPT ![l] = row]
      BY <1>2, <2>1
    <2> HIDE DEF row
    <2>5. TablesInv(lease', request, gresult, source)
      BY <2>1, <2>3, <2>4, LiveLeaseWriteKeepsTables DEF IndInv
    <2> QED
      BY <1>2, <2>5 DEF IndInv
  <1> QED
    BY <1>1, <1>2 DEF Heartbeat

\* fail_gateway_call.
LEMMA FailKeepsInv ==
    ASSUME IndInv, NEW l \in Call, NEW now \in Int, Fail(l, now)
    PROVE  IndInv'
  <1>1. CASE ExpireOnTouch(l, now)
    BY <1>1, TouchKeepsInv
  <1>2. CASE /\ IsLive(l, now)
             /\ lease' = [lease EXCEPT ![l].status = "failed"]
             /\ request' = CloseRequests(request, {l}, "failed", None)
             /\ UNCHANGED <<gresult, source, blob, served>>
    <2>1. lease[l].status = "active"
      BY <1>2 DEF IsLive
    <2>2. TablesInv(lease', request', gresult, source)
      BY <1>2, <2>1, FailKeepsTables DEF IndInv
    <2> QED
      BY <1>2, <2>2 DEF IndInv
  <1> QED
    BY <1>1, <1>2 DEF Fail

\* complete_gateway_call: expiry, publication or divergence.
LEMMA CompleteKeepsInv ==
    ASSUME IndInv, NEW l \in Call, NEW k \in Request, NEW now \in Int, Complete(l, k, now)
    PROVE  IndInv'
  <1>1. CASE ExpireOnTouch(l, now)
    BY <1>1, TouchKeepsInv
  <1>2. CASE Publish(l, k, now) /\ UNCHANGED <<source, blob, served>>
    <2> DEFINE r == <<lease[l].binding, k>>
               row == [lease[l] EXCEPT !.status = "completed", !.completed = now, !.result = r]
    <2>1. /\ lease \in [Call -> LeaseRow] /\ lease[l].status = "active" /\ now \in Int
          /\ lease[l].started # None /\ k = RequestOf[lease[l].binding]
      BY <1>2, CoordinatorAssumptions DEF Publish, IsLive, IndInv, TablesInv, Types
    <2>2. source[k].status # "none"
      BY DEF Complete
    <2>3. r \in ResultId
      BY <2>1 DEF IndInv, TablesInv, Links, ResultId
    <2>4. /\ row \in LeaseRow /\ row.status = "completed" /\ row.binding = lease[l].binding
          /\ row.gen = lease[l].gen /\ row.started = lease[l].started /\ row.result = r
      BY <2>1, <2>3 DEF LeaseRow
    <2>5. /\ lease' = [lease EXCEPT ![l] = row]
          /\ request' = CloseRequests(request, {l}, "ready", r)
          /\ gresult' = [gresult EXCEPT ![r] = [status |-> "ready", lease |-> l]]
      BY <1>2, <2>1 DEF Publish
    <2>6. r = <<lease[l].binding, k>>
      OBVIOUS
    <2> HIDE DEF r, row
    <2>7. TablesInv(lease', request', gresult', source)
      BY <2>1, <2>2, <2>4, <2>5, <2>6, PublishKeepsTables DEF IndInv
    <2> QED
      BY <1>2, <2>7 DEF IndInv
  <1>3. CASE Diverge(l, k) /\ UNCHANGED <<source, blob, served>>
    <2>1. lease[l].status = "completed"
      BY <1>3 DEF Diverge
    <2>2. /\ lease \in [Call -> LeaseRow] /\ request \in [Call -> RequestRow]
          /\ gresult \in [ResultId -> ResultRow]
      BY DEF IndInv, TablesInv, Types
    <2>3. /\ lease' \in [Call -> LeaseRow]
          /\ \A m \in Call :
                /\ lease'[m].binding = lease[m].binding /\ lease'[m].gen = lease[m].gen
                /\ lease'[m].result = lease[m].result /\ lease'[m].started = lease[m].started
                /\ lease'[m].status = IF m = l THEN "quarantined" ELSE lease[m].status
      BY <1>3, <2>2 DEF Diverge, LeaseRow
    <2>4. /\ request' \in [Call -> RequestRow]
          /\ \A c \in Call :
                /\ request'[c].binding = request[c].binding /\ request'[c].lease = request[c].lease
                /\ request'[c].result = request[c].result
                /\ request'[c].status = IF request[c].lease = l THEN "quarantined"
                                        ELSE request[c].status
      BY <1>3, <2>2 DEF Diverge, RequestRow
    <2>5. /\ gresult' \in [ResultId -> ResultRow]
          /\ \A r \in ResultId :
                /\ gresult'[r].lease = gresult[r].lease
                /\ gresult'[r].status = IF r[1] = lease[l].binding /\ gresult[r].status = "ready"
                                        THEN "quarantined" ELSE gresult[r].status
      BY <1>3, <2>2 DEF Diverge, ResultRow
    <2>6. TablesInv(lease', request', gresult', source)
      BY <2>1, <2>3, <2>4, <2>5, DivergenceKeepsTables DEF IndInv
    <2> QED
      BY <1>3, <2>6 DEF IndInv
  <1> QED
    BY <1>1, <1>2, <1>3 DEF Complete

\* cancel_gateway_follower closes one waiting request.
LEMMA CancelFollowerKeepsInv ==
    ASSUME IndInv, NEW c \in Call, CancelFollower(c)
    PROVE  IndInv'
  <1> DEFINE row == [request[c] EXCEPT !.status = "cancelled"]
  <1>1. request \in [Call -> RequestRow] /\ request[c] \in RequestRow
    BY DEF IndInv, TablesInv, Types
  <1>2. /\ row \in RequestRow /\ row.status = "cancelled" /\ row.result = request[c].result
        /\ row.binding = request[c].binding
    BY <1>1 DEF RequestRow
  <1>3. request' = [request EXCEPT ![c] = row]
    BY <1>1 DEF CancelFollower
  <1>4. row.result # None => /\ row.result \in ResultId
                             /\ row.result[1] = row.binding
                             /\ gresult[row.result].status # "none"
    BY <1>2 DEF IndInv, TablesInv, HeldResults
  <1> HIDE DEF row
  <1>5. TablesInv(lease, request', gresult, source)
    BY <1>2, <1>3, <1>4, RequestWriteKeepsTables DEF IndInv
  <1> QED
    BY <1>5 DEF IndInv, CancelFollower

\* The source rows matter to the coordinator's tables only by existing.
LEMMA SourceWriteKeepsInv ==
    ASSUME IndInv, UNCHANGED <<lease, request, gresult, served>>,
           source' \in [Request -> SourceRow],
           blob' \in [Content -> {"absent", "good", "corrupt"}],
           \A k \in Request : source[k].status # "none" => source'[k].status # "none"
    PROVE  IndInv'
  <1>1. \A r \in ResultId : r[2] \in Request
    BY DEF ResultId
  <1>2. RowsBound(lease, gresult, source')
    BY <1>1 DEF IndInv, TablesInv, RowsBound
  <1> QED
    BY <1>2 DEF IndInv, TablesInv

\* insert_result writes no gateway table.
LEMMA InsertResultKeepsInv ==
    ASSUME IndInv, NEW k \in Request, NEW v \in Content, InsertResult(k, v)
    PROVE  IndInv'
  <1>1. source \in [Request -> SourceRow] /\ blob \in [Content -> {"absent", "good", "corrupt"}]
    BY DEF IndInv
  <1>2. blob' \in [Content -> {"absent", "good", "corrupt"}]
    BY <1>1 DEF InsertResult
  <1>3. /\ source' \in [Request -> SourceRow]
        /\ \A j \in Request : source[j].status # "none" => source'[j].status # "none"
    BY <1>1 DEF InsertResult, SourceRow
  <1> QED
    BY <1>2, <1>3, SourceWriteKeepsInv DEF InsertResult

\* An explicit quarantine of a source row writes no gateway table.
LEMMA QuarantineSourceKeepsInv ==
    ASSUME IndInv, NEW k \in Request, QuarantineSource(k)
    PROVE  IndInv'
  <1>1. /\ source' \in [Request -> SourceRow]
        /\ \A j \in Request : source[j].status # "none" => source'[j].status # "none"
    BY DEF IndInv, QuarantineSource, SourceRow
  <1> QED
    BY <1>1, SourceWriteKeepsInv DEF QuarantineSource, IndInv

\* The coordinator's own steps are operations.
LEMMA NextIsOperation == [Next]_vars => [Operation]_vars
  <1>1. Time \subseteq Int /\ Window \subseteq AnyWindow
    BY CoordinatorAssumptions DEF AnyWindow
  <1> QED
    BY <1>1 DEF Next, Operation, OtherOperation

\* Every operation, and stuttering, keeps the inductive invariant.
LEMMA StepKeepsInv == IndInv /\ [Operation]_vars => IndInv'
  <1> SUFFICES ASSUME IndInv, [Operation]_vars PROVE IndInv'
    OBVIOUS
  <1>1. ASSUME NEW c \in Call, NEW b \in Binding, NEW w \in AnyWindow, NEW now \in Int,
               Acquire(c, b, w, now)
        PROVE  IndInv'
    BY <1>1, AcquireKeepsInv
  <1>2. ASSUME NEW b \in Binding, NEW w \in AnyWindow, NEW now \in Int, Observe(b, w, now)
        PROVE  IndInv'
    BY <1>2, ObserveKeepsInv
  <1>3. ASSUME NEW l \in Call, NEW now \in Int,
               Start(l, now) \/ Heartbeat(l, now) \/ Fail(l, now)
        PROVE  IndInv'
    BY <1>3, StartKeepsInv, HeartbeatKeepsInv, FailKeepsInv
  <1>4. ASSUME NEW l \in Call, NEW k \in Request, NEW now \in Int, Complete(l, k, now)
        PROVE  IndInv'
    BY <1>4, CompleteKeepsInv
  <1>5. ASSUME NEW c \in Call, CancelFollower(c) PROVE IndInv'
    BY <1>5, CancelFollowerKeepsInv
  <1>6. ASSUME NEW c \in Call, NEW r \in ResultId, RecordServed(c, r) PROVE IndInv'
    BY <1>6 DEF RecordServed, IndInv
  <1>7. ASSUME NEW k \in Request, NEW v \in Content, InsertResult(k, v) PROVE IndInv'
    BY <1>7, InsertResultKeepsInv
  <1>8. ASSUME NEW k \in Request, QuarantineSource(k) PROVE IndInv'
    BY <1>8, QuarantineSourceKeepsInv
  <1>9. ASSUME NEW v \in Content, DamageBlob(v) PROVE IndInv'
    BY <1>9 DEF DamageBlob, IndInv
  <1>10. CASE UNCHANGED vars
    BY <1>10 DEF vars, IndInv
  <1> QED
    BY <1>1, <1>2, <1>3, <1>4, <1>5, <1>6, <1>7, <1>8, <1>9, <1>10 DEF Operation, OtherOperation

-----------------------------------------------------------------------------
(* The invariants, for every value of the constants.                       *)

\* The inductive invariant holds in every state of every behaviour.
LEMMA Invariance == Spec => []IndInv
  BY InitIndInv, NextIsOperation, StepKeepsInv, PTL DEF Spec

\* The gateway tables keep the shapes the schema gives them.
THEOREM TypeCorrect == Spec => []TypeOK
  <1>1. IndInv => TypeOK
    BY DEF IndInv, TablesInv, Types, TypeOK
  <1> QED
    BY <1>1, Invariance, PTL

\* At most one live leader per binding, whatever clock each caller read.
THEOREM OneLeader == Spec => []SingleFlight
  <1>1. IndInv => SingleFlight
    BY DEF IndInv, TablesInv, OneLive, SingleFlight
  <1> QED
    BY <1>1, Invariance, PTL

\* A binding with a live leader has no result row and never gets two, so the
\* insert of complete_gateway_call meets no index conflict after its checks.
THEOREM RowsWrittenOnce == Spec => []WriteOnce
  <1>1. IndInv => WriteOnce
    BY DEF IndInv, TablesInv, OneRow, WriteOnce
  <1> QED
    BY <1>1, Invariance, PTL

\* Generations are distinct, and the live lease and the lease behind a result
\* row have the newest: no later lease can make a ready row unservable.
THEOREM NewestGenerationHolds == Spec => []Generations
  <1>1. IndInv => Generations
    BY DEF IndInv, TablesInv, NewestGeneration, Generations
  <1> QED
    BY <1>1, Invariance, PTL

\* A result row, its lease and its source row agree.
THEOREM RowsAreBound == Spec => []ResultsBound
  <1>1. IndInv => ResultsBound
    BY DEF IndInv, TablesInv, RowsBound, ResultsBound
  <1> QED
    BY <1>1, Invariance, PTL

\* Whoever waits, waits on a live lease of its own binding.
THEOREM WaitersHaveLeaders == Spec => []NoOrphanWait
  <1>1. IndInv => NoOrphanWait
    BY DEF IndInv, TablesInv, LiveWaits, NoOrphanWait
  <1> QED
    BY <1>1, Invariance, PTL

\* Calls of one binding that hold a result hold the same one.
THEOREM CallsAgree == Spec => []Agreement
  <1>1. IndInv => Agreement
    BY DEF IndInv, TablesInv, HeldResults, OneRow, Agreement
  <1> QED
    BY <1>1, Invariance, PTL

-----------------------------------------------------------------------------
(* A closed lease stays closed.                                            *)

KeepsClosed(L, X) ==
    \A l \in Call :
        /\ L[l].status \in {"failed", "expired", "quarantined"} => X[l] = L[l]
        /\ L[l].status = "completed" => /\ X[l].status \in {"completed", "quarantined"}
                                       /\ X[l].result = L[l].result

\* Expiry changes active leases only.
LEMMA ExpiryKeepsClosed ==
    ASSUME NEW L \in [Call -> LeaseRow], NEW b, NEW now
    PROVE  KeepsClosed(L, ExpireLeases(L, b, now))
  BY ExpireLeasesRows DEF KeepsClosed

\* Quarantine of a result changes completed leases only.
LEMMA QuarantineKeepsClosed ==
    ASSUME NEW L \in [Call -> LeaseRow], NEW r
    PROVE  KeepsClosed(L, QuarantineLeases(L, r))
  <1>1. \A l \in Call :
           QuarantineLeases(L, r)[l] = IF L[l].result = r /\ L[l].status = "completed"
                                       THEN [L[l] EXCEPT !.status = "quarantined"] ELSE L[l]
    BY DEF QuarantineLeases
  <1> QED
    BY <1>1 DEF KeepsClosed, LeaseRow

\* The two compose, as in acquire and observe.
LEMMA KeepsClosedTransitive ==
    ASSUME NEW L, NEW M, NEW X, KeepsClosed(L, M), KeepsClosed(M, X)
    PROVE  KeepsClosed(L, X)
  BY DEF KeepsClosed

\* No operation writes a closed lease, except to quarantine a completed one.
LEMMA StepKeepsClosed == IndInv /\ [Operation]_vars => KeepsClosed(lease, lease')
  <1> SUFFICES ASSUME IndInv, [Operation]_vars PROVE KeepsClosed(lease, lease')
    OBVIOUS
  <1>0. lease \in [Call -> LeaseRow]
    BY DEF IndInv, TablesInv, Types
  <1>1. ASSUME NEW c \in Call, NEW b \in Binding, NEW w \in AnyWindow, NEW now \in Int,
               Acquire(c, b, w, now)
        PROVE  KeepsClosed(lease, lease')
    <2> DEFINE L == ExpireLeases(lease, b, now)
               R == ExpireRequests(request, lease, b, now)
    <2>1. TablesInv(L, R, gresult, source) /\ R[c].status = "none"
      BY <1>1, ExpiredTables DEF Acquire
    <2>2. L \in [Call -> LeaseRow] /\ L[c].status = "none"
      BY <2>1 DEF TablesInv, Types, Links
    <2>3. KeepsClosed(lease, L)
      BY <1>0, ExpiryKeepsClosed
    <2>4. \/ lease' = L
          \/ \E r \in ResultId : lease' = QuarantineLeases(L, r)
          \/ \E row : lease' = [L EXCEPT ![c] = row]
      BY <1>1 DEF Acquire, AcquireReady, AcquireInvalid, AcquireFollower, AcquireLeader, RowsOf
    <2> HIDE DEF L, R
    <2>5. ASSUME NEW r \in ResultId, lease' = QuarantineLeases(L, r)
          PROVE  KeepsClosed(lease, lease')
      BY <2>2, <2>3, <2>5, QuarantineKeepsClosed, KeepsClosedTransitive
    <2>6. ASSUME NEW row, lease' = [L EXCEPT ![c] = row]
          PROVE  KeepsClosed(lease, lease')
      <3>1. KeepsClosed(L, lease')
        BY <2>2, <2>6 DEF KeepsClosed
      <3> QED
        BY <2>3, <3>1, KeepsClosedTransitive
    <2> QED
      BY <2>3, <2>4, <2>5, <2>6
  <1>2. ASSUME NEW b \in Binding, NEW w \in AnyWindow, NEW now \in Int, Observe(b, w, now)
        PROVE  KeepsClosed(lease, lease')
    <2> DEFINE L == ExpireLeases(lease, b, now)
    <2>1. L \in [Call -> LeaseRow] /\ KeepsClosed(lease, L)
      BY <1>0, ExpireLeasesRows, ExpiryKeepsClosed
    <2>2. lease' = L \/ \E r \in ResultId : lease' = QuarantineLeases(L, r)
      BY <1>2 DEF Observe, RowsOf
    <2> HIDE DEF L
    <2> QED
      BY <2>1, <2>2, QuarantineKeepsClosed, KeepsClosedTransitive
  <1>3. ASSUME NEW l \in Call, NEW now \in Int, ExpireOnTouch(l, now)
        PROVE  KeepsClosed(lease, lease')
    BY <1>0, <1>3, ExpiryKeepsClosed DEF ExpireOnTouch
  <1>4. ASSUME NEW l \in Call, NEW now \in Int,
               Start(l, now) \/ Heartbeat(l, now) \/ Fail(l, now)
        PROVE  KeepsClosed(lease, lease')
    BY <1>0, <1>3, <1>4 DEF Start, Heartbeat, Fail, IsLive, KeepsClosed
  <1>5. ASSUME NEW l \in Call, NEW k \in Request, NEW now \in Int, Complete(l, k, now)
        PROVE  KeepsClosed(lease, lease')
    <2>1. CASE Publish(l, k, now)
      BY <1>0, <2>1 DEF Publish, IsLive, KeepsClosed
    <2>2. CASE Diverge(l, k)
      BY <1>0, <2>2 DEF Diverge, KeepsClosed, LeaseRow
    <2> QED
      BY <1>3, <1>5, <2>1, <2>2 DEF Complete
  <1>6. CASE UNCHANGED lease
    BY <1>6 DEF KeepsClosed
  <1> QED
    BY <1>1, <1>2, <1>4, <1>5, <1>6
       DEF Operation, OtherOperation, CancelFollower, RecordServed, InsertResult,
           QuarantineSource, DamageBlob, vars

\* A lease that failed, expired or was quarantined is never revived, and a
\* completed one keeps its result: a late leader cannot start, extend, fail or
\* complete it.
THEOREM StaleLeaders == Spec => StaleLeaderStaysOut
  <1>1. IndInv /\ [Next]_vars => [\A l \in Call : StaysClosed(l)]_vars
    BY NextIsOperation, StepKeepsClosed DEF KeepsClosed, StaysClosed
  <1> QED
    BY <1>1, Invariance, PTL DEF Spec, StaleLeaderStaysOut
-----------------------------------------------------------------------------
(* Quarantine is for good.                                                 *)

\* What an operation does to a request it does not create: the columns of the
\* acquisition stay, and a result once handed out stays.
KeptRequest(p, q) ==
    /\ q.binding = p.binding /\ q.lease = p.lease /\ q.role = p.role
    /\ q.status = "none" <=> p.status = "none"
    /\ p.status \in {"ready", "quarantined"} =>
          q.status \in {"ready", "quarantined"} /\ q.result = p.result

KeepsRequests(R, X) == \A c \in Call : KeptRequest(R[c], X[c])

\* A call without a request row has no role and has joined no lease.
EmptyRequests(R) ==
    \A c \in Call : R[c].status = "none" => R[c].lease = None /\ R[c].role = None

\* Closing requests resolves waiting ones and leaves the others alone.
LEMMA CloseKeepsRequests ==
    ASSUME NEW R \in [Call -> RequestRow], NEW Ls, NEW s \in {"failed", "ready"}, NEW r
    PROVE  KeepsRequests(R, CloseRequests(R, Ls, s, r))
  <1>1. \A c \in Call :
           CloseRequests(R, Ls, s, r)[c] =
              IF R[c].lease \in Ls /\ R[c].status \in {"inflight", "waiting"}
              THEN [R[c] EXCEPT !.status = s, !.result = r] ELSE R[c]
    BY DEF CloseRequests
  <1> QED
    BY <1>1 DEF KeepsRequests, KeptRequest, RequestRow

\* Expiry closes the requests of the overdue leases.
LEMMA ExpiryKeepsRequests ==
    ASSUME NEW R \in [Call -> RequestRow], NEW L, NEW b, NEW now
    PROVE  /\ ExpireRequests(R, L, b, now) \in [Call -> RequestRow]
           /\ KeepsRequests(R, ExpireRequests(R, L, b, now))
  <1>1. None \in ResultId \cup {None} /\ "failed" \in {"failed", "ready"}
    OBVIOUS
  <1> QED
    BY <1>1, CloseRequestsRows, CloseKeepsRequests DEF ExpireRequests

\* Quarantine turns ready requests into quarantined ones.
LEMMA QuarantineKeepsRequests ==
    ASSUME NEW R \in [Call -> RequestRow], NEW r
    PROVE  KeepsRequests(R, QuarantineRequests(R, r))
  <1>1. \A c \in Call :
           QuarantineRequests(R, r)[c] = IF R[c].result = r /\ R[c].status = "ready"
                                         THEN [R[c] EXCEPT !.status = "quarantined"] ELSE R[c]
    BY DEF QuarantineRequests
  <1> QED
    BY <1>1 DEF KeepsRequests, KeptRequest, RequestRow

\* The two compose.
LEMMA KeepsRequestsTransitive ==
    ASSUME NEW R, NEW M, NEW X, KeepsRequests(R, M), KeepsRequests(M, X)
    PROVE  KeepsRequests(R, X)
  BY DEF KeepsRequests, KeptRequest

\* What an operation may do to a call that had no request row: give it one for
\* a binding that is not quarantined.
OpenedRequest(p, q) ==
    /\ p.status = "none" /\ q.status # "none"
    /\ RowsOf(gresult, q.binding, "quarantined") = {}

\* acquire_gateway_call writes the request row of its own call, if any.
LEMMA AcquireWritesRequest ==
    ASSUME IndInv, NEW c \in Call, NEW b \in Binding, NEW w, NEW now,
           Acquire(c, b, w, now)
    PROVE  \/ KeepsRequests(request, request')
           \/ /\ OpenedRequest(request[c], request'[c])
              /\ \A d \in Call \ {c} : KeptRequest(request[d], request'[d])
  <1> DEFINE L == ExpireLeases(lease, b, now)
             R == ExpireRequests(request, lease, b, now)
             ready == RowsOf(gresult, b, "ready")
             active == {l \in LeasesOf(L, b) : L[l].status = "active"}
  <1>1. /\ request \in [Call -> RequestRow] /\ gresult \in [ResultId -> ResultRow]
        /\ OneRow(lease, gresult)
    BY DEF IndInv, TablesInv, Types
  <1>2. R \in [Call -> RequestRow] /\ KeepsRequests(request, R)
    BY <1>1, ExpiryKeepsRequests
  <1>3. request[c].status = "none"
    BY DEF Acquire
  <1>4. \/ \E r \in ready : AcquireReady(c, r, L, R)
        \/ \E r \in ready : AcquireInvalid(r, L, R)
        \/ request' = R
        \/ /\ RowsOf(gresult, b, "quarantined") = {}
           /\ \/ \E l \in active : AcquireFollower(c, b, l, L, R)
              \/ AcquireLeader(c, b, w, now, L, R)
    BY DEF Acquire
  <1> HIDE DEF L, R, active
  <1>5. ASSUME NEW row, row.status # "none", RowsOf(gresult, row.binding, "quarantined") = {},
               request' = [R EXCEPT ![c] = row]
        PROVE  /\ OpenedRequest(request[c], request'[c])
               /\ \A d \in Call \ {c} : KeptRequest(request[d], request'[d])
    BY <1>2, <1>3, <1>5 DEF OpenedRequest, KeepsRequests
  <1>6. CASE \E r \in ready : AcquireReady(c, r, L, R)
    <2>1. PICK r \in ready : AcquireReady(c, r, L, R)
      BY <1>6
    <2>2. r \in ResultId /\ gresult[r].status = "ready" /\ r[1] = b
      BY DEF RowsOf
    <2>3. RowsOf(gresult, r[1], "quarantined") = {}
      BY <1>1, <2>2 DEF RowsOf, OneRow
    <2> DEFINE row == [status |-> "ready", role |-> "ready", binding |-> r[1],
                       lease |-> None, result |-> r]
    <2>4. row.status # "none" /\ row.binding = r[1] /\ request' = [R EXCEPT ![c] = row]
      BY <2>1 DEF AcquireReady
    <2> HIDE DEF row
    <2> QED
      BY <1>5, <2>3, <2>4
  <1>7. CASE \E r \in ready : AcquireInvalid(r, L, R)
    BY <1>2, <1>7, QuarantineKeepsRequests, KeepsRequestsTransitive DEF AcquireInvalid
  <1>8. CASE /\ RowsOf(gresult, b, "quarantined") = {}
             /\ \E l \in active : AcquireFollower(c, b, l, L, R)
    <2>1. PICK l \in active : AcquireFollower(c, b, l, L, R)
      BY <1>8
    <2> DEFINE row == [status |-> "waiting", role |-> "follower", binding |-> b,
                       lease |-> l, result |-> None]
    <2>2. row.status # "none" /\ row.binding = b /\ request' = [R EXCEPT ![c] = row]
      BY <2>1 DEF AcquireFollower
    <2> HIDE DEF row
    <2> QED
      BY <1>5, <1>8, <2>2
  <1>9. CASE /\ RowsOf(gresult, b, "quarantined") = {}
             /\ AcquireLeader(c, b, w, now, L, R)
    <2> DEFINE row == [status |-> "inflight", role |-> "leader", binding |-> b,
                       lease |-> c, result |-> None]
    <2>1. row.status # "none" /\ row.binding = b /\ request' = [R EXCEPT ![c] = row]
      BY <1>9 DEF AcquireLeader
    <2> HIDE DEF row
    <2> QED
      BY <1>5, <1>9, <2>1
  <1> QED
    BY <1>2, <1>4, <1>6, <1>7, <1>8, <1>9

\* Every other operation keeps all requests.
LEMMA OthersKeepRequests ==
    ASSUME IndInv, EmptyRequests(request), NEW now, [OtherOperation(now)]_vars
    PROVE  KeepsRequests(request, request')
  <1> SUFFICES ASSUME NEW c \in Call PROVE KeptRequest(request[c], request'[c])
    BY DEF KeepsRequests
  <1>0. request \in [Call -> RequestRow]
    BY DEF IndInv, TablesInv, Types
  <1>1. ASSUME NEW b \in Binding, NEW w \in AnyWindow, Observe(b, w, now)
        PROVE  KeepsRequests(request, request')
    <2> DEFINE R == ExpireRequests(request, lease, b, now)
    <2>1. R \in [Call -> RequestRow] /\ KeepsRequests(request, R)
      BY <1>0, ExpiryKeepsRequests
    <2>2. request' = R \/ \E r \in ResultId : request' = QuarantineRequests(R, r)
      BY <1>1 DEF Observe, RowsOf
    <2> HIDE DEF R
    <2> QED
      BY <2>1, <2>2, QuarantineKeepsRequests, KeepsRequestsTransitive
  <1>2. ASSUME NEW l \in Call, ExpireOnTouch(l, now)
        PROVE  KeepsRequests(request, request')
    BY <1>0, <1>2, ExpiryKeepsRequests DEF ExpireOnTouch
  <1>3. CASE UNCHANGED request
    BY <1>3 DEF KeptRequest
  <1>4. ASSUME NEW l \in Call, Start(l, now) \/ Heartbeat(l, now) \/ Fail(l, now)
        PROVE  KeptRequest(request[c], request'[c])
    <2>1. CASE request' = CloseRequests(request, {l}, "failed", None)
      <3>1. None \in ResultId \cup {None} /\ "failed" \in {"failed", "ready"}
        OBVIOUS
      <3> QED
        BY <1>0, <2>1, <3>1, CloseKeepsRequests DEF KeepsRequests
    <2> QED
      BY <1>2, <1>4, <2>1 DEF Start, Heartbeat, Fail, KeepsRequests, KeptRequest
  <1>5. ASSUME NEW l \in Call, NEW k \in Request, Complete(l, k, now)
        PROVE  KeptRequest(request[c], request'[c])
    <2>1. CASE Publish(l, k, now)
      <3>1. lease[l].binding \in Binding
        BY <2>1 DEF Publish, IsLive, IndInv, TablesInv, Links
      <3>2. <<lease[l].binding, k>> \in ResultId \cup {None} /\ "ready" \in {"failed", "ready"}
        BY <3>1 DEF ResultId
      <3>3. request' = CloseRequests(request, {l}, "ready", <<lease[l].binding, k>>)
        BY <2>1 DEF Publish
      <3> QED
        BY <1>0, <3>2, <3>3, CloseKeepsRequests DEF KeepsRequests
    <2>2. CASE Diverge(l, k)
      <3>1. request'[c] = IF request[c].lease = l
                          THEN [request[c] EXCEPT !.status = "quarantined"] ELSE request[c]
        BY <2>2 DEF Diverge
      <3>2. request[c].lease = l => request[c].status # "none"
        BY CoordinatorAssumptions DEF EmptyRequests
      <3> QED
        BY <1>0, <3>1, <3>2 DEF KeptRequest, RequestRow
    <2> QED
      BY <1>2, <1>5, <2>1, <2>2 DEF Complete, KeepsRequests
  <1>6. ASSUME NEW d \in Call, CancelFollower(d) PROVE KeptRequest(request[c], request'[c])
    BY <1>0, <1>6 DEF CancelFollower, KeptRequest, RequestRow
  <1> QED
    BY <1>1, <1>3, <1>4, <1>5, <1>6
       DEF OtherOperation, KeepsRequests, RecordServed, InsertResult, QuarantineSource,
           DamageBlob, vars

\* Every operation keeps the requests it does not open.
LEMMA StepOfRequests ==
    ASSUME IndInv, EmptyRequests(request), [Operation]_vars, NEW c \in Call
    PROVE  KeptRequest(request[c], request'[c]) \/ OpenedRequest(request[c], request'[c])
  <1>1. ASSUME NEW d \in Call, NEW b \in Binding, NEW w \in AnyWindow, NEW now \in Int,
               Acquire(d, b, w, now)
        PROVE  KeptRequest(request[c], request'[c]) \/ OpenedRequest(request[c], request'[c])
    BY <1>1, AcquireWritesRequest DEF KeepsRequests
  <1>2. ASSUME NEW now \in Int, [OtherOperation(now)]_vars
        PROVE  KeptRequest(request[c], request'[c])
    BY <1>2, OthersKeepRequests DEF KeepsRequests
  <1> QED
    BY <1>1, <1>2 DEF Operation

\* A call without a request row stays without a role and a lease.
LEMMA EmptyRequestsInvariance == Spec => []EmptyRequests(request)
  <1>1. Init => EmptyRequests(request)
    BY DEF Init, EmptyRequests, NoRequest
  <1>2. IndInv /\ EmptyRequests(request) /\ [Next]_vars => EmptyRequests(request)'
    BY NextIsOperation, StepOfRequests DEF EmptyRequests, KeptRequest, OpenedRequest
  <1> QED
    BY <1>1, <1>2, Invariance, PTL DEF Spec

\* A result row only moves on: from absent to ready, from ready to quarantined.
LEMMA StepOfRows ==
    ASSUME IndInv, [Operation]_vars, NEW r \in ResultId
    PROVE  /\ gresult'[r].status \in {"none", "ready", "quarantined"}
           /\ gresult[r].status = "quarantined" => gresult'[r].status = "quarantined"
           /\ gresult[r].status = "ready" => gresult'[r].status # "none"
  <1>0. gresult \in [ResultId -> ResultRow] /\ gresult[r] \in ResultRow
    BY DEF IndInv, TablesInv, Types
  <1> DEFINE Moves == /\ gresult'[r].status \in {"none", "ready", "quarantined"}
                      /\ gresult[r].status = "quarantined" => gresult'[r].status = "quarantined"
                      /\ gresult[r].status = "ready" => gresult'[r].status # "none"
  <1>1. CASE UNCHANGED gresult
    BY <1>0, <1>1 DEF ResultRow
  <1>2. ASSUME NEW q \in ResultId, gresult' = [gresult EXCEPT ![q].status = "quarantined"]
        PROVE  Moves
    BY <1>0, <1>2 DEF ResultRow
  <1>3. ASSUME NEW c \in Call, NEW b \in Binding, NEW w \in AnyWindow, NEW now \in Int,
               Acquire(c, b, w, now)
        PROVE  Moves
    BY <1>1, <1>2, <1>3 DEF Acquire, AcquireReady, AcquireInvalid, AcquireFollower,
                            AcquireLeader, RowsOf
  <1>4. ASSUME NEW b \in Binding, NEW w \in AnyWindow, NEW now \in Int, Observe(b, w, now)
        PROVE  Moves
    BY <1>1, <1>2, <1>4 DEF Observe, RowsOf
  <1>5. ASSUME NEW l \in Call, NEW k \in Request, NEW now \in Int, Complete(l, k, now)
        PROVE  Moves
    <2>1. CASE Publish(l, k, now)
      BY <1>0, <2>1 DEF Publish, ResultRow
    <2>2. CASE Diverge(l, k)
      BY <1>0, <2>2 DEF Diverge, ResultRow
    <2> QED
      BY <1>1, <1>5, <2>1, <2>2 DEF Complete, ExpireOnTouch
  <1> HIDE DEF Moves
  <1>6. Moves
    BY <1>1, <1>3, <1>4, <1>5
       DEF Operation, OtherOperation, Start, Heartbeat, Fail, ExpireOnTouch, CancelFollower, RecordServed,
           InsertResult, QuarantineSource, DamageBlob, vars, Moves
  <1> QED
    BY <1>6 DEF Moves

\* The operations that write neither the source rows nor the serves.
LEMMA SourceAndServes ==
    ASSUME [Operation]_vars
    PROVE  \/ UNCHANGED <<source, served>>
           \/ \E c \in Call, r \in ResultId : RecordServed(c, r)
           \/ \E k \in Request, v \in Content : InsertResult(k, v)
           \/ \E k \in Request : QuarantineSource(k)
  <1>1. ASSUME NEW c \in Call, NEW b \in Binding, NEW w \in AnyWindow, NEW now \in Int,
               Acquire(c, b, w, now)
        PROVE  UNCHANGED <<source, served>>
    BY <1>1 DEF Acquire
  <1>2. ASSUME NEW now \in Int, OtherOperation(now)
        PROVE  \/ UNCHANGED <<source, served>>
               \/ \E c \in Call, r \in ResultId : RecordServed(c, r)
               \/ \E k \in Request, v \in Content : InsertResult(k, v)
               \/ \E k \in Request : QuarantineSource(k)
    BY <1>2 DEF OtherOperation, Observe, Start, Heartbeat, Fail, Complete, ExpireOnTouch,
                CancelFollower, DamageBlob
  <1>3. CASE UNCHANGED vars
    BY <1>3 DEF vars
  <1> QED
    BY <1>1, <1>2, <1>3 DEF Operation

\* Only a call that holds a ready result of its binding is recorded as served.
LEMMA StepOfServed ==
    ASSUME IndInv, [Operation]_vars, NEW c \in served' \ served
    PROVE  \E r \in ResultId : /\ request[c].binding = r[1]
                               /\ gresult[r].status = "ready"
  <1>1. PICK d \in Call, r \in ResultId : RecordServed(d, r)
    BY SourceAndServes DEF InsertResult, QuarantineSource
  <1>2. request[c].result = r /\ gresult[r].status = "ready" /\ c \in Call
    BY <1>1 DEF RecordServed, ServeRecordable
  <1>3. r # None
    BY CoordinatorAssumptions DEF ResultId
  <1>4. r[1] = request[c].binding
    BY <1>2, <1>3 DEF IndInv, TablesInv, HeldResults
  <1> QED
    BY <1>2, <1>4

\* Once a binding is quarantined, no operation, whatever clock it read, makes a
\* row of it ready, a lease of it active, a request of it anything but refused,
\* or records a serve of it.
THEOREM QuarantineHolds == Spec => QuarantineIsForGood
  <1>1. ASSUME IndInv, EmptyRequests(request), [Next]_vars, NEW b \in Binding, Quarantined(b)
        PROVE  KeepsQuarantine(b)
    <2>0. [Operation]_vars /\ IndInv'
      BY <1>1, NextIsOperation, StepKeepsInv
    <2>1. PICK q \in ResultId : q[1] = b /\ gresult[q].status = "quarantined"
      BY <1>1 DEF Quarantined, RowsOf
    <2>2. gresult'[q].status = "quarantined"
      BY <1>1, <2>0, <2>1, StepOfRows
    <2>3. OneRow(lease, gresult) /\ OneRow(lease', gresult')
      BY <1>1, <2>0 DEF IndInv, TablesInv
    <2>4. RowsOf(gresult', b, "quarantined") # {} /\ RowsOf(gresult', b, "ready") = {}
      BY <2>1, <2>2, <2>3 DEF RowsOf, OneRow
    <2>5. \A l \in Call : lease'[l].binding = b => lease'[l].status # "active"
      BY <2>1, <2>2, <2>3 DEF OneRow
    <2>6. \A c \in Call : request'[c].binding = b /\ request[c].status = "none"
                             => request'[c].status = "none"
      BY <1>1, <2>0, <2>1, StepOfRequests DEF KeptRequest, OpenedRequest, RowsOf
    <2>7. \A c \in served' \ served : request[c].binding # b
      BY <1>1, <2>0, <2>1, <2>3, StepOfServed DEF OneRow
    <2> QED
      BY <2>4, <2>5, <2>6, <2>7 DEF KeepsQuarantine
  <1>2. IndInv /\ EmptyRequests(request) /\ [Next]_vars
           => [\A b \in Binding : Quarantined(b) => KeepsQuarantine(b)]_vars
    BY <1>1
  <1> QED
    BY <1>2, Invariance, EmptyRequestsInvariance, PTL DEF Spec, QuarantineIsForGood

-----------------------------------------------------------------------------
(* What one operation can make of a lease, for the modules that run the    *)
(* coordinator.                                                            *)

\* A lease is opened by acquire only, and completes only while it is live.
LeaseMoves(p, q) ==
    /\ q.status = "active" => p.status = "active"
    /\ q.status # "none" => p.status # "none"
    /\ q.status = "completed" => p.status \in {"active", "completed"}

\* Expiry moves leases on.
LEMMA ExpiryMoves ==
    ASSUME NEW L \in [Call -> LeaseRow], NEW b, NEW now, NEW l \in Call
    PROVE  LeaseMoves(L[l], ExpireLeases(L, b, now)[l])
  BY ExpireLeasesRows DEF LeaseMoves

\* So does quarantine.
LEMMA QuarantineMoves ==
    ASSUME NEW L \in [Call -> LeaseRow], NEW r, NEW l \in Call
    PROVE  LeaseMoves(L[l], QuarantineLeases(L, r)[l])
  <1>1. QuarantineLeases(L, r)[l] = IF L[l].result = r /\ L[l].status = "completed"
                                    THEN [L[l] EXCEPT !.status = "quarantined"] ELSE L[l]
    BY DEF QuarantineLeases
  <1> QED
    BY <1>1 DEF LeaseMoves, LeaseRow

\* No operation but acquire opens a lease.
LEMMA OthersMoveLeases ==
    ASSUME IndInv, NEW now, [OtherOperation(now)]_vars, NEW l \in Call
    PROVE  LeaseMoves(lease[l], lease'[l])
  <1>0. lease \in [Call -> LeaseRow]
    BY DEF IndInv, TablesInv, Types
  <1>1. ASSUME NEW b \in Binding, NEW w \in AnyWindow, Observe(b, w, now)
        PROVE  LeaseMoves(lease[l], lease'[l])
    <2> DEFINE L == ExpireLeases(lease, b, now)
    <2>1. L \in [Call -> LeaseRow] /\ LeaseMoves(lease[l], L[l])
      BY <1>0, ExpireLeasesRows, ExpiryMoves
    <2>2. lease' = L \/ \E r \in ResultId : lease' = QuarantineLeases(L, r)
      BY <1>1 DEF Observe, RowsOf
    <2> HIDE DEF L
    <2>3. ASSUME NEW r \in ResultId, lease' = QuarantineLeases(L, r)
          PROVE  LeaseMoves(lease[l], lease'[l])
      <3>1. LeaseMoves(L[l], lease'[l])
        BY <2>1, <2>3, QuarantineMoves
      <3> QED
        BY <2>1, <3>1 DEF LeaseMoves
    <2> QED
      BY <2>1, <2>2, <2>3
  <1>2. ASSUME NEW m \in Call, ExpireOnTouch(m, now)
        PROVE  LeaseMoves(lease[l], lease'[l])
    BY <1>0, <1>2, ExpiryMoves DEF ExpireOnTouch
  <1>3. ASSUME NEW m \in Call, Start(m, now) \/ Heartbeat(m, now) \/ Fail(m, now)
        PROVE  LeaseMoves(lease[l], lease'[l])
    BY <1>0, <1>2, <1>3 DEF Start, Heartbeat, Fail, IsLive, LeaseMoves, LeaseRow
  <1>4. ASSUME NEW m \in Call, NEW k \in Request, Complete(m, k, now)
        PROVE  LeaseMoves(lease[l], lease'[l])
    <2>1. CASE Publish(m, k, now)
      BY <1>0, <2>1 DEF Publish, IsLive, LeaseMoves, LeaseRow
    <2>2. CASE Diverge(m, k)
      BY <1>0, <2>2 DEF Diverge, LeaseMoves, LeaseRow
    <2> QED
      BY <1>2, <1>4, <2>1, <2>2 DEF Complete
  <1>5. CASE UNCHANGED lease
    BY <1>5 DEF LeaseMoves
  <1> QED
    BY <1>1, <1>3, <1>4, <1>5
       DEF OtherOperation, CancelFollower, RecordServed, InsertResult, QuarantineSource,
           DamageBlob, vars

\* acquire opens a lease for its own call only, and makes it the leader.
LEMMA AcquireMovesLeases ==
    ASSUME IndInv, NEW c \in Call, NEW b \in Binding, NEW w, NEW now, Acquire(c, b, w, now),
           NEW l \in Call
    PROVE  \/ LeaseMoves(lease[l], lease'[l])
           \/ l = c /\ lease'[c].status = "active" /\ request'[c].role = "leader"
  <1> DEFINE L == ExpireLeases(lease, b, now)
             R == ExpireRequests(request, lease, b, now)
  <1>0. lease \in [Call -> LeaseRow] /\ request \in [Call -> RequestRow]
    BY DEF IndInv, TablesInv, Types
  <1>1. L \in [Call -> LeaseRow] /\ LeaseMoves(lease[l], L[l]) /\ R \in [Call -> RequestRow]
    BY <1>0, ExpireLeasesRows, ExpiryMoves, ExpiryKeepsRequests
  <1>2. \/ lease' = L
        \/ \E r \in ResultId : lease' = QuarantineLeases(L, r)
        \/ AcquireLeader(c, b, w, now, L, R)
    BY DEF Acquire, AcquireReady, AcquireInvalid, AcquireFollower, RowsOf
  <1> HIDE DEF L, R
  <1>3. ASSUME NEW r \in ResultId, lease' = QuarantineLeases(L, r)
        PROVE  LeaseMoves(lease[l], lease'[l])
    <2>1. LeaseMoves(L[l], lease'[l])
      BY <1>1, <1>3, QuarantineMoves
    <2> QED
      BY <1>1, <2>1 DEF LeaseMoves
  <1>4. CASE AcquireLeader(c, b, w, now, L, R)
    BY <1>1, <1>4 DEF AcquireLeader
  <1> QED
    BY <1>1, <1>2, <1>3, <1>4

-----------------------------------------------------------------------------
(***************************************************************************)
(* The coordinator implements the write-once cell of ExactReuse, for any   *)
(* sets of calls, bindings, request keys and contents and for any clock.   *)
(*                                                                         *)
(* Publication maps to APublish, the quarantine of a row (found invalid by *)
(* acquire or observe, or diverging in complete) to AQuarantine, a         *)
(* recorded serve to AAnswer; every other operation stutters.  Two facts   *)
(* make the other steps stutter: a source row never changes its content    *)
(* once it exists, and a served call keeps the result it was served.       *)
(***************************************************************************)

\* A served call holds a result, and holds it for good.
ServedHeld ==
    \A c \in served : request[c].status \in {"ready", "quarantined"} /\ request[c].result # None

RefInv == IndInv /\ EmptyRequests(request) /\ ServedHeld

\* insert_result and quarantine: a source row keeps its content.
LEMMA StepOfSource ==
    ASSUME IndInv, [Operation]_vars, NEW k \in Request, source[k].status # "none"
    PROVE  source'[k].content = source[k].content
  <1>0. source \in [Request -> SourceRow]
    BY DEF IndInv
  <1>1. ASSUME NEW j \in Request, NEW v \in Content, InsertResult(j, v)
        PROVE  source'[k].content = source[k].content
    BY <1>0, <1>1 DEF InsertResult, SourceRow
  <1>2. ASSUME NEW j \in Request, QuarantineSource(j)
        PROVE  source'[k].content = source[k].content
    BY <1>0, <1>2 DEF QuarantineSource, SourceRow
  <1> QED
    BY <1>1, <1>2, SourceAndServes DEF RecordServed

\* What an operation can do to the result rows and to the serves.
RowTurns(r, s) ==
    \A q \in ResultId : gresult'[q].status = IF q = r THEN s ELSE gresult[q].status

Quarantines(r) == gresult[r].status = "ready" /\ RowTurns(r, "quarantined") /\ UNCHANGED served

Publishes(r) ==
    /\ gresult[r].status = "none" /\ RowTurns(r, "ready")
    /\ r[2] = RequestOf[r[1]] /\ source[r[2]].content \in Content
    /\ UNCHANGED <<source, served>>

\* The quarantine of one ready row.
LEMMA OneRowQuarantined ==
    ASSUME IndInv, NEW r \in ResultId, gresult[r].status = "ready", UNCHANGED served,
           gresult' = [gresult EXCEPT ![r].status = "quarantined"]
    PROVE  Quarantines(r)
  <1>1. gresult \in [ResultId -> ResultRow]
    BY DEF IndInv, TablesInv, Types
  <1> QED
    BY <1>1 DEF Quarantines, RowTurns, ResultRow

\* A divergence quarantines one row: the one its lease completed with.
LEMMA DivergenceQuarantines ==
    ASSUME IndInv, NEW l \in Call, NEW k, Diverge(l, k), UNCHANGED served
    PROVE  Quarantines(lease[l].result) /\ lease[l].result \in ResultId
  <1> DEFINE p == lease[l].result
  <1>0. gresult \in [ResultId -> ResultRow]
    BY DEF IndInv, TablesInv, Types
  <1>1. lease[l].status = "completed"
    BY DEF Diverge
  <1>2. p \in ResultId /\ gresult[p].status # "none" /\ gresult[p].lease = l
    BY <1>1 DEF IndInv, TablesInv, Links
  <1>3. p[1] = lease[l].binding /\ gresult[p].status = "ready"
    BY <1>0, <1>1, <1>2 DEF IndInv, TablesInv, RowsBound, ResultRow
  <1>4. \A r \in ResultId : r[1] = lease[l].binding /\ gresult[r].status = "ready" <=> r = p
    BY <1>2, <1>3 DEF IndInv, TablesInv, OneRow
  <1>5. \A r \in ResultId : gresult'[r] = IF r = p THEN [gresult[r] EXCEPT !.status = "quarantined"]
                                          ELSE gresult[r]
    BY <1>4 DEF Diverge
  <1> QED
    BY <1>0, <1>2, <1>3, <1>5 DEF Quarantines, RowTurns, ResultRow

\* Every operation publishes one row, quarantines one, records one serve, or
\* leaves both alone.
LEMMA StepOfReuse ==
    ASSUME IndInv, [Operation]_vars
    PROVE  \/ \E r \in ResultId : Publishes(r) \/ Quarantines(r)
           \/ \E c \in Call, r \in ResultId : RecordServed(c, r)
           \/ UNCHANGED <<gresult, served>>
  <1> DEFINE Goal == \/ \E r \in ResultId : Publishes(r) \/ Quarantines(r)
                     \/ UNCHANGED <<gresult, served>>
  <1>1. ASSUME NEW c \in Call, NEW b \in Binding, NEW w \in AnyWindow, NEW now \in Int,
               Acquire(c, b, w, now)
        PROVE  Goal
    <2>1. ASSUME NEW r \in RowsOf(gresult, b, "ready"),
                 gresult' = [gresult EXCEPT ![r].status = "quarantined"]
          PROVE  Goal
      BY <1>1, <2>1, OneRowQuarantined DEF RowsOf, Acquire
    <2>2. CASE UNCHANGED gresult
      BY <1>1, <2>2 DEF Acquire
    <2> HIDE DEF Goal
    <2> QED
      BY <1>1, <2>1, <2>2 DEF Acquire, AcquireReady, AcquireInvalid, AcquireFollower, AcquireLeader
  <1>2. ASSUME NEW b \in Binding, NEW w \in AnyWindow, NEW now \in Int, Observe(b, w, now)
        PROVE  Goal
    <2>1. ASSUME NEW r \in RowsOf(gresult, b, "ready"),
                 gresult' = [gresult EXCEPT ![r].status = "quarantined"]
          PROVE  Goal
      BY <1>2, <2>1, OneRowQuarantined DEF RowsOf, Observe
    <2>2. CASE UNCHANGED gresult
      BY <1>2, <2>2 DEF Observe
    <2> HIDE DEF Goal
    <2> QED
      BY <1>2, <2>1, <2>2 DEF Observe
  <1>3. ASSUME NEW l \in Call, NEW k \in Request, NEW now \in Int, Complete(l, k, now)
        PROVE  Goal
    <2>1. CASE Publish(l, k, now)
      <3> DEFINE r == <<lease[l].binding, k>>
      <3>1. gresult \in [ResultId -> ResultRow] /\ lease[l].binding \in Binding
        BY <2>1 DEF Publish, IsLive, IndInv, TablesInv, Types, Links
      <3>2. r \in ResultId /\ r[1] = lease[l].binding /\ r[2] = k
        BY <3>1 DEF ResultId
      <3>3. /\ gresult[r].status = "none"
            /\ gresult' = [gresult EXCEPT ![r] = [status |-> "ready", lease |-> l]]
        BY <2>1 DEF Publish
      <3>4. RowTurns(r, "ready")
        BY <3>1, <3>2, <3>3 DEF RowTurns
      <3>5. k = RequestOf[lease[l].binding] /\ source[k].content \in Content
        BY <1>3, <2>1 DEF Publish, Complete, BlobsValid
      <3>6. UNCHANGED <<source, served>>
        BY <1>3 DEF Complete, ExpireOnTouch
      <3> HIDE DEF r
      <3> QED
        BY <3>2, <3>3, <3>4, <3>5, <3>6 DEF Publishes
    <2>2. CASE Diverge(l, k)
      BY <1>3, <2>2, DivergenceQuarantines DEF Complete, ExpireOnTouch
    <2>3. CASE ExpireOnTouch(l, now)
      BY <2>3 DEF ExpireOnTouch
    <2> QED
      BY <1>3, <2>1, <2>2, <2>3 DEF Complete
  <1> HIDE DEF Goal
  <1>4. Goal \/ \E c \in Call, r \in ResultId : RecordServed(c, r)
    BY <1>1, <1>2, <1>3
       DEF Operation, OtherOperation, Start, Heartbeat, Fail, ExpireOnTouch, CancelFollower, InsertResult,
           QuarantineSource, DamageBlob, vars, Goal
  <1> QED
    BY <1>4 DEF Goal

-----------------------------------------------------------------------------
(* What each kind of step leaves of the mapped state.                      *)

\* A call that is not newly served is answered as before.
LEMMA AnswersKept ==
    ASSUME RefInv, [Operation]_vars, NEW c \in Call, c \in served
    PROVE  source'[request'[c].result[2]].content = source[request[c].result[2]].content
  <1> DEFINE r == request[c].result
  <1>1. request[c].status \in {"ready", "quarantined"} /\ r # None
    BY DEF RefInv, ServedHeld
  <1>2. request'[c].result = r
    BY <1>1, StepOfRequests DEF RefInv, KeptRequest, OpenedRequest
  <1>3. r \in ResultId /\ gresult[r].status # "none"
    BY <1>1 DEF RefInv, IndInv, TablesInv, HeldResults
  <1>4. r[2] \in Request /\ source[r[2]].status # "none"
    BY <1>3 DEF RefInv, IndInv, TablesInv, RowsBound, ResultId
  <1> HIDE DEF r
  <1>5. source'[r[2]].content = source[r[2]].content
    BY <1>4, StepOfSource DEF RefInv
  <1> QED
    BY <1>2, <1>5 DEF r

\* The value of a binding with a result row does not change.
LEMMA ValuesKept ==
    ASSUME RefInv, [Operation]_vars, NEW b \in Binding,
           gresult[<<b, RequestOf[b]>>].status # "none"
    PROVE  source'[RequestOf[b]].content = source[RequestOf[b]].content
  <1>1. RequestOf[b] \in Request /\ <<b, RequestOf[b]>> \in ResultId
    BY CoordinatorAssumptions DEF ResultId
  <1>2. source[RequestOf[b]].status # "none"
    BY <1>1 DEF RefInv, IndInv, TablesInv, RowsBound
  <1> QED
    BY <1>1, <1>2, StepOfSource DEF RefInv

\* Served calls hold their results.
LEMMA RefInvariance == Spec => []RefInv
  <1>1. Init => ServedHeld
    BY DEF Init, ServedHeld
  <1>2. ASSUME RefInv, [Next]_vars PROVE ServedHeld'
    <2>1. [Operation]_vars /\ IndInv
      BY <1>2, NextIsOperation DEF RefInv
    <2>2. ASSUME NEW c \in served'
          PROVE  request'[c].status \in {"ready", "quarantined"} /\ request'[c].result # None
      <3>1. CASE c \in served
        <4>1. c \in Call /\ request[c].status \in {"ready", "quarantined"} /\ request[c].result # None
          BY <1>2, <3>1 DEF RefInv, IndInv, ServedHeld
        <4> QED
          BY <1>2, <2>1, <4>1, StepOfRequests DEF RefInv, KeptRequest, OpenedRequest
      <3>2. CASE c \notin served
        <4>1. PICK d \in Call, r \in ResultId : RecordServed(d, r)
          BY <2>1, <2>2, <3>2, SourceAndServes DEF InsertResult, QuarantineSource
        <4>2. d = c /\ request' = request /\ request[c].status = "ready" /\ request[c].result = r
          BY <2>2, <3>2, <4>1 DEF RecordServed, ServeRecordable
        <4>3. r # None
          BY CoordinatorAssumptions DEF ResultId
        <4> QED
          BY <4>2, <4>3
      <3> QED
        BY <3>1, <3>2
    <2> QED
      BY <2>2 DEF ServedHeld
  <1> QED
    BY <1>1, <1>2, Invariance, EmptyRequestsInvariance, PTL DEF Spec, RefInv

-----------------------------------------------------------------------------
\* The initial tables map to the empty cells.
LEMMA InitMaps == Init => Reuse!AInit
  <1> SUFFICES ASSUME Init PROVE Reuse!AInit
    OBVIOUS
  <1>1. \A b \in Binding : gresult[<<b, RequestOf[b]>>].status = "none"
    BY CoordinatorAssumptions DEF Init, ResultId, NoResult
  <1>2. served = {}
    BY DEF Init
  <1> QED
    BY <1>1, <1>2 DEF Reuse!AInit, PhaseMap, ValueMap, AnswerMap

\* Publication fills an empty cell with the content of the source row.
LEMMA PublishMaps ==
    ASSUME RefInv, [Operation]_vars, NEW r \in ResultId, Publishes(r)
    PROVE  Reuse!ANext
  <1> DEFINE b == r[1]
             v == source[r[2]].content
  <1>1. b \in Binding /\ v \in Content /\ r = <<b, RequestOf[b]>>
    BY DEF Publishes, ResultId
  <1>2. \A a \in Binding : <<a, RequestOf[a]>> \in ResultId /\ (<<a, RequestOf[a]>> = r <=> a = b)
    BY <1>1, CoordinatorAssumptions DEF ResultId
  <1>3. \A a \in Binding : gresult'[<<a, RequestOf[a]>>].status =
                              IF a = b THEN "ready" ELSE gresult[<<a, RequestOf[a]>>].status
    BY <1>2 DEF Publishes, RowTurns
  <1>4. source' = source /\ served' = served
    BY DEF Publishes
  <1>5. PhaseMap[b] = "none" /\ PhaseMap' = [PhaseMap EXCEPT ![b] = "ready"]
    BY <1>1, <1>3 DEF PhaseMap, Publishes
  <1>6. ValueMap' = [ValueMap EXCEPT ![b] = v]
    BY <1>1, <1>3, <1>4 DEF ValueMap, Publishes
  <1>7. \A c \in Call : c \in served => source'[request'[c].result[2]].content
                                          = source[request[c].result[2]].content
    BY AnswersKept
  <1>8. AnswerMap' = AnswerMap
    BY <1>4, <1>7 DEF AnswerMap
  <1>9. Reuse!APublish(b, v)
    BY <1>5, <1>6, <1>8 DEF Reuse!APublish
  <1> QED
    BY <1>1, <1>9 DEF Reuse!ANext

\* The quarantine of a row closes its cell.
LEMMA QuarantineMaps ==
    ASSUME RefInv, [Operation]_vars, NEW r \in ResultId, Quarantines(r)
    PROVE  Reuse!ANext
  <1> DEFINE b == r[1]
  <1>1. b \in Binding /\ r = <<b, RequestOf[b]>>
    BY DEF Quarantines, ResultId, RefInv, IndInv, TablesInv, RowsBound
  <1>2. \A a \in Binding : <<a, RequestOf[a]>> \in ResultId /\ (<<a, RequestOf[a]>> = r <=> a = b)
    BY <1>1, CoordinatorAssumptions DEF ResultId
  <1>3. \A a \in Binding : gresult'[<<a, RequestOf[a]>>].status =
                              IF a = b THEN "quarantined" ELSE gresult[<<a, RequestOf[a]>>].status
    BY <1>2 DEF Quarantines, RowTurns
  <1>4. served' = served /\ gresult[<<b, RequestOf[b]>>].status = "ready"
    BY <1>1 DEF Quarantines
  <1>5. PhaseMap[b] = "ready" /\ PhaseMap' = [PhaseMap EXCEPT ![b] = "quarantined"]
    BY <1>1, <1>3, <1>4 DEF PhaseMap
  <1>6. \A a \in Binding : gresult[<<a, RequestOf[a]>>].status # "none" =>
                              source'[RequestOf[a]].content = source[RequestOf[a]].content
    BY ValuesKept
  <1>7. ValueMap' = ValueMap
    BY <1>3, <1>4, <1>6 DEF ValueMap
  <1>8. \A c \in Call : c \in served => source'[request'[c].result[2]].content
                                          = source[request[c].result[2]].content
    BY AnswersKept
  <1>9. AnswerMap' = AnswerMap
    BY <1>4, <1>8 DEF AnswerMap
  <1>10. Reuse!AQuarantine(b)
    BY <1>5, <1>7, <1>9 DEF Reuse!AQuarantine
  <1> QED
    BY <1>1, <1>10 DEF Reuse!ANext

\* A recorded serve answers its call with the value of its cell.
LEMMA ServeMaps ==
    ASSUME RefInv, NEW c \in Call, NEW r \in ResultId, RecordServed(c, r)
    PROVE  Reuse!ANext
  <1> DEFINE b == r[1]
  <1>1. /\ request[c].result = r /\ gresult[r].status = "ready" /\ c \notin served
        /\ served' = served \cup {c} /\ UNCHANGED <<request, gresult, source>>
    BY DEF RecordServed, ServeRecordable
  <1>2. b \in Binding /\ r = <<b, RequestOf[b]>>
    BY <1>1 DEF ResultId, RefInv, IndInv, TablesInv, RowsBound
  <1>3. PhaseMap[b] = "ready" /\ PhaseMap' = PhaseMap /\ ValueMap' = ValueMap
    BY <1>1, <1>2 DEF PhaseMap, ValueMap
  <1>4. ValueMap[b] = source[r[2]].content
    BY <1>1, <1>2 DEF ValueMap
  <1>5. AnswerMap[c] = None /\ AnswerMap' = [AnswerMap EXCEPT ![c] = ValueMap[b]]
    BY <1>1, <1>4 DEF AnswerMap
  <1>6. Reuse!AAnswer(c, b)
    BY <1>3, <1>5 DEF Reuse!AAnswer
  <1> QED
    BY <1>2, <1>6 DEF Reuse!ANext

\* Everything else leaves the cells and the answers alone.
LEMMA OtherStepsStutter ==
    ASSUME RefInv, [Operation]_vars, UNCHANGED <<gresult, served>>
    PROVE  UNCHANGED Reuse!avars
  <1>1. \A b \in Binding : gresult[<<b, RequestOf[b]>>].status # "none" =>
                              source'[RequestOf[b]].content = source[RequestOf[b]].content
    BY ValuesKept
  <1>2. \A c \in Call : c \in served => source'[request'[c].result[2]].content
                                          = source[request[c].result[2]].content
    BY AnswersKept
  <1>3. PhaseMap' = PhaseMap /\ ValueMap' = ValueMap
    BY <1>1 DEF PhaseMap, ValueMap
  <1>4. AnswerMap' = AnswerMap
    BY <1>2 DEF AnswerMap
  <1> QED
    BY <1>3, <1>4 DEF Reuse!avars

\* Every behaviour of the coordinator is one of the write-once cell: whatever
\* leases expire, fail or are taken over and whatever clocks are read, one
\* value is published per binding, each served call gets that value, and
\* nothing is answered once the binding is quarantined.
THEOREM CoordinatorImplementsExactReuse == Spec => ImplementsExactReuse
  <1>1. RefInv /\ [Next]_vars => [Reuse!ANext]_(Reuse!avars)
    <2> SUFFICES ASSUME RefInv, [Next]_vars PROVE [Reuse!ANext]_(Reuse!avars)
      OBVIOUS
    <2>1. [Operation]_vars /\ IndInv
      BY NextIsOperation DEF RefInv
    <2> QED
      BY <2>1, StepOfReuse, PublishMaps, QuarantineMaps, ServeMaps, OtherStepsStutter
  <1> QED
    BY <1>1, InitMaps, RefInvariance, PTL DEF Spec, ImplementsExactReuse, Reuse!ASpec

-----------------------------------------------------------------------------
(***************************************************************************)
(* The calls of GatewayRuntime, for any number of them, any workspace and  *)
(* any bounds.  The proof has three layers, each an inductive invariant    *)
(* that rests on the one before:                                           *)
(*   RuntimeInv  every step of a thread, a heartbeat or a cancellation is  *)
(*               an operation of the coordinator at the clock of that      *)
(*               moment, so IndInv holds; a call's flag, lease and request *)
(*               agree with where its thread is;                           *)
(*   TruthInv    (Stamped = Content) source rows and the values threads    *)
(*               hold are what their bindings name;                        *)
(*   SoundInv    (and files that do not fail) blobs are there, lease times *)
(*               are in order, a live lease has a thread that leads, and   *)
(*               nothing is quarantined.                                   *)
(***************************************************************************)

\* Where a thread holds an executed value, has an acquired request, has
\* resolved its binding, or leads.
Holding == {"after", "lrevalidate", "insert", "complete"}
Routed == {"proof", "load", "revalidate", "record", "start", "startfail"}
              \cup FollowerPc \cup LeaderPc
Bound == Routed \cup {"acquire"}
Leading == {"start", "startfail", "dead"} \cup LeaderPc

\* The types of the world and of the threads.
World ==
    /\ clock \in Nat /\ ws \in Content /\ stamp \in 0..MaxWrites
    /\ recent \in Binding \cup {None}

Threads == pc \in [Call -> Pc] /\ local \in [Call -> Local] /\ ans \in [Call -> Answer]

\* What an action of c's thread leaves alone.
Others(c) ==
    \A d \in Call \ {c} : pc'[d] = pc[d] /\ local'[d] = local[d] /\ ans'[d] = ans[d]

\* A binding is what resolve() can compute.
LEMMA DigestIsBinding == World => Digest \in Binding
  BY RuntimeAssumptions DEF World, Digest

\* What is loaded from the store is a content.
LEMMA LoadedIsContent ==
    ASSUME IndInv, NEW b \in Binding, Loadable(b)
    PROVE  StoredValue(b) \in Content /\ source[b].status = "visible"
  BY RuntimeAssumptions DEF Loadable, StoredValue, Servable, BlobsValid

-----------------------------------------------------------------------------
(* What the actions write to a thread's locals.                            *)

\* A call that returns forgets everything but its cancellation flag.
LEMMA FinishWrites ==
    ASSUME Threads, NEW c \in Call, Finish(c)
    PROVE  /\ pc' \in [Call -> Pc] /\ local' \in [Call -> Local]
           /\ pc'[c] = "done" /\ local'[c].flag = local[c].flag
           /\ \A d \in Call \ {c} : pc'[d] = pc[d] /\ local'[d] = local[d]
  <1> DEFINE m == [NoLocal EXCEPT !.flag = local[c].flag]
  <1>1. m \in Local /\ m.flag = local[c].flag
    BY DEF Threads, NoLocal, Local
  <1>2. local' = [local EXCEPT ![c] = m] /\ pc' = [pc EXCEPT ![c] = "done"] /\ "done" \in Pc
    BY DEF Finish, Goto, Pc
  <1> HIDE DEF m
  <1> QED
    BY <1>1, <1>2 DEF Threads

\* The value loaded or executed.
LEMMA HoldWrites ==
    ASSUME Threads, NEW c \in Call, NEW v \in Content \cup {None}, Hold(c, v)
    PROVE  /\ local' \in [Call -> Local]
           /\ local'[c].held = v /\ local'[c].bnd = local[c].bnd
           /\ local'[c].flag = local[c].flag /\ local'[c].seen = local[c].seen
           /\ \A d \in Call \ {c} : local'[d] = local[d]
  <1> DEFINE m == [local[c] EXCEPT !.held = v]
  <1>1. local[c] \in Local
    BY DEF Threads
  <1>2. /\ m \in Local /\ m.held = v /\ m.bnd = local[c].bnd /\ m.flag = local[c].flag
        /\ m.seen = local[c].seen
    BY <1>1 DEF Local
  <1>3. local' = [local EXCEPT ![c] = m]
    BY DEF Hold, Threads
  <1> HIDE DEF m
  <1> QED
    BY <1>2, <1>3 DEF Threads

\* The entry of execute(), with or without a preloaded candidate.
LEMMA BeginWrites ==
    ASSUME World, IndInv, Threads, NEW c \in Call, Begin(c)
    PROVE  /\ pc' \in [Call -> Pc] /\ local' \in [Call -> Local] /\ UNCHANGED ans
           /\ pc'[c] = "resolve" /\ local'[c].flag = "no" /\ local'[c].seen = {ws}
           /\ \/ local'[c].held = None
              \/ /\ local'[c].bnd \in Binding /\ local'[c].held = StoredValue(local'[c].bnd)
                 /\ source[local'[c].bnd].status = "visible"
           /\ Others(c)
  <1> DEFINE hit == recent # None /\ Loadable(recent)
             v == IF hit THEN StoredValue(recent) ELSE None
             b == IF hit THEN recent ELSE None
             m == [NoLocal EXCEPT !.held = v, !.bnd = b, !.seen = {ws}]
  <1>1. \/ v = None /\ b = None
        \/ /\ b \in Binding /\ v = StoredValue(b) /\ v \in Content
           /\ source[b].status = "visible"
    BY LoadedIsContent DEF World
  <1>2. local' = [local EXCEPT ![c] = m] /\ pc' = [pc EXCEPT ![c] = "resolve"] /\ "resolve" \in Pc
    BY DEF Begin, Goto, Pc
  <1> HIDE DEF v, b
  <1>3. m \in Local /\ m.held = v /\ m.bnd = b /\ m.flag = "no" /\ m.seen = {ws}
    BY <1>1 DEF NoLocal, Local, World
  <1> HIDE DEF m
  <1>4. UNCHANGED ans
    BY DEF Begin
  <1>5. local' \in [Call -> Local] /\ local'[c] = m /\ \A d \in Call \ {c} : local'[d] = local[d]
    BY <1>2, <1>3 DEF Threads
  <1>6. pc' \in [Call -> Pc] /\ pc'[c] = "resolve" /\ \A d \in Call \ {c} : pc'[d] = pc[d]
    BY <1>2 DEF Threads
  <1> QED
    BY <1>1, <1>3, <1>4, <1>5, <1>6 DEF Others

\* resolve() computes the binding, and drops a candidate of another one.
LEMMA ResolveWrites ==
    ASSUME World, Threads, NEW c \in Call, Resolve(c)
    PROVE  /\ pc' \in [Call -> Pc] /\ local' \in [Call -> Local] /\ UNCHANGED ans
           /\ Others(c)
           /\ \/ /\ pc'[c] = "acquire" /\ local'[c].bnd = Digest
                 /\ local'[c].held = IF local[c].bnd = Digest THEN local[c].held ELSE None
                 /\ local'[c].flag = local[c].flag /\ local'[c].seen = local[c].seen
              \/ pc'[c] = "direct" /\ local'[c] = local[c]
  <1> DEFINE t == clock + Validity
             v == IF local[c].bnd = Digest THEN local[c].held ELSE None
             m == [local[c] EXCEPT !.bnd = Digest, !.until = t, !.held = v]
  <1>1. local[c] \in Local /\ t \in Nat /\ Digest \in Binding
    BY DigestIsBinding, RuntimeAssumptions DEF Threads, World
  <1>2. v \in Content \cup {None}
    BY <1>1 DEF Local
  <1>3. CASE UNCHANGED local /\ Goto(c, "direct")
    BY <1>3 DEF Threads, Others, Goto, Pc, Resolve
  <1>4. CASE /\ local' = [local EXCEPT ![c].bnd = Digest, ![c].until = t,
                                       ![c].held = IF Bnd(c) = Digest THEN @ ELSE None]
             /\ Goto(c, "acquire")
    <2>1. local' = [local EXCEPT ![c] = m]
      BY <1>4 DEF Threads, Bnd
    <2> HIDE DEF t, v
    <2>2. /\ m \in Local /\ m.bnd = Digest /\ m.held = v /\ m.flag = local[c].flag
          /\ m.seen = local[c].seen
      BY <1>1, <1>2 DEF Local
    <2> HIDE DEF m
    <2>3. pc' \in [Call -> Pc] /\ pc'[c] = "acquire" /\ \A d \in Call \ {c} : pc'[d] = pc[d]
      BY <1>4 DEF Threads, Goto, Pc
    <2>4. UNCHANGED ans
      BY DEF Resolve
    <2>5. local' \in [Call -> Local] /\ local'[c] = m /\ \A d \in Call \ {c} : local'[d] = local[d]
      BY <2>1, <2>2 DEF Threads
    <2> QED
      BY <2>2, <2>3, <2>4, <2>5 DEF Others, v
  <1> QED
    BY <1>3, <1>4 DEF Resolve

\* The heartbeat thread's flag.
LEMMA HeartbeatWrites ==
    ASSUME Threads, NEW c \in Call, NEW h \in BOOLEAN,
           local' = [local EXCEPT ![c].hbFailed = h]
    PROVE  /\ local' \in [Call -> Local]
           /\ local'[c].bnd = local[c].bnd /\ local'[c].held = local[c].held
           /\ local'[c].seen = local[c].seen /\ local'[c].flag = local[c].flag
           /\ \A d \in Call \ {c} : local'[d] = local[d]
  <1> DEFINE m == [local[c] EXCEPT !.hbFailed = h]
  <1>1. local[c] \in Local
    BY DEF Threads
  <1>2. /\ m \in Local /\ m.bnd = local[c].bnd /\ m.held = local[c].held
        /\ m.seen = local[c].seen /\ m.flag = local[c].flag
    BY <1>1 DEF Local
  <1>3. local' = [local EXCEPT ![c] = m]
    BY DEF Threads
  <1> HIDE DEF m
  <1> QED
    BY <1>2, <1>3 DEF Threads

\* The flag cancel() sets.
LEMMA FlagWrites ==
    ASSUME Threads, NEW c \in Call, NEW f \in {"set", "closed"},
           local' = [local EXCEPT ![c].flag = f]
    PROVE  /\ local' \in [Call -> Local]
           /\ local'[c].bnd = local[c].bnd /\ local'[c].held = local[c].held
           /\ local'[c].seen = local[c].seen /\ local'[c].flag = f
           /\ \A d \in Call \ {c} : local'[d] = local[d]
  <1> DEFINE m == [local[c] EXCEPT !.flag = f]
  <1>1. local[c] \in Local
    BY DEF Threads
  <1>2. /\ m \in Local /\ m.bnd = local[c].bnd /\ m.held = local[c].held
        /\ m.seen = local[c].seen /\ m.flag = f
    BY <1>1 DEF Local
  <1>3. local' = [local EXCEPT ![c] = m]
    BY DEF Threads
  <1> HIDE DEF m
  <1> QED
    BY <1>2, <1>3 DEF Threads

\* An edit is seen by every call that runs.
LEMMA WriteWrites ==
    ASSUME World, Threads, Write
    PROVE  /\ ws' \in Content /\ stamp' = stamp + 1 /\ stamp' \in 0..MaxWrites
           /\ local' \in [Call -> Local] /\ UNCHANGED <<pc, ans>>
           /\ \A c \in Call :
                 /\ local'[c].bnd = local[c].bnd /\ local'[c].held = local[c].held
                 /\ local'[c].flag = local[c].flag
                 /\ local[c].seen \subseteq local'[c].seen
                 /\ pc[c] \notin {"idle", "done", "dead"} => ws' \in local'[c].seen
  <1>1. PICK v \in Content :
           /\ ws' = v
           /\ local' = [c \in Call |-> IF pc[c] \in {"idle", "done", "dead"} THEN local[c]
                                       ELSE [local[c] EXCEPT !.seen = @ \cup {v}]]
    BY DEF Write
  <1>2. stamp' = stamp + 1 /\ stamp' \in 0..MaxWrites /\ UNCHANGED <<pc, ans>>
    BY RuntimeAssumptions DEF Write, World
  <1>3. ASSUME NEW c \in Call
        PROVE  /\ local'[c] \in Local
               /\ local'[c].bnd = local[c].bnd /\ local'[c].held = local[c].held
               /\ local'[c].flag = local[c].flag
               /\ local[c].seen \subseteq local'[c].seen
               /\ pc[c] \notin {"idle", "done", "dead"} => v \in local'[c].seen
    <2> DEFINE m == [local[c] EXCEPT !.seen = local[c].seen \cup {v}]
    <2>1. local[c] \in Local
      BY DEF Threads
    <2>2. /\ m \in Local /\ m.bnd = local[c].bnd /\ m.held = local[c].held
          /\ m.flag = local[c].flag /\ m.seen = local[c].seen \cup {v}
      BY <2>1 DEF Local
    <2>3. local'[c] = IF pc[c] \in {"idle", "done", "dead"} THEN local[c] ELSE m
      BY <1>1
    <2> HIDE DEF m
    <2> QED
      BY <2>1, <2>2, <2>3
  <1>4. local' \in [Call -> Local]
    BY <1>1, <1>3
  <1> QED
    BY <1>1, <1>2, <1>3, <1>4

-----------------------------------------------------------------------------
(* Every step of the runtime is a step of the coordinator, or none.        *)

\* What a call's thread, its flag, its request and its lease say of one another.
CallInv(c) ==
    /\ pc[c] \in Bound => Bnd(c) \in Binding
    /\ pc[c] \in Holding => local[c].held \in Content
    /\ pc[c] \in Routed \/ local[c].flag # "no" => request[c].status # "none"
    /\ lease[c].status # "none" => request[c].role = "leader"
    /\ local[c].flag = "closed" => lease[c].status # "active"

RuntimeInv ==
    /\ World /\ Threads /\ IndInv /\ EmptyRequests(request)
    /\ \A c \in Call : CallInv(c)

\* A bound call passes a binding and a freshness window to the coordinator.
LEMMA BoundCall ==
    ASSUME RuntimeInv, NEW c \in Call, pc[c] \in Bound
    PROVE  /\ Bnd(c) \in Binding /\ Bnd(c) \in Request /\ IdOf(c) \in ResultId
           /\ WindowOf(c) \in AnyWindow
  <1>1. Bnd(c) \in Binding /\ local[c] \in Local
    BY DEF RuntimeInv, CallInv, Threads
  <1> QED
    BY <1>1, RuntimeAssumptions DEF IdOf, ResultId, WindowOf, AnyWindow, Local

\* The steps of a call's thread other than its acquisition.
LEMMA StepIsOperation ==
    ASSUME RuntimeInv, NEW c \in Call,
           Step(c) \/ FollowerTimeout(c) \/ HeartbeatStep(c) \/ Cancel(c) \/ CancelCloses(c)
    PROVE  \/ pc[c] = "acquire" /\ Acquire(c, Bnd(c), WindowOf(c), clock)
           \/ [OtherOperation(clock)]_vars
  <1> DEFINE Other == [OtherOperation(clock)]_vars
  <1>1. ASSUME pc[c] \in Bound, Observe(Bnd(c), WindowOf(c), clock) PROVE Other
    BY <1>1, BoundCall DEF OtherOperation
  <1>2. CASE Start(c, clock) \/ Heartbeat(c, clock) \/ Fail(c, clock)
    BY <1>2 DEF OtherOperation
  <1>3. ASSUME pc[c] \in Bound, Complete(c, Bnd(c), clock) PROVE Other
    BY <1>3, BoundCall DEF OtherOperation
  <1>4. CASE CancelFollower(c)
    BY <1>4 DEF OtherOperation
  <1>5. ASSUME pc[c] \in Bound, RecordServed(c, IdOf(c)) PROVE Other
    BY <1>5, BoundCall DEF OtherOperation
  <1>6. ASSUME pc[c] = "insert", InsertResult(Bnd(c), local[c].held) PROVE Other
    <2>1. pc[c] \in Bound /\ pc[c] \in Holding
      BY <1>6 DEF Bound, Routed, LeaderPc, Holding
    <2> QED
      BY <1>6, <2>1, BoundCall DEF OtherOperation, RuntimeInv, CallInv
  <1>7. CASE UNCHANGED vars
    BY <1>7
  <1>8. {"proof", "fproof", "fwait", "record", "complete"} \subseteq Bound
    BY DEF Bound, Routed, FollowerPc, LeaderPc
  <1> HIDE DEF Other
  <1>9. CASE AcquireStep(c)
    BY <1>7, <1>9 DEF AcquireStep
  <1>10. CASE ProveExact(c) \/ ProveJoin(c) \/ WaitJoin(c)
    BY <1>1, <1>7, <1>8, <1>10 DEF ProveExact, ProveJoin, WaitJoin, Other
  <1>11. CASE Record(c)
    BY <1>5, <1>7, <1>8, <1>11 DEF Record, Other
  <1>12. CASE FollowerCancelled(c) \/ FollowerGivesUp(c)
    BY <1>4, <1>7, <1>12 DEF FollowerCancelled, FollowerGivesUp, CloseWait
  <1>13. CASE StartLeader(c) \/ StartFailed(c) \/ LeadFail(c) \/ HeartbeatStep(c)
    BY <1>2, <1>7, <1>13 DEF StartLeader, StartFailed, LeadFail, HeartbeatStep, FailLease
  <1>14. CASE CancelCloses(c)
    BY <1>2, <1>4, <1>7, <1>14 DEF CancelCloses, FailLease, CloseWait
  <1>15. CASE LeadInsert(c)
    BY <1>6, <1>7, <1>15 DEF LeadInsert, Other
  <1>16. CASE LeadComplete(c)
    BY <1>3, <1>7, <1>8, <1>16 DEF LeadComplete, Other
  <1>17. CASE \/ Begin(c) \/ Resolve(c) \/ Direct(c) \/ LoadExact(c) \/ Revalidate(c)
              \/ RevalidateJoin(c) \/ LeadExecute(c) \/ AfterExecute(c) \/ LeadRevalidate(c)
              \/ FollowerTimeout(c) \/ Cancel(c)
    BY <1>7, <1>17 DEF Begin, Resolve, Direct, LoadExact, Revalidate, RevalidateJoin,
                       LeadExecute, AfterExecute, LeadRevalidate, FollowerTimeout, Cancel
  <1> QED
    BY <1>9, <1>10, <1>11, <1>12, <1>13, <1>14, <1>15, <1>16, <1>17 DEF Step, Other

-----------------------------------------------------------------------------
(* A thread moves.                                                         *)

\* What a step of c's thread establishes of c and leaves of the others.
ThreadStep(c) ==
    /\ Threads' /\ Others(c)
    /\ pc'[c] \in Bound => Bnd(c)' \in Binding
    /\ pc'[c] \in Holding => local'[c].held \in Content
    /\ pc'[c] \in Routed => pc[c] \in Routed \/ request'[c].role # None
    /\ local'[c].flag # "no" => local[c].flag # "no" \/ pc[c] \in Routed
    /\ local'[c].flag = "closed" => local[c].flag = "closed" \/ lease'[c].status # "active"

Answers(c) == UNCHANGED ans \/ \E a \in Answer : Return(c, a)

\* What a call returned is written by its own thread.
LEMMA AnswersTyped ==
    ASSUME Threads, NEW c \in Call, Answers(c)
    PROVE  ans' \in [Call -> Answer] /\ \A d \in Call \ {c} : ans'[d] = ans[d]
  BY DEF Threads, Answers, Return

\* A reused value is answered as such or noted as stale.
LEMMA ServeAnswers ==
    ASSUME NEW c \in Call, NEW kind \in Answer, NEW v, Serve(c, kind, v)
    PROVE  Answers(c)
  BY DEF Serve, Return, Answers, Answer

\* A thread goes on without writing its locals.
LEMMA JumpKeeps ==
    ASSUME RuntimeInv, NEW c \in Call, NEW p \in Pc, Goto(c, p), UNCHANGED local, Answers(c),
           p \in Bound => pc[c] \in Bound,
           p \in Holding => pc[c] \in Holding,
           p \in Routed => pc[c] \in Routed \/ request'[c].role # None
    PROVE  ThreadStep(c)
  <1>1. pc' \in [Call -> Pc] /\ pc'[c] = p /\ \A d \in Call \ {c} : pc'[d] = pc[d]
    BY DEF RuntimeInv, Threads, Goto
  <1>2. Threads' /\ Others(c)
    BY <1>1, AnswersTyped DEF RuntimeInv, Threads, Others
  <1>3. Bnd(c)' = Bnd(c) /\ CallInv(c)
    BY DEF Bnd, RuntimeInv
  <1> QED
    BY <1>1, <1>2, <1>3 DEF ThreadStep, CallInv

\* A thread returns.
LEMMA FinishKeeps ==
    ASSUME RuntimeInv, NEW c \in Call, Finish(c), Answers(c)
    PROVE  ThreadStep(c)
  <1>1. Threads' /\ Others(c) /\ pc'[c] = "done" /\ local'[c].flag = local[c].flag
    BY FinishWrites, AnswersTyped DEF RuntimeInv, Threads, Others
  <1>2. "done" \notin Bound /\ "done" \notin Holding /\ "done" \notin Routed
    BY DEF Bound, Routed, Holding, FollowerPc, LeaderPc
  <1> QED
    BY <1>1, <1>2 DEF ThreadStep

\* fail_gateway_call closes the lease it is called on.
LEMMA FailCloses ==
    ASSUME IndInv, NEW l \in Call, NEW now \in Int, Fail(l, now)
    PROVE  lease'[l].status # "active"
  <1>0. lease \in [Call -> LeaseRow]
    BY DEF IndInv, TablesInv, Types
  <1>1. CASE ExpireOnTouch(l, now)
    <2>1. l \in Overdue(lease, lease[l].binding, now)
      BY <1>1 DEF ExpireOnTouch, Overdue, LeasesOf
    <2> QED
      BY <1>0, <1>1, <2>1, ExpireLeasesRows DEF ExpireOnTouch
  <1>2. CASE lease' = [lease EXCEPT ![l].status = "failed"]
    BY <1>0, <1>2 DEF LeaseRow
  <1> QED
    BY <1>1, <1>2 DEF Fail

\* fail_gateway_call as the runtime calls it: nothing is done to a closed lease.
LEMMA FailLeaseCloses ==
    ASSUME RuntimeInv, NEW c \in Call, FailLease(c)
    PROVE  lease'[c].status # "active"
  BY FailCloses DEF FailLease, RuntimeInv, World, vars

\* Each step of a call's thread, of its heartbeat and of its cancellation.
LEMMA StepOfThread ==
    ASSUME RuntimeInv, NEW c \in Call,
           Step(c) \/ FollowerTimeout(c) \/ HeartbeatStep(c) \/ Cancel(c) \/ CancelCloses(c)
    PROVE  ThreadStep(c)
  <1> DEFINE At(p) == /\ p \in Bound => pc[c] \in Bound
                      /\ p \in Holding => pc[c] \in Holding
                      /\ p \in Routed => pc[c] \in Routed \/ request'[c].role # None
  <1>0. /\ World /\ Threads /\ IndInv /\ CallInv(c)
        /\ \A a \in {"direct", "led", "error", "exact", "joined"} : a \in Answer
    BY DEF RuntimeInv, Answer
  <1>1. ASSUME NEW p \in Pc, Goto(c, p), UNCHANGED local, Answers(c), At(p)
        PROVE  ThreadStep(c)
    BY <1>1, JumpKeeps
  <1>2. CASE Begin(c)
    <2>1. Threads' /\ Others(c) /\ pc'[c] = "resolve" /\ local'[c].flag = "no"
      BY <1>0, <1>2, BeginWrites DEF Threads
    <2> QED
      BY <2>1 DEF ThreadStep, Bound, Routed, Holding, FollowerPc, LeaderPc
  <1>3. CASE Resolve(c)
    <2>1. /\ Threads' /\ Others(c) /\ local'[c].flag = local[c].flag
          /\ \/ pc'[c] = "acquire" /\ Bnd(c)' = Digest
             \/ pc'[c] = "direct"
      BY <1>0, <1>3, ResolveWrites DEF Threads, Bnd
    <2>2. Digest \in Binding
      BY <1>0, DigestIsBinding
    <2> QED
      BY <2>1, <2>2 DEF ThreadStep, Bound, Routed, Holding, FollowerPc, LeaderPc
  <1>4. CASE AcquireStep(c)
    <2>1. PICK p \in {"proof", "fproof", "start", "direct"} :
             Goto(c, p) /\ (p = "direct" \/ request'[c].role # None)
      BY <1>4, CoordinatorAssumptions DEF AcquireStep, RouteOf
    <2>2. p \in Pc /\ At(p)
      BY <1>4, <2>1 DEF Pc, Bound, Routed, Holding, FollowerPc, LeaderPc, AcquireStep
    <2> QED
      BY <1>1, <1>4, <2>1, <2>2 DEF AcquireStep, Answers
  <1>5. CASE Direct(c) \/ Record(c) \/ LeadComplete(c) \/ LeadFail(c)
    BY <1>0, <1>5, FinishKeeps DEF Direct, Record, LeadComplete, LeadFail, Answers
  <1>6. CASE ProveExact(c) \/ Revalidate(c)
    <2>1. PICK p \in {"direct", "load", "record"} : Goto(c, p) /\ Answers(c) /\ UNCHANGED local
      BY <1>0, <1>6, ServeAnswers DEF ProveExact, Revalidate, Answers
    <2>2. p \in Pc /\ At(p)
      BY <1>6, <2>1 DEF Pc, Bound, Routed, Holding, FollowerPc, LeaderPc, ProveExact, Revalidate
    <2> QED
      BY <1>1, <2>1, <2>2
  <1>7. CASE LoadExact(c)
    <2>1. pc[c] \in Routed /\ pc[c] \in Bound /\ Bnd(c) \in Binding
      BY <1>0, <1>7 DEF LoadExact, Routed, Bound, CallInv
    <2> DEFINE v == IF Loadable(Bnd(c)) THEN StoredValue(Bnd(c)) ELSE None
    <2>2. v \in Content \cup {None}
      BY <1>0, <2>1, LoadedIsContent
    <2>3. Hold(c, v) /\ Goto(c, "revalidate") /\ UNCHANGED ans /\ "revalidate" \in Pc
      BY <1>7 DEF LoadExact, Pc
    <2> HIDE DEF v
    <2>4. /\ Threads' /\ Others(c) /\ local'[c].flag = local[c].flag
          /\ local'[c].bnd = local[c].bnd /\ pc'[c] = "revalidate"
      BY <1>0, <2>2, <2>3, HoldWrites DEF Threads, Others, Goto
    <2> QED
      BY <2>1, <2>4 DEF ThreadStep, Holding, Bnd
  <1>8. CASE FollowerCancelled(c)
    BY <1>0, <1>8, FinishKeeps DEF FollowerCancelled, Answers
  <1>9. CASE ProveJoin(c) \/ WaitJoin(c) \/ FollowerTimeout(c) \/ RevalidateJoin(c)
    <2>1. PICK p \in {"fwait", "fproof", "fcancel", "frevalidate", "record"} :
             Goto(c, p) /\ Answers(c) /\ UNCHANGED local
      BY <1>0, <1>9, ServeAnswers DEF ProveJoin, WaitJoin, FollowerTimeout, RevalidateJoin, Answers
    <2>2. p \in Pc /\ At(p)
      BY <1>9, <2>1 DEF Pc, Bound, Routed, Holding, FollowerPc, LeaderPc,
                        ProveJoin, WaitJoin, FollowerTimeout, RevalidateJoin
    <2> QED
      BY <1>1, <2>1, <2>2
  <1>10. CASE FollowerGivesUp(c)
    <2>1. CASE Finish(c)
      BY <1>10, <2>1, FinishKeeps DEF FollowerGivesUp, Answers
    <2>2. CASE Goto(c, "direct") /\ UNCHANGED local
      BY <1>1, <1>10, <2>2
         DEF FollowerGivesUp, Answers, Pc, Bound, Routed, Holding, FollowerPc, LeaderPc
    <2> QED
      BY <1>10, <2>1, <2>2 DEF FollowerGivesUp
  <1>11. CASE StartLeader(c) \/ StartFailed(c)
    <2>1. PICK p \in {"exec", "startfail", "direct"} : Goto(c, p) /\ Answers(c) /\ UNCHANGED local
      BY <1>11 DEF StartLeader, StartFailed, Answers
    <2>2. p \in Pc /\ At(p)
      BY <1>11, <2>1 DEF Pc, Bound, Routed, Holding, FollowerPc, LeaderPc, StartLeader, StartFailed
    <2> QED
      BY <1>1, <2>1, <2>2
  <1>12. CASE LeadExecute(c)
    <2>1. pc[c] \in Routed /\ pc[c] \in Bound /\ Bnd(c) \in Binding
      BY <1>0, <1>12 DEF LeadExecute, Routed, Bound, CallInv, LeaderPc
    <2>2. CASE Hold(c, ws) /\ Goto(c, "after") /\ UNCHANGED ans
      <3>1. ws \in Content \cup {None} /\ ws \in Content /\ "after" \in Pc
        BY <1>0 DEF World, Pc, LeaderPc
      <3>2. /\ Threads' /\ Others(c) /\ local'[c].flag = local[c].flag
            /\ local'[c].bnd = local[c].bnd /\ pc'[c] = "after" /\ local'[c].held = ws
        BY <1>0, <2>2, <3>1, HoldWrites DEF Threads, Others, Goto
      <3> QED
        BY <2>1, <3>1, <3>2 DEF ThreadStep, Bnd
    <2>3. CASE Return(c, "error") /\ Goto(c, "fail") /\ UNCHANGED local
      BY <1>0, <1>1, <2>1, <2>3 DEF Answers, Pc, Holding, LeaderPc
    <2> QED
      BY <1>12, <2>2, <2>3 DEF LeadExecute
  <1>13. CASE AfterExecute(c) \/ LeadRevalidate(c)
    <2>1. PICK p \in {"fail", "lrevalidate", "insert"} : Goto(c, p) /\ Answers(c) /\ UNCHANGED local
      BY <1>0, <1>13 DEF AfterExecute, LeadRevalidate, Answers
    <2>2. p \in Pc /\ At(p)
      BY <1>13, <2>1
         DEF Pc, Bound, Routed, Holding, FollowerPc, LeaderPc, AfterExecute, LeadRevalidate
    <2> QED
      BY <1>1, <2>1, <2>2
  <1>14. CASE LeadInsert(c)
    <2>1. Answers(c)
      BY <1>0, <1>14 DEF LeadInsert, Answers
    <2>2. CASE Finish(c)
      BY <2>1, <2>2, FinishKeeps
    <2>3. CASE \E p \in {"fail", "complete"} : Goto(c, p) /\ UNCHANGED local
      BY <1>1, <1>14, <2>1, <2>3
         DEF LeadInsert, Pc, Bound, Routed, Holding, FollowerPc, LeaderPc
    <2> QED
      BY <1>14, <2>2, <2>3 DEF LeadInsert
  <1>15. CASE HeartbeatStep(c)
    <2>1. /\ Threads' /\ Others(c) /\ local'[c].flag = local[c].flag
          /\ local'[c].bnd = local[c].bnd /\ local'[c].held = local[c].held /\ pc'[c] = pc[c]
      <3>1. (~IsLive(c, clock)) \in BOOLEAN /\ local' = [local EXCEPT ![c].hbFailed = ~IsLive(c, clock)]
        BY <1>15 DEF HeartbeatStep, IsLive
      <3>2. UNCHANGED <<pc, ans>>
        BY <1>15 DEF HeartbeatStep
      <3> QED
        BY <1>0, <3>1, <3>2, HeartbeatWrites DEF Threads, Others
    <2> QED
      BY <1>0, <2>1 DEF ThreadStep, CallInv, Bnd
  <1>16. CASE Cancel(c)
    <2>1. local' = [local EXCEPT ![c].flag = "set"] /\ UNCHANGED <<pc, ans>> /\ pc[c] \in Routed
      BY <1>16 DEF Cancel, Routed
    <2>2. /\ Threads' /\ Others(c) /\ local'[c].flag = "set"
          /\ local'[c].bnd = local[c].bnd /\ local'[c].held = local[c].held /\ pc'[c] = pc[c]
      BY <1>0, <2>1, FlagWrites DEF Threads, Others
    <2> QED
      BY <1>0, <2>1, <2>2 DEF ThreadStep, CallInv, Bnd
  <1>17. CASE CancelCloses(c)
    <2>1. /\ local' = [local EXCEPT ![c].flag = "closed"] /\ UNCHANGED <<pc, ans>>
          /\ local[c].flag = "set"
      BY <1>17 DEF CancelCloses
    <2>2. /\ Threads' /\ Others(c) /\ local'[c].flag = "closed"
          /\ local'[c].bnd = local[c].bnd /\ local'[c].held = local[c].held /\ pc'[c] = pc[c]
      BY <1>0, <2>1, FlagWrites DEF Threads, Others
    <2>3. lease'[c].status # "active"
      <3>1. CASE request[c].role = "leader"
        BY <1>17, <3>1, FailLeaseCloses DEF CancelCloses
      <3>2. CASE request[c].role # "leader"
        BY <1>0, <1>17, <3>2 DEF CancelCloses, CloseWait, CancelFollower, CallInv, vars
      <3> QED
        BY <3>1, <3>2
    <2> QED
      BY <1>0, <2>1, <2>2, <2>3 DEF ThreadStep, CallInv, Bnd
  <1> QED
    BY <1>2, <1>3, <1>4, <1>5, <1>6, <1>7, <1>8, <1>9, <1>10, <1>11, <1>12, <1>13, <1>14, <1>15,
       <1>16, <1>17 DEF Step

-----------------------------------------------------------------------------
(* The invariant of the composition.                                       *)

CallStep(c) ==
    Step(c) \/ FollowerTimeout(c) \/ HeartbeatStep(c) \/ Cancel(c) \/ CancelCloses(c)

\* A step of the runtime acquires for one call or is another operation, with
\* the clock of this moment.
LEMMA RuntimeStep ==
    ASSUME RuntimeInv, [RNext]_rvars
    PROVE  \/ \E c \in Call : pc[c] = "acquire" /\ Acquire(c, Bnd(c), WindowOf(c), clock)
           \/ [OtherOperation(clock)]_vars
  <1>1. ASSUME NEW c \in Call, CallStep(c)
        PROVE  \/ pc[c] = "acquire" /\ Acquire(c, Bnd(c), WindowOf(c), clock)
               \/ [OtherOperation(clock)]_vars
    BY <1>1, StepIsOperation DEF CallStep
  <1>2. CASE Write \/ Tick \/ Crash
    BY <1>2 DEF Write, Tick, Crash
  <1>3. CASE FilesDamaged
    BY <1>3 DEF FilesDamaged, OtherOperation
  <1>4. CASE UNCHANGED rvars
    BY <1>4 DEF rvars
  <1> QED
    BY <1>1, <1>2, <1>3, <1>4 DEF RNext, CallStep

\* So every invariant of the coordinator's operations holds here.
LEMMA RuntimeStepIsOperation ==
    ASSUME RuntimeInv, [RNext]_rvars
    PROVE  [Operation]_vars /\ IndInv' /\ EmptyRequests(request)'
  <1>1. clock \in Int
    BY DEF RuntimeInv, World
  <1>2. ASSUME NEW c \in Call, pc[c] = "acquire", Acquire(c, Bnd(c), WindowOf(c), clock)
        PROVE  Operation
    <2>1. Bnd(c) \in Binding /\ WindowOf(c) \in AnyWindow
      BY <1>2, BoundCall DEF Bound
    <2> QED
      BY <1>1, <1>2, <2>1 DEF Operation
  <1>3. [Operation]_vars
    BY <1>1, <1>2, RuntimeStep DEF Operation
  <1>4. IndInv'
    BY <1>3, StepKeepsInv DEF RuntimeInv
  <1>5. EmptyRequests(request)'
    BY <1>3, StepOfRequests DEF RuntimeInv, EmptyRequests, KeptRequest, OpenedRequest
  <1> QED
    BY <1>3, <1>4, <1>5

\* Requests and leases of the calls a step does not acquire for.
LEMMA RuntimeStepOfRows ==
    ASSUME RuntimeInv, [RNext]_rvars, NEW d \in Call
    PROVE  \/ KeptRequest(request[d], request'[d]) /\ LeaseMoves(lease[d], lease'[d])
           \/ pc[d] = "acquire" /\ Acquire(d, Bnd(d), WindowOf(d), clock)
  <1>1. ASSUME NEW c \in Call, c # d, pc[c] = "acquire",
               Acquire(c, Bnd(c), WindowOf(c), clock)
        PROVE  KeptRequest(request[d], request'[d]) /\ LeaseMoves(lease[d], lease'[d])
    <2>1. Bnd(c) \in Binding
      BY <1>1, BoundCall DEF Bound
    <2>2. IndInv
      BY DEF RuntimeInv
    <2>3. KeptRequest(request[d], request'[d])
      BY <1>1, <2>1, <2>2, AcquireWritesRequest DEF KeepsRequests
    <2>4. LeaseMoves(lease[d], lease'[d])
      BY <1>1, <2>1, <2>2, AcquireMovesLeases
    <2> QED
      BY <2>3, <2>4
  <1>2. CASE [OtherOperation(clock)]_vars
    BY <1>2, OthersKeepRequests, OthersMoveLeases DEF RuntimeInv, KeepsRequests
  <1> QED
    BY <1>1, <1>2, RuntimeStep

\* A lease appears with the request of its leader.
LEMMA LeasesHaveLeaders ==
    ASSUME RuntimeInv, [RNext]_rvars, NEW d \in Call
    PROVE  /\ lease'[d].status # "none" => request'[d].role = "leader"
           /\ lease'[d].status = "active" => lease[d].status = "active" \/ request[d].status = "none"
           /\ request[d].status # "none" => request'[d].status # "none"
  <1>1. CallInv(d) /\ EmptyRequests(request) /\ IndInv
    BY DEF RuntimeInv
  <1>2. CASE KeptRequest(request[d], request'[d]) /\ LeaseMoves(lease[d], lease'[d])
    BY <1>1, <1>2 DEF CallInv, KeptRequest, LeaseMoves
  <1>3. CASE pc[d] = "acquire" /\ Acquire(d, Bnd(d), WindowOf(d), clock)
    <2>1. Bnd(d) \in Binding
      BY <1>3, BoundCall DEF Bound
    <2>2. request[d].status = "none" /\ lease[d].status = "none"
      BY <1>1, <1>3 DEF Acquire, IndInv, TablesInv, Links
    <2>3. \/ LeaseMoves(lease[d], lease'[d])
          \/ lease'[d].status = "active" /\ request'[d].role = "leader"
      BY <1>1, <1>3, <2>1, AcquireMovesLeases
    <2> QED
      BY <1>3, <2>2, <2>3 DEF LeaseMoves
  <1> QED
    BY <1>2, <1>3, RuntimeStepOfRows

\* The thread part of the invariant, for the call that moves and the others.
LEMMA ThreadStepKeepsCalls ==
    ASSUME RuntimeInv, [RNext]_rvars, NEW c \in Call, ThreadStep(c), NEW d \in Call
    PROVE  CallInv(d)'
  <1>1. CallInv(d) /\ IndInv
    BY DEF RuntimeInv
  <1>2. /\ lease'[d].status # "none" => request'[d].role = "leader"
        /\ lease'[d].status = "active" => lease[d].status = "active" \/ request[d].status = "none"
        /\ request[d].status # "none" => request'[d].status # "none"
    BY LeasesHaveLeaders
  <1>3. EmptyRequests(request)'
    BY RuntimeStepIsOperation
  <1>4. CASE d = c
    BY <1>1, <1>2, <1>3, <1>4 DEF ThreadStep, CallInv, EmptyRequests
  <1>5. CASE d # c
    <2>1. pc'[d] = pc[d] /\ local'[d] = local[d]
      BY <1>5 DEF ThreadStep, Others
    <2> QED
      BY <1>1, <1>2, <2>1 DEF CallInv, Bnd
  <1> QED
    BY <1>4, <1>5

\* The crash of the daemon ends its threads; the rows stay.
LEMMA CrashWrites ==
    ASSUME Threads, Crash
    PROVE  /\ Threads' /\ UNCHANGED ans
           /\ \A c \in Call : /\ pc'[c] \in {"idle", "done", "dead"} /\ local'[c] = NoLocal
                              /\ pc'[c] = "done" => pc[c] = "done"
  <1>1. NoLocal \in Local /\ "dead" \in Pc
    BY DEF NoLocal, Local, Pc
  <1>2. /\ pc' = [c \in Call |-> IF pc[c] \in {"idle", "done"} THEN pc[c] ELSE "dead"]
        /\ local' = [c \in Call |-> NoLocal] /\ UNCHANGED ans
    BY DEF Crash
  <1> HIDE DEF NoLocal
  <1> QED
    BY <1>1, <1>2 DEF Threads

\* Every step of the runtime keeps its invariant.
LEMMA StepKeepsRuntimeInv == RuntimeInv /\ [RNext]_rvars => RuntimeInv'
  <1> SUFFICES ASSUME RuntimeInv, [RNext]_rvars PROVE RuntimeInv'
    OBVIOUS
  <1>0. World /\ Threads /\ IndInv' /\ EmptyRequests(request)' /\ \A c \in Call : CallInv(c)
    BY RuntimeStepIsOperation DEF RuntimeInv
  <1>1. ASSUME NEW c \in Call, CallStep(c)
        PROVE  World' /\ Threads' /\ \A d \in Call : CallInv(d)'
    <2>1. ThreadStep(c)
      BY <1>1, StepOfThread DEF CallStep
    <2>2. Threads' /\ \A d \in Call : CallInv(d)'
      BY <2>1, ThreadStepKeepsCalls DEF ThreadStep
    <2>3. CASE Record(c) \/ LeadComplete(c)
      <3>1. Bnd(c) \in Binding
        BY <2>3, BoundCall DEF Record, LeadComplete, Bound, Routed, LeaderPc
      <3> QED
        BY <1>0, <2>2, <2>3, <3>1 DEF World, Record, LeadComplete
    <2>4. CASE ~(Record(c) \/ LeadComplete(c))
      <3>1. UNCHANGED <<clock, ws, stamp, recent>>
        BY <1>1, <2>4
           DEF CallStep, Step, Begin, Resolve, AcquireStep, Direct, ProveExact, LoadExact,
               Revalidate, FollowerCancelled, ProveJoin, WaitJoin, RevalidateJoin,
               FollowerGivesUp, StartLeader, StartFailed, LeadExecute, AfterExecute,
               LeadRevalidate, LeadInsert, LeadFail, FollowerTimeout, HeartbeatStep, Cancel,
               CancelCloses, world
      <3> QED
        BY <1>0, <2>2, <3>1 DEF World
    <2> QED
      BY <2>3, <2>4
  <1>2. /\ \A d \in Call : lease'[d].status # "none" => request'[d].role = "leader"
        /\ \A d \in Call : lease'[d].status = "active" =>
                              lease[d].status = "active" \/ request[d].status = "none"
        /\ \A d \in Call : request[d].status # "none" => request'[d].status # "none"
    BY LeasesHaveLeaders
  <1>3. CASE Write
    <2>1. World' /\ Threads' /\ UNCHANGED pc
      BY <1>0, <1>3, WriteWrites DEF World, Threads, Write
    <2>2. \A c \in Call : /\ local'[c].bnd = local[c].bnd /\ local'[c].held = local[c].held
                          /\ local'[c].flag = local[c].flag
      BY <1>0, <1>3, WriteWrites
    <2> QED
      BY <1>0, <1>2, <2>1, <2>2 DEF RuntimeInv, CallInv, Bnd
  <1>4. CASE Tick \/ FilesDamaged \/ UNCHANGED rvars
    <2>1. World' /\ Threads' /\ UNCHANGED <<pc, local>>
      BY <1>0, <1>4 DEF Tick, FilesDamaged, rvars, threads, world, World, Threads
    <2> QED
      BY <1>0, <1>2, <2>1 DEF RuntimeInv, CallInv, Bnd
  <1>5. CASE Crash
    <2>1. World'
      BY <1>0, <1>5 DEF Crash, World
    <2>2. /\ Threads' /\ NoLocal.flag = "no"
          /\ \A c \in Call : pc'[c] \in {"idle", "done", "dead"} /\ local'[c] = NoLocal
      BY <1>0, <1>5, CrashWrites DEF NoLocal
    <2>3. \A p \in {"idle", "done", "dead"} : p \notin Bound /\ p \notin Holding /\ p \notin Routed
      BY DEF Bound, Routed, Holding, FollowerPc, LeaderPc
    <2>4. \A c \in Call : CallInv(c)'
      BY <1>2, <2>2, <2>3 DEF CallInv
    <2> QED
      BY <1>0, <2>1, <2>2, <2>4 DEF RuntimeInv
  <1> QED
    BY <1>0, <1>1, <1>3, <1>4, <1>5 DEF RNext, CallStep, RuntimeInv

\* No call has begun.
LEMMA RInitRuntimeInv == RInit => RuntimeInv
  <1> SUFFICES ASSUME RInit PROVE RuntimeInv
    OBVIOUS
  <1>1. IndInv /\ EmptyRequests(request)
    BY InitIndInv DEF RInit, Init, EmptyRequests, NoRequest
  <1>2. World
    BY RuntimeAssumptions DEF RInit, World
  <1>3. "idle" \in Pc /\ NoLocal \in Local /\ "none" \in Answer /\ NoLocal.flag = "no"
    BY DEF Pc, NoLocal, Local, Answer
  <1>4. /\ pc = [c \in Call |-> "idle"] /\ local = [c \in Call |-> NoLocal]
        /\ ans = [c \in Call |-> "none"]
    BY DEF RInit
  <1>5. Threads
    BY <1>3, <1>4 DEF Threads
  <1>6. \A c \in Call : lease[c].status = "none"
    BY DEF RInit, Init, NoLease
  <1>7. \A c \in Call : CallInv(c)
    BY <1>3, <1>4, <1>6 DEF CallInv, Bound, Routed, Holding, FollowerPc, LeaderPc
  <1> QED
    BY <1>1, <1>2, <1>5, <1>7 DEF RuntimeInv

\* The first layer.
LEMMA RuntimeInvariance == RSpec => []RuntimeInv
  BY RInitRuntimeInv, StepKeepsRuntimeInv, PTL DEF RSpec

\* Whatever the threads, the heartbeats, cancellations and a crash do, the
\* coordinator's tables keep their invariants: the runtime never leads the
\* coordinator into a state its own operations do not reach.
THEOREM RuntimeKeepsCoordinator ==
    RSpec => [](SingleFlight /\ WriteOnce /\ Generations /\ ResultsBound /\ NoOrphanWait /\ Agreement)
  <1>1. RuntimeInv => SingleFlight /\ WriteOnce /\ Generations
    BY DEF RuntimeInv, IndInv, TablesInv, OneLive, SingleFlight, OneRow, WriteOnce,
           NewestGeneration, Generations
  <1>2. RuntimeInv => ResultsBound /\ NoOrphanWait
    BY DEF RuntimeInv, IndInv, TablesInv, RowsBound, ResultsBound, LiveWaits, NoOrphanWait
  <1>3. RuntimeInv => Agreement
    BY DEF RuntimeInv, IndInv, TablesInv, HeldResults, OneRow, Agreement
  <1> QED
    BY <1>1, <1>2, <1>3, RuntimeInvariance, PTL

\* Once cancel() has closed the lease of a leader, no step completes it: not
\* the leader's own thread, wherever it was, and not any other.
THEOREM CancelledLeadersStayOut == RSpec => CancelledNeverPublishes
  <1>1. ASSUME RuntimeInv, [RNext]_rvars, NEW c \in Call,
               local[c].flag = "closed", lease[c].status # "completed"
        PROVE  lease'[c].status # "completed"
    <2>1. request[c].status # "none" /\ lease[c].status # "active"
      BY <1>1 DEF RuntimeInv, CallInv
    <2>2. LeaseMoves(lease[c], lease'[c])
      BY <1>1, <2>1, RuntimeStepOfRows DEF Acquire
    <2> QED
      BY <1>1, <2>1, <2>2 DEF LeaseMoves
  <1>2. RuntimeInv /\ [RNext]_rvars =>
           [\A c \in Call : local[c].flag = "closed" /\ lease[c].status # "completed"
                               => lease'[c].status # "completed"]_rvars
    BY <1>1
  <1> QED
    BY <1>2, RuntimeInvariance, PTL DEF RSpec, CancelledNeverPublishes

-----------------------------------------------------------------------------
(* What the results say of the workspace, when every observation binds the *)
(* timestamps of what it saw.                                              *)

Idle == {"idle", "done", "dead"}
Preloaded == {"resolve", "acquire", "proof", "revalidate"}
Executed == {"after", "lrevalidate"}
Validated == {"insert", "complete"}

\* A source row holds what the tool returns in the state its key names.
SourceTrue == \A b \in Binding : source[b].status # "none" => source[b].content = b[1]

\* A bound call saw its binding: while the stamp is the binding's, so is the
\* content; and what the call holds is the binding's, unless an edit came
\* between the binding and the execution.
CallTrue(c) ==
    /\ pc[c] \in Bound => /\ Bnd(c)[2] <= stamp
                          /\ Bnd(c)[2] = stamp => Bnd(c)[1] = ws
                          /\ Bnd(c)[1] \in local[c].seen
    /\ pc[c] \notin Idle => ws \in local[c].seen
    /\ pc[c] \in Preloaded /\ local[c].held # None =>
          Bnd(c) \in Binding /\ local[c].held = Bnd(c)[1]
    /\ pc[c] \in Executed /\ Bnd(c)[2] = stamp => local[c].held = Bnd(c)[1]
    /\ pc[c] \in Validated => local[c].held = Bnd(c)[1]

TruthInv == SourceTrue /\ CurrentAnswers /\ \A c \in Call : CallTrue(c)

\* A thread goes on without writing its locals.
LEMMA JumpKeepsTruth ==
    ASSUME RuntimeInv, NEW c \in Call, CallTrue(c), NEW p \in Pc, Goto(c, p),
           UNCHANGED <<local, ws, stamp>>,
           p \in Bound => pc[c] \in Bound,
           p \notin Idle => pc[c] \notin Idle,
           p \in Preloaded => pc[c] \in Preloaded,
           p \in Executed => pc[c] \in Executed,
           p \in Validated => local[c].held = Bnd(c)[1]
    PROVE  CallTrue(c)'
  <1>1. pc'[c] = p /\ Bnd(c)' = Bnd(c)
    BY DEF RuntimeInv, Threads, Goto, Bnd
  <1> QED
    BY <1>1 DEF CallTrue

\* A thread that returned claims nothing.
LEMMA FinishKeepsTruth ==
    ASSUME RuntimeInv, NEW c \in Call, Finish(c)
    PROVE  CallTrue(c)'
  <1>1. pc'[c] = "done"
    BY FinishWrites DEF RuntimeInv
  <1> QED
    BY <1>1 DEF CallTrue, Idle, Preloaded, Executed, Validated, Bound, Routed, FollowerPc, LeaderPc

\* The observation made for a binding, when timestamps are bound.
LEMMA DigestIsStamped ==
    ASSUME Stamped = Content, World
    PROVE  Digest = <<ws, stamp>> /\ Digest[1] = ws /\ Digest[2] = stamp
  BY DEF Digest, World

\* Observed again and found unchanged: no edit since the binding.
LEMMA UnchangedIsTrue ==
    ASSUME Stamped = Content, RuntimeInv, NEW c \in Call, Unchanged(c)
    PROVE  Bnd(c)[1] = ws /\ Bnd(c)[2] = stamp
  BY DigestIsStamped DEF Unchanged, RuntimeInv

\* A value loaded from the store is the one its binding names.
LEMMA LoadedIsTrue ==
    ASSUME RuntimeInv, SourceTrue, NEW b \in Binding, Loadable(b)
    PROVE  StoredValue(b) = b[1] /\ StoredValue(b) \in Content
  BY LoadedIsContent DEF RuntimeInv, SourceTrue, StoredValue

\* Only a leader's insert writes a source row or a file that does not fail.
LEMMA OnlyInsertsWriteSource ==
    ASSUME [RNext]_rvars
    PROVE  \/ UNCHANGED <<source, blob>>
           \/ \E c \in Call : pc[c] = "insert" /\ InsertResult(Bnd(c), local[c].held)
           \/ FilesFail /\ UNCHANGED source
  <1>1. ASSUME NEW c \in Call, CallStep(c), ~LeadInsert(c)
        PROVE  UNCHANGED <<source, blob>>
    <2>1. \A b, w : Acquire(c, b, w, clock) \/ Observe(b, w, clock) => UNCHANGED <<source, blob>>
      BY DEF Acquire, Observe
    <2>2. FailLease(c) \/ CloseWait(c) => UNCHANGED <<source, blob>>
      BY DEF FailLease, CloseWait, Fail, ExpireOnTouch, CancelFollower, vars
    <2>3. Start(c, clock) \/ Heartbeat(c, clock) => UNCHANGED <<source, blob>>
      BY DEF Start, Heartbeat, ExpireOnTouch
    <2>4. \A k : Complete(c, k, clock) \/ RecordServed(c, k) => UNCHANGED <<source, blob>>
      BY DEF Complete, ExpireOnTouch, RecordServed
    <2>5. UNCHANGED vars => UNCHANGED <<source, blob>>
      BY DEF vars
    <2>6. CASE \/ AcquireStep(c) \/ ProveExact(c) \/ ProveJoin(c) \/ WaitJoin(c)
      BY <2>1, <2>5, <2>6 DEF AcquireStep, ProveExact, ProveJoin, WaitJoin
    <2>7. CASE \/ FollowerCancelled(c) \/ FollowerGivesUp(c) \/ StartFailed(c) \/ LeadFail(c)
               \/ CancelCloses(c)
      BY <2>2, <2>5, <2>7
         DEF FollowerCancelled, FollowerGivesUp, StartFailed, LeadFail, CancelCloses
    <2>8. CASE StartLeader(c) \/ HeartbeatStep(c)
      BY <2>3, <2>5, <2>8 DEF StartLeader, HeartbeatStep
    <2>9. CASE Record(c) \/ LeadComplete(c)
      BY <2>4, <2>5, <2>9 DEF Record, LeadComplete
    <2>10. CASE \/ Begin(c) \/ Resolve(c) \/ Direct(c) \/ LoadExact(c) \/ Revalidate(c)
                \/ RevalidateJoin(c) \/ LeadExecute(c) \/ AfterExecute(c) \/ LeadRevalidate(c)
                \/ FollowerTimeout(c) \/ Cancel(c)
      BY <2>5, <2>10 DEF Begin, Resolve, Direct, LoadExact, Revalidate, RevalidateJoin,
                         LeadExecute, AfterExecute, LeadRevalidate, FollowerTimeout, Cancel
    <2> QED
      BY <1>1, <2>6, <2>7, <2>8, <2>9, <2>10 DEF CallStep, Step
  <1>2. ASSUME NEW c \in Call, LeadInsert(c)
        PROVE  \/ UNCHANGED <<source, blob>>
               \/ pc[c] = "insert" /\ InsertResult(Bnd(c), local[c].held)
    BY <1>2 DEF LeadInsert, vars
  <1>3. CASE Write \/ Tick \/ Crash \/ FilesDamaged \/ UNCHANGED rvars
    BY <1>3 DEF Write, Tick, Crash, FilesDamaged, DamageBlob, rvars, vars
  <1> QED
    BY <1>1, <1>2, <1>3 DEF RNext, CallStep

\* A leader inserts what its binding names.
LEMMA SourceStaysTrue ==
    ASSUME RuntimeInv, TruthInv, [RNext]_rvars
    PROVE  SourceTrue'
  <1>1. source \in [Request -> SourceRow] /\ Request = Binding
    BY RuntimeAssumptions DEF RuntimeInv, IndInv
  <1>2. ASSUME NEW c \in Call, pc[c] = "insert", InsertResult(Bnd(c), local[c].held)
        PROVE  SourceTrue'
    <2>1. local[c].held = Bnd(c)[1]
      BY <1>2 DEF TruthInv, CallTrue, Validated
    <2>2. \A b \in Binding :
             \/ source[b].status # "none" /\ source'[b].content = source[b].content
             \/ source'[b].status = "none"
             \/ b = Bnd(c) /\ source'[b].content = local[c].held
      BY <1>1, <1>2 DEF InsertResult, SourceRow
    <2> QED
      BY <2>1, <2>2 DEF TruthInv, SourceTrue
  <1>3. CASE UNCHANGED source
    BY <1>3 DEF TruthInv, SourceTrue
  <1> QED
    BY <1>2, <1>3, OnlyInsertsWriteSource

\* What a call returns is not noted as stale.
LEMMA ReturnIsCurrent ==
    ASSUME Threads, NEW c \in Call, ans[c] # "stale",
           \/ UNCHANGED ans
           \/ \E a \in Answer \ {"stale"} : Return(c, a)
           \/ \E a \in Answer \ {"stale"}, v \in local[c].seen : Serve(c, a, v)
    PROVE  ans'[c] # "stale"
  BY DEF Threads, Return, Serve

\* Each step of a call's thread keeps what its locals say of the workspace,
\* and returns nothing the workspace did not hold.
LEMMA StepKeepsTruth ==
    ASSUME Stamped = Content, RuntimeInv, TruthInv, NEW c \in Call, CallStep(c)
    PROVE  CallTrue(c)' /\ ans'[c] # "stale"
  <1> DEFINE At(p) == /\ p \in Bound => pc[c] \in Bound
                      /\ p \notin Idle => pc[c] \notin Idle
                      /\ p \in Preloaded => pc[c] \in Preloaded
                      /\ p \in Executed => pc[c] \in Executed
                      /\ p \in Validated => local[c].held = Bnd(c)[1]
  <1>0. /\ World /\ Threads /\ IndInv /\ CallInv(c) /\ CallTrue(c) /\ SourceTrue
        /\ ans[c] # "stale"
        /\ \A a \in {"direct", "led", "error", "exact", "joined"} : a \in Answer \ {"stale"}
    BY DEF RuntimeInv, TruthInv, CurrentAnswers, Answer
  <1>1. UNCHANGED <<ws, stamp>>
    BY DEF CallStep, Step, Begin, Resolve, AcquireStep, Direct, ProveExact, LoadExact,
           Revalidate, Record, FollowerCancelled, ProveJoin, WaitJoin, RevalidateJoin,
           FollowerGivesUp, StartLeader, StartFailed, LeadExecute, AfterExecute,
           LeadRevalidate, LeadInsert, LeadComplete, LeadFail, FollowerTimeout,
           HeartbeatStep, Cancel, CancelCloses, world
  <1>2. ASSUME NEW p \in Pc, Goto(c, p), UNCHANGED local, At(p) PROVE CallTrue(c)'
    BY <1>0, <1>1, <1>2, JumpKeepsTruth
  <1>3. pc[c] \in Bound => Bnd(c) \in Binding /\ Bnd(c)[1] \in local[c].seen
    BY <1>0 DEF CallInv, CallTrue
  <1>4. CASE Begin(c)
    <2>1. /\ pc'[c] = "resolve" /\ local'[c].seen = {ws}
          /\ \/ local'[c].held = None
             \/ /\ local'[c].bnd \in Binding /\ local'[c].held = StoredValue(local'[c].bnd)
                /\ source[local'[c].bnd].status = "visible"
      BY <1>0, <1>4, BeginWrites
    <2>2. local'[c].held # None => Bnd(c)' \in Binding /\ local'[c].held = Bnd(c)'[1]
      BY <1>0, <2>1 DEF SourceTrue, StoredValue, Bnd
    <2>3. CallTrue(c)'
      BY <1>1, <2>1, <2>2 DEF CallTrue, Idle, Preloaded, Executed, Validated, Bound, Routed,
                              FollowerPc, LeaderPc
    <2> QED
      BY <1>0, <1>4, <2>3 DEF Begin
  <1>5. CASE Resolve(c)
    <2>1. /\ \/ /\ pc'[c] = "acquire" /\ local'[c].bnd = Digest
                /\ local'[c].held = IF local[c].bnd = Digest THEN local[c].held ELSE None
                /\ local'[c].seen = local[c].seen
             \/ pc'[c] = "direct" /\ local'[c] = local[c]
          /\ UNCHANGED ans
      BY <1>0, <1>5, ResolveWrites
    <2>2. Digest \in Binding /\ Digest[1] = ws /\ Digest[2] = stamp /\ stamp <= stamp
      BY <1>0, DigestIsBinding, DigestIsStamped DEF World
    <2>3. /\ pc[c] = "resolve" /\ ws \in local[c].seen
          /\ local[c].held # None => local[c].held = local[c].bnd[1]
      BY <1>0, <1>5 DEF Resolve, CallTrue, Idle, Preloaded, Bnd
    <2>4. CallTrue(c)'
      BY <1>1, <2>1, <2>2, <2>3 DEF CallTrue, Idle, Preloaded, Executed, Validated, Bound, Routed,
                                    FollowerPc, LeaderPc, Bnd
    <2> QED
      BY <1>0, <2>1, <2>4
  <1>6. CASE AcquireStep(c)
    <2>1. PICK p \in {"proof", "fproof", "start", "direct"} : Goto(c, p)
      BY <1>6 DEF AcquireStep, RouteOf
    <2>2. p \in Pc /\ At(p)
      BY <1>6, <2>1 DEF Pc, Bound, Routed, Idle, Preloaded, Executed, Validated, FollowerPc,
                        LeaderPc, AcquireStep
    <2> QED
      BY <1>0, <1>2, <1>6, <2>1, <2>2 DEF AcquireStep
  <1>7. CASE Direct(c) \/ Record(c) \/ LeadComplete(c) \/ LeadFail(c) \/ FollowerCancelled(c)
    BY <1>0, <1>7, FinishKeepsTruth, ReturnIsCurrent
       DEF Direct, Record, LeadComplete, LeadFail, FollowerCancelled
  <1>8. CASE ProveExact(c) \/ Revalidate(c)
    <2>1. PICK p \in {"direct", "load", "record"} : Goto(c, p) /\ UNCHANGED local
      BY <1>8 DEF ProveExact, Revalidate
    <2>2. p \in Pc /\ At(p)
      BY <1>8, <2>1 DEF Pc, Bound, Routed, Idle, Preloaded, Executed, Validated, FollowerPc,
                        LeaderPc, ProveExact, Revalidate
    <2>3. pc[c] \in Bound /\ pc[c] \in Preloaded
      BY <1>8 DEF ProveExact, Revalidate, Bound, Routed, Preloaded
    <2>4. local[c].held # None => local[c].held \in local[c].seen
      BY <1>0, <1>3, <2>3 DEF CallTrue
    <2>5. \/ UNCHANGED ans
          \/ local[c].held # None /\ Serve(c, "exact", local[c].held)
      BY <1>8 DEF ProveExact, Revalidate
    <2> QED
      BY <1>0, <1>2, <2>1, <2>2, <2>4, <2>5, ReturnIsCurrent
  <1>9. CASE LoadExact(c)
    <2>1. pc[c] \in Bound /\ pc[c] \notin Idle
      BY <1>9 DEF LoadExact, Bound, Routed, Idle
    <2> DEFINE v == IF Loadable(Bnd(c)) THEN StoredValue(Bnd(c)) ELSE None
    <2>2. v \in Content \cup {None} /\ (v # None => v = Bnd(c)[1])
      BY <1>0, <1>3, <2>1, LoadedIsTrue DEF RuntimeInv
    <2>3. Hold(c, v) /\ Goto(c, "revalidate") /\ UNCHANGED ans
      BY <1>9 DEF LoadExact
    <2> HIDE DEF v
    <2>4. /\ local'[c].bnd = local[c].bnd /\ local'[c].held = v /\ pc'[c] = "revalidate"
          /\ local'[c].seen = local[c].seen
      BY <1>0, <2>2, <2>3, HoldWrites DEF Threads, Goto
    <2>5. CallTrue(c)'
      BY <1>0, <1>1, <1>3, <2>1, <2>2, <2>4
         DEF CallTrue, Bnd, Executed, Validated, Idle
    <2> QED
      BY <1>0, <2>3, <2>5
  <1>10. CASE ProveJoin(c) \/ WaitJoin(c) \/ FollowerTimeout(c) \/ RevalidateJoin(c)
    <2>1. PICK p \in {"fwait", "fproof", "fcancel", "frevalidate", "record"} :
             Goto(c, p) /\ UNCHANGED local
      BY <1>10 DEF ProveJoin, WaitJoin, FollowerTimeout, RevalidateJoin
    <2>2. p \in Pc /\ At(p) /\ pc[c] \in Bound
      BY <1>10, <2>1 DEF Pc, Bound, Routed, Idle, Preloaded, Executed, Validated, FollowerPc,
                         LeaderPc, ProveJoin, WaitJoin, FollowerTimeout, RevalidateJoin
    <2>3. Loadable(Bnd(c)) => StoredValue(Bnd(c)) \in local[c].seen
      BY <1>0, <1>3, <2>2, LoadedIsTrue
    <2>4. \/ UNCHANGED ans \/ Return(c, "error")
          \/ Loadable(Bnd(c)) /\ Serve(c, "joined", StoredValue(Bnd(c)))
      BY <1>10 DEF ProveJoin, WaitJoin, FollowerTimeout, RevalidateJoin
    <2> QED
      BY <1>0, <1>2, <2>1, <2>2, <2>3, <2>4, ReturnIsCurrent
  <1>11. CASE FollowerGivesUp(c)
    <2>1. CASE Finish(c)
      BY <1>0, <1>11, <2>1, FinishKeepsTruth DEF FollowerGivesUp
    <2>2. CASE Goto(c, "direct") /\ UNCHANGED local
      BY <1>0, <1>2, <1>11, <2>2
         DEF FollowerGivesUp, Pc, Bound, Routed, Idle, Preloaded, Executed, Validated,
             FollowerPc, LeaderPc
    <2> QED
      BY <1>11, <2>1, <2>2 DEF FollowerGivesUp
  <1>12. CASE StartLeader(c) \/ StartFailed(c)
    <2>1. PICK p \in {"exec", "startfail", "direct"} : Goto(c, p) /\ UNCHANGED <<local, ans>>
      BY <1>12 DEF StartLeader, StartFailed
    <2>2. p \in Pc /\ At(p)
      BY <1>12, <2>1 DEF Pc, Bound, Routed, Idle, Preloaded, Executed, Validated, FollowerPc,
                         LeaderPc, StartLeader, StartFailed
    <2> QED
      BY <1>0, <1>2, <2>1, <2>2
  <1>13. CASE LeadExecute(c)
    <2>1. pc[c] \in Bound /\ pc[c] \notin Idle
      BY <1>13 DEF LeadExecute, Bound, Routed, LeaderPc, Idle
    <2>2. CASE Hold(c, ws) /\ Goto(c, "after") /\ UNCHANGED ans
      <3>1. ws \in Content \cup {None}
        BY <1>0 DEF World
      <3>2. /\ local'[c].bnd = local[c].bnd /\ pc'[c] = "after" /\ local'[c].held = ws
            /\ local'[c].seen = local[c].seen
        BY <1>0, <2>2, <3>1, HoldWrites DEF Threads, Goto
      <3>3. CallTrue(c)'
        BY <1>0, <1>1, <2>1, <3>2 DEF CallTrue, Bnd, Preloaded, Executed, Validated, Idle
      <3> QED
        BY <1>0, <2>2, <3>3
    <2>3. CASE Return(c, "error") /\ Goto(c, "fail") /\ UNCHANGED local
      <3>1. "fail" \in Pc /\ At("fail")
        BY <2>1 DEF Pc, LeaderPc, Idle, Preloaded, Executed, Validated
      <3> QED
        BY <1>0, <1>2, <2>3, <3>1, ReturnIsCurrent
    <2> QED
      BY <1>13, <2>2, <2>3 DEF LeadExecute
  <1>14. CASE AfterExecute(c)
    <2>1. PICK p \in {"fail", "lrevalidate"} : Goto(c, p) /\ UNCHANGED local
      BY <1>14 DEF AfterExecute
    <2>2. p \in Pc /\ At(p)
      BY <1>14, <2>1 DEF Pc, Bound, Routed, Idle, Preloaded, Executed, Validated, FollowerPc,
                         LeaderPc, AfterExecute
    <2>3. UNCHANGED ans \/ \E a \in Answer \ {"stale"} : Return(c, a)
      BY <1>0, <1>14 DEF AfterExecute
    <2> QED
      BY <1>0, <1>2, <2>1, <2>2, <2>3, ReturnIsCurrent
  <1>15. CASE LeadRevalidate(c)
    <2>1. PICK p \in {"fail", "insert"} : Goto(c, p) /\ UNCHANGED local /\ (p = "insert" => Unchanged(c))
      BY <1>15 DEF LeadRevalidate
    <2>2. Unchanged(c) => local[c].held = Bnd(c)[1]
      BY <1>0, <1>15, UnchangedIsTrue DEF LeadRevalidate, CallTrue, Executed
    <2>3. p \in Pc /\ At(p)
      BY <1>15, <2>1, <2>2 DEF Pc, Bound, Routed, Idle, Preloaded, Executed, Validated,
                               FollowerPc, LeaderPc, LeadRevalidate
    <2>4. UNCHANGED ans \/ \E a \in Answer \ {"stale"} : Return(c, a)
      BY <1>0, <1>15 DEF LeadRevalidate
    <2> QED
      BY <1>0, <1>2, <2>1, <2>3, <2>4, ReturnIsCurrent
  <1>16. CASE LeadInsert(c)
    <2>1. ans'[c] # "stale"
      BY <1>0, <1>16, ReturnIsCurrent DEF LeadInsert
    <2>2. CASE Finish(c)
      BY <2>1, <2>2, FinishKeepsTruth
    <2>3. CASE \E p \in {"fail", "complete"} : Goto(c, p) /\ UNCHANGED local
      <3>1. PICK p \in {"fail", "complete"} : Goto(c, p) /\ UNCHANGED local
        BY <2>3
      <3>2. p \in Pc /\ At(p)
        BY <1>0, <1>16, <3>1 DEF Pc, Bound, Routed, Idle, Preloaded, Executed, Validated,
                                 FollowerPc, LeaderPc, LeadInsert, CallTrue
      <3> QED
        BY <1>2, <2>1, <3>1, <3>2
    <2> QED
      BY <1>16, <2>2, <2>3 DEF LeadInsert
  <1>17. CASE HeartbeatStep(c) \/ Cancel(c) \/ CancelCloses(c)
    <2>1. UNCHANGED <<pc, ans>>
      BY <1>17 DEF HeartbeatStep, Cancel, CancelCloses
    <2>2. \/ \E h \in BOOLEAN : local' = [local EXCEPT ![c].hbFailed = h]
          \/ \E f \in {"set", "closed"} : local' = [local EXCEPT ![c].flag = f]
      BY <1>17 DEF HeartbeatStep, Cancel, CancelCloses, IsLive
    <2>3. /\ local'[c].bnd = local[c].bnd /\ local'[c].held = local[c].held
          /\ local'[c].seen = local[c].seen
      BY <1>0, <2>2, HeartbeatWrites, FlagWrites
    <2>4. CallTrue(c)'
      BY <1>0, <1>1, <2>1, <2>3 DEF CallTrue, Bnd
    <2> QED
      BY <1>0, <2>1, <2>4
  <1> QED
    BY <1>4, <1>5, <1>6, <1>7, <1>8, <1>9, <1>10, <1>11, <1>12, <1>13, <1>14, <1>15, <1>16, <1>17
       DEF CallStep, Step

\* Every step of the runtime keeps the results and the answers true.
LEMMA TruthInductive ==
    ASSUME Stamped = Content, RuntimeInv, TruthInv, [RNext]_rvars
    PROVE  TruthInv'
  <1>0. World /\ Threads /\ SourceTrue' /\ CurrentAnswers /\ \A d \in Call : CallTrue(d) /\ CallInv(d)
    BY SourceStaysTrue DEF RuntimeInv, TruthInv
  <1>1. ASSUME NEW c \in Call, CallStep(c) PROVE TruthInv'
    <2>1. CallTrue(c)' /\ ans'[c] # "stale" /\ Others(c)
      BY <1>1, StepKeepsTruth, StepOfThread DEF ThreadStep, CallStep
    <2>2. UNCHANGED <<ws, stamp>>
      BY <1>1
         DEF CallStep, Step, Begin, Resolve, AcquireStep, Direct, ProveExact, LoadExact,
             Revalidate, Record, FollowerCancelled, ProveJoin, WaitJoin, RevalidateJoin,
             FollowerGivesUp, StartLeader, StartFailed, LeadExecute, AfterExecute,
             LeadRevalidate, LeadInsert, LeadComplete, LeadFail, FollowerTimeout,
             HeartbeatStep, Cancel, CancelCloses, world
    <2>3. ASSUME NEW d \in Call, d # c PROVE CallTrue(d)' /\ ans'[d] # "stale"
      <3>1. pc'[d] = pc[d] /\ local'[d] = local[d] /\ ans'[d] = ans[d] /\ Bnd(d)' = Bnd(d)
        BY <2>1, <2>3 DEF Others, Bnd
      <3> QED
        BY <1>0, <2>2, <3>1 DEF CallTrue, CurrentAnswers
    <2> QED
      BY <1>0, <2>1, <2>3 DEF TruthInv, CurrentAnswers
  <1>2. CASE Write
    <2>1. /\ stamp' = stamp + 1 /\ stamp \in Nat /\ UNCHANGED <<pc, ans>>
          /\ \A c \in Call :
                /\ local'[c].bnd = local[c].bnd /\ local'[c].held = local[c].held
                /\ local[c].seen \subseteq local'[c].seen
                /\ pc[c] \notin {"idle", "done", "dead"} => ws' \in local'[c].seen
      BY <1>0, <1>2, WriteWrites DEF World
    <2>2. ASSUME NEW c \in Call PROVE CallTrue(c)'
      <3>1. pc[c] \in Bound => Bnd(c)[2] \in Nat /\ Bnd(c)[2] <= stamp
        BY <1>0, RuntimeAssumptions DEF CallInv, CallTrue
      <3>2. Bnd(c)' = Bnd(c) /\ Executed \subseteq Bound
        BY <2>1 DEF Bnd, Executed, Bound, Routed, LeaderPc
      <3>3. pc[c] \in Bound => Bnd(c)[2] <= stamp' /\ Bnd(c)[2] # stamp'
        BY <2>1, <3>1
      <3> QED
        BY <1>0, <2>1, <3>2, <3>3 DEF CallTrue, Idle
    <2> QED
      BY <1>0, <2>1, <2>2 DEF TruthInv, CurrentAnswers
  <1>3. CASE Tick \/ FilesDamaged \/ UNCHANGED rvars
    <2>1. UNCHANGED <<pc, local, ans, ws, stamp>>
      BY <1>3 DEF Tick, FilesDamaged, rvars, threads, world
    <2> QED
      BY <1>0, <2>1 DEF TruthInv, CurrentAnswers, CallTrue, Bnd
  <1>4. CASE Crash
    <2>1. UNCHANGED ans /\ \A c \in Call : pc'[c] \in Idle
      BY <1>0, <1>4, CrashWrites DEF Idle
    <2>2. \A p \in Idle : /\ p \notin Bound /\ p \notin Preloaded /\ p \notin Executed
                          /\ p \notin Validated
      BY DEF Idle, Bound, Routed, FollowerPc, LeaderPc, Preloaded, Executed, Validated
    <2> QED
      BY <1>0, <2>1, <2>2 DEF TruthInv, CurrentAnswers, CallTrue
  <1> QED
    BY <1>1, <1>2, <1>3, <1>4 DEF RNext, CallStep

\* The second layer, from the first.
LEMMA TruthInvariance ==
    ASSUME Stamped = Content
    PROVE  RSpec => []TruthInv
  <1>1. RInit => TruthInv
    <2> SUFFICES ASSUME RInit PROVE TruthInv
      OBVIOUS
    <2>1. /\ \A b \in Binding : source[b].status = "none"
          /\ \A c \in Call : pc[c] = "idle" /\ ans[c] = "none"
      BY RuntimeAssumptions DEF RInit, Init, NoSource
    <2> QED
      BY <2>1 DEF TruthInv, SourceTrue, CurrentAnswers, CallTrue, Idle, Preloaded, Executed,
                  Validated, Bound, Routed, FollowerPc, LeaderPc
  <1>2. RuntimeInv /\ TruthInv /\ [RNext]_rvars => TruthInv'
    BY TruthInductive
  <1> QED
    BY <1>1, <1>2, RuntimeInvariance, PTL DEF RSpec

\* When every observation binds timestamps, a published result is what the tool
\* returns in the state its binding names, for any number of calls and edits.
THEOREM ResultsAreTrue ==
    ASSUME Stamped = Content
    PROVE  RSpec => []TrueResults
  <1>1. RuntimeInv /\ TruthInv => TrueResults
    <2> SUFFICES ASSUME RuntimeInv, TruthInv, NEW b \in Binding,
                        gresult[<<b, b>>].status # "none"
                 PROVE  StoredValue(b) = b[1]
      BY DEF TrueResults
    <2>1. <<b, b>> \in ResultId /\ source[b].status # "none"
      BY RuntimeAssumptions DEF ResultId, RuntimeInv, IndInv, TablesInv, RowsBound
    <2> QED
      BY <2>1 DEF TruthInv, SourceTrue, StoredValue
  <1> QED
    BY <1>1, RuntimeInvariance, TruthInvariance, PTL

\* And a call answered by reuse returns content the workspace had during it.
THEOREM AnswersAreCurrent ==
    ASSUME Stamped = Content
    PROVE  RSpec => []CurrentAnswers
  <1>1. TruthInv => CurrentAnswers
    BY DEF TruthInv
  <1> QED
    BY <1>1, TruthInvariance, PTL

-----------------------------------------------------------------------------
(* Nothing is quarantined without cause, and no lease is left behind.      *)

\* The times of a lease are what the clock said, in the order of its life.
Timely(L, t) ==
    \A l \in Call :
        /\ L[l].started # None => 0 <= L[l].started /\ L[l].started <= t
        /\ L[l].status = "completed" => /\ L[l].completed # None
                                        /\ L[l].started # None => L[l].started <= L[l].completed

\* The content of a source row is in the blob store.
FilesGood ==
    \A b \in Binding : source[b].status # "none" =>
        source[b].content \in Content /\ blob[source[b].content] = "good"

\* The row a leader completes with is there, and a live lease has its leader.
LeaderSound(c) ==
    /\ pc[c] = "complete" => source[Bnd(c)].status # "none"
    /\ lease[c].status = "active" => pc[c] \in Leading

SoundInv ==
    /\ NoFalseQuarantine /\ FilesGood /\ Timely(lease, clock)
    /\ \A c \in Call : LeaderSound(c)

\* Expiry writes no time.
LEMMA ExpiryKeepsTimes ==
    ASSUME NEW L \in [Call -> LeaseRow], NEW b, NEW now, NEW t, Timely(L, t)
    PROVE  Timely(ExpireLeases(L, b, now), t)
  <1> DEFINE X == ExpireLeases(L, b, now)
  <1>1. \A l \in Call :
           /\ X[l].started = L[l].started
           /\ X[l] = L[l] \/ X[l].status = "expired"
    BY ExpireLeasesRows
  <1> HIDE DEF X
  <1>2. Timely(X, t)
    BY <1>1 DEF Timely
  <1> QED
    BY <1>2 DEF X

\* Quarantine writes no time.
LEMMA QuarantineKeepsTimes ==
    ASSUME NEW L \in [Call -> LeaseRow], NEW r, NEW t, Timely(L, t)
    PROVE  Timely(QuarantineLeases(L, r), t)
  <1>1. \A l \in Call :
           QuarantineLeases(L, r)[l] = IF L[l].result = r /\ L[l].status = "completed"
                                       THEN [L[l] EXCEPT !.status = "quarantined"] ELSE L[l]
    BY DEF QuarantineLeases
  <1> QED
    BY <1>1 DEF Timely, LeaseRow

\* Every operation writes the time it read.
LEMMA AcquireKeepsTimes ==
    ASSUME IndInv, NEW c \in Call, NEW b \in Binding, NEW w, NEW now, Acquire(c, b, w, now),
           Timely(lease, now)
    PROVE  Timely(lease', now)
  <1> DEFINE L == ExpireLeases(lease, b, now)
             R == ExpireRequests(request, lease, b, now)
  <1>0. lease \in [Call -> LeaseRow]
    BY DEF IndInv, TablesInv, Types
  <1>1. L \in [Call -> LeaseRow] /\ Timely(L, now)
    BY <1>0, ExpireLeasesRows, ExpiryKeepsTimes
  <1>2. \/ lease' = L
        \/ \E r \in ResultId : lease' = QuarantineLeases(L, r)
        \/ AcquireLeader(c, b, w, now, L, R)
    BY DEF Acquire, AcquireReady, AcquireInvalid, AcquireFollower, RowsOf
  <1> HIDE DEF L, R
  <1>3. CASE AcquireLeader(c, b, w, now, L, R)
    BY <1>1, <1>3 DEF AcquireLeader, Timely
  <1> QED
    BY <1>1, <1>2, <1>3, QuarantineKeepsTimes

\* And so do the operations other than acquire.
LEMMA OthersKeepTimes ==
    ASSUME IndInv, NEW now \in Nat, [OtherOperation(now)]_vars, Timely(lease, now)
    PROVE  Timely(lease', now)
  <1>0. lease \in [Call -> LeaseRow] /\ now # None
    BY CoordinatorAssumptions DEF IndInv, TablesInv, Types
  <1>1. ASSUME NEW b \in Binding, NEW w \in AnyWindow, Observe(b, w, now)
        PROVE  Timely(lease', now)
    <2> DEFINE L == ExpireLeases(lease, b, now)
    <2>1. L \in [Call -> LeaseRow] /\ Timely(L, now)
      BY <1>0, ExpireLeasesRows, ExpiryKeepsTimes
    <2>2. lease' = L \/ \E r \in ResultId : lease' = QuarantineLeases(L, r)
      BY <1>1 DEF Observe, RowsOf
    <2> HIDE DEF L
    <2> QED
      BY <2>1, <2>2, QuarantineKeepsTimes
  <1>2. ASSUME NEW l \in Call, ExpireOnTouch(l, now)
        PROVE  Timely(lease', now)
    BY <1>0, <1>2, ExpiryKeepsTimes DEF ExpireOnTouch
  <1>3. ASSUME NEW l \in Call, Start(l, now) \/ Heartbeat(l, now) \/ Fail(l, now)
        PROVE  Timely(lease', now)
    BY <1>0, <1>2, <1>3 DEF Start, Heartbeat, Fail, IsLive, Timely, LeaseRow
  <1>4. ASSUME NEW l \in Call, NEW k \in Request, Complete(l, k, now)
        PROVE  Timely(lease', now)
    <2>1. CASE Publish(l, k, now)
      BY <1>0, <2>1 DEF Publish, IsLive, Timely, LeaseRow
    <2>2. CASE Diverge(l, k)
      BY <1>0, <2>2 DEF Diverge, Timely, LeaseRow
    <2> QED
      BY <1>2, <1>4, <2>1, <2>2 DEF Complete
  <1>5. CASE UNCHANGED lease
    BY <1>5
  <1> QED
    BY <1>1, <1>3, <1>4, <1>5
       DEF OtherOperation, CancelFollower, RecordServed, InsertResult, QuarantineSource,
           DamageBlob, vars

\* A ready row is servable, whatever leases of any binding have expired.
LEMMA ReadyIsServable ==
    ASSUME RuntimeInv, SoundInv, NEW b, NEW r \in ResultId, gresult[r].status = "ready"
    PROVE  Servable(ExpireLeases(lease, b, clock), gresult, r)
  <1> DEFINE L == ExpireLeases(lease, b, clock)
             l == gresult[r].lease
  <1>0. IndInv /\ lease \in [Call -> LeaseRow] /\ source \in [Request -> SourceRow]
    BY DEF RuntimeInv, IndInv, TablesInv, Types
  <1>1. RowsBound(L, gresult, source) /\ NewestGeneration(L, gresult)
    BY <1>0, ExpiredTables DEF TablesInv
  <1>2. \A m \in Call : /\ m \notin Overdue(lease, b, clock) => L[m] = lease[m]
                        /\ m \in Overdue(lease, b, clock) => L[m].status = "expired"
    BY <1>0, ExpireLeasesRows
  <1> HIDE DEF L
  <1>3. /\ l \in Call /\ r[2] = RequestOf[r[1]] /\ source[r[2]].status # "none"
        /\ L[l].result = r /\ L[l].binding = r[1] /\ L[l].started # None
        /\ L[l].status = "completed" /\ IsCurrentGeneration(L, l)
    BY <1>1 DEF RowsBound, NewestGeneration
  <1>4. L[l] = lease[l] /\ lease[l] \in LeaseRow
    BY <1>0, <1>2, <1>3
  <1>5. /\ L[l].started \in Int /\ L[l].completed \in Int
        /\ 0 <= L[l].started /\ L[l].started <= L[l].completed
    BY <1>3, <1>4 DEF SoundInv, Timely, LeaseRow
  <1>6. r[2] \in Binding /\ r[2] \in Request
    BY RuntimeAssumptions DEF ResultId
  <1>7. source[r[2]].status = "visible" /\ BlobsValid(r[2])
    BY <1>0, <1>3, <1>6 DEF SoundInv, NoFalseQuarantine, FilesGood, BlobsValid, SourceRow
  <1> QED
    BY <1>3, <1>5, <1>7 DEF Servable, L

\* Result rows are written by an acquisition, an observation or the completion
\* of a live lease.
LEMMA OnlyTheseWriteRows ==
    ASSUME [RNext]_rvars
    PROVE  \/ UNCHANGED gresult
           \/ \E c \in Call : /\ pc[c] \in Bound
                              /\ \/ Acquire(c, Bnd(c), WindowOf(c), clock)
                                 \/ Observe(Bnd(c), WindowOf(c), clock)
           \/ \E c \in Call : lease[c].status = "active" /\ Complete(c, Bnd(c), clock)
  <1>0. {"acquire", "proof", "fproof", "fwait"} \subseteq Bound
    BY DEF Bound, Routed, FollowerPc
  <1>1. ASSUME NEW c \in Call, CallStep(c)
        PROVE  \/ UNCHANGED gresult
               \/ /\ pc[c] \in Bound
                  /\ \/ Acquire(c, Bnd(c), WindowOf(c), clock)
                     \/ Observe(Bnd(c), WindowOf(c), clock)
               \/ lease[c].status = "active" /\ Complete(c, Bnd(c), clock)
    <2>1. FailLease(c) \/ CloseWait(c) => UNCHANGED gresult
      BY DEF FailLease, CloseWait, Fail, ExpireOnTouch, CancelFollower, vars
    <2>2. Start(c, clock) \/ Heartbeat(c, clock) => UNCHANGED gresult
      BY DEF Start, Heartbeat, ExpireOnTouch
    <2>3. \A k, v : RecordServed(c, k) \/ InsertResult(k, v) => UNCHANGED gresult
      BY DEF RecordServed, InsertResult
    <2>4. UNCHANGED vars => UNCHANGED gresult
      BY DEF vars
    <2>5. CASE AcquireStep(c) \/ ProveExact(c) \/ ProveJoin(c) \/ WaitJoin(c)
      BY <1>0, <2>4, <2>5 DEF AcquireStep, ProveExact, ProveJoin, WaitJoin
    <2>6. CASE \/ FollowerCancelled(c) \/ FollowerGivesUp(c) \/ StartFailed(c) \/ LeadFail(c)
               \/ CancelCloses(c)
      BY <2>1, <2>4, <2>6
         DEF FollowerCancelled, FollowerGivesUp, StartFailed, LeadFail, CancelCloses
    <2>7. CASE StartLeader(c) \/ HeartbeatStep(c)
      BY <2>2, <2>4, <2>7 DEF StartLeader, HeartbeatStep
    <2>8. CASE Record(c) \/ LeadInsert(c)
      BY <2>3, <2>4, <2>8 DEF Record, LeadInsert
    <2>9. CASE LeadComplete(c)
      BY <2>4, <2>9 DEF LeadComplete
    <2>10. CASE \/ Begin(c) \/ Resolve(c) \/ Direct(c) \/ LoadExact(c) \/ Revalidate(c)
                \/ RevalidateJoin(c) \/ LeadExecute(c) \/ AfterExecute(c) \/ LeadRevalidate(c)
                \/ FollowerTimeout(c) \/ Cancel(c)
      BY <2>4, <2>10 DEF Begin, Resolve, Direct, LoadExact, Revalidate, RevalidateJoin,
                         LeadExecute, AfterExecute, LeadRevalidate, FollowerTimeout, Cancel
    <2> QED
      BY <1>1, <2>5, <2>6, <2>7, <2>8, <2>9, <2>10 DEF CallStep, Step
  <1>2. CASE Write \/ Tick \/ Crash \/ FilesDamaged \/ UNCHANGED rvars
    BY <1>2 DEF Write, Tick, Crash, FilesDamaged, DamageBlob, rvars, vars
  <1> QED
    BY <1>1, <1>2 DEF RNext, CallStep

\* Nothing quarantines a result row: acquisitions and observations find every
\* ready row servable, and a live lease has no result to diverge from.
LEMMA RowsStaySound ==
    ASSUME RuntimeInv, SoundInv, [RNext]_rvars, NEW r \in ResultId
    PROVE  gresult'[r].status # "quarantined"
  <1>0. gresult \in [ResultId -> ResultRow] /\ gresult[r].status # "quarantined"
    BY DEF RuntimeInv, IndInv, TablesInv, Types, SoundInv, NoFalseQuarantine
  <1>1. CASE UNCHANGED gresult
    BY <1>0, <1>1
  <1>2. ASSUME NEW c \in Call, pc[c] \in Bound,
               \/ Acquire(c, Bnd(c), WindowOf(c), clock)
               \/ Observe(Bnd(c), WindowOf(c), clock)
        PROVE  UNCHANGED gresult
    <2> DEFINE b == Bnd(c)
               L == ExpireLeases(lease, b, clock)
               R == ExpireRequests(request, lease, b, clock)
    <2>1. \A q \in RowsOf(gresult, b, "ready") : Servable(L, gresult, q)
      BY ReadyIsServable DEF RowsOf
    <2>2. CASE Acquire(c, b, WindowOf(c), clock)
      <3>1. \/ UNCHANGED gresult
            \/ \E q \in RowsOf(gresult, b, "ready") : AcquireInvalid(q, L, R)
        BY <2>2 DEF Acquire, AcquireReady, AcquireFollower, AcquireLeader
      <3> QED
        BY <2>1, <3>1 DEF AcquireInvalid
    <2>3. CASE Observe(b, WindowOf(c), clock)
      <3>1. \/ UNCHANGED gresult
            \/ \E q \in RowsOf(gresult, b, "ready") : ~Servable(L, gresult, q)
        BY <2>3 DEF Observe
      <3> QED
        BY <2>1, <3>1
    <2> QED
      BY <1>2, <2>2, <2>3
  <1>3. ASSUME NEW c \in Call, lease[c].status = "active", Complete(c, Bnd(c), clock)
        PROVE  gresult'[r].status # "quarantined"
    <2>1. ExpireOnTouch(c, clock) \/ Publish(c, Bnd(c), clock)
      BY <1>3 DEF Complete, Diverge
    <2>2. CASE Publish(c, Bnd(c), clock)
      BY <1>0, <2>2 DEF Publish, ResultRow
    <2> QED
      BY <1>0, <2>1, <2>2 DEF ExpireOnTouch
  <1> QED
    BY <1>1, <1>2, <1>3, OnlyTheseWriteRows

\* What a leader inserts into a row equals what the row has.
LEMMA SourceStaysSound ==
    ASSUME ~FilesFail, RuntimeInv, TruthInv, SoundInv, [RNext]_rvars, NEW b \in Binding
    PROVE  /\ source'[b].status # "quarantined"
           /\ source[b].status # "none" => source'[b].status # "none"
           /\ source'[b].status # "none" =>
                 source'[b].content \in Content /\ blob'[source'[b].content] = "good"
  <1>1. /\ source \in [Request -> SourceRow] /\ Request = Binding /\ source[b].status # "quarantined"
        /\ blob \in [Content -> {"absent", "good", "corrupt"}]
        /\ source[b].status # "none" =>
              /\ source[b].content = b[1] /\ source[b].content \in Content
              /\ blob[source[b].content] = "good"
    BY RuntimeAssumptions
       DEF RuntimeInv, IndInv, SoundInv, NoFalseQuarantine, FilesGood, TruthInv, SourceTrue
  <1>2. ASSUME NEW c \in Call, pc[c] = "insert", InsertResult(Bnd(c), local[c].held)
        PROVE  /\ source'[b].status # "quarantined"
               /\ source[b].status # "none" => source'[b].status # "none"
               /\ source'[b].status # "none" =>
                     source'[b].content \in Content /\ blob'[source'[b].content] = "good"
    <2>1. local[c].held = Bnd(c)[1] /\ local[c].held \in Content /\ Bnd(c) \in Binding
      BY <1>2
         DEF TruthInv, CallTrue, Validated, RuntimeInv, CallInv, Holding, Bound, Routed, LeaderPc
    <2>2. \A v \in Content : blob[v] = "good" \/ v = local[c].held => blob'[v] = "good"
      BY <1>1, <1>2 DEF InsertResult
    <2>3. CASE b # Bnd(c) \/ source[b].status # "none"
      <3>1. source'[b] = source[b]
        BY <1>1, <1>2, <2>1, <2>3 DEF InsertResult
      <3> QED
        BY <1>1, <2>2, <3>1
    <2>4. CASE b = Bnd(c) /\ source[b].status = "none"
      <3>1. source'[b] = [status |-> "visible", content |-> local[c].held]
        BY <1>1, <1>2, <2>4 DEF InsertResult
      <3> QED
        BY <2>1, <2>2, <2>4, <3>1
    <2> QED
      BY <2>3, <2>4
  <1>3. CASE UNCHANGED <<source, blob>>
    BY <1>1, <1>3
  <1> QED
    BY <1>2, <1>3, OnlyInsertsWriteSource

\* The times stay in order: the clock never steps back.
LEMMA TimesStayInOrder ==
    ASSUME RuntimeInv, SoundInv, [RNext]_rvars
    PROVE  Timely(lease, clock)'
  <1>0. /\ IndInv /\ clock \in Nat /\ Timely(lease, clock)
        /\ lease' \in [Call -> LeaseRow]
    BY RuntimeStepIsOperation DEF RuntimeInv, World, SoundInv, IndInv, TablesInv, Types
  <1>1. Timely(lease', clock)
    <2>1. ASSUME NEW c \in Call, pc[c] = "acquire", Acquire(c, Bnd(c), WindowOf(c), clock)
          PROVE  Timely(lease', clock)
      <3>1. Bnd(c) \in Binding
        BY <2>1, BoundCall DEF Bound
      <3> QED
        BY <1>0, <2>1, <3>1, AcquireKeepsTimes
    <2> QED
      BY <1>0, <2>1, RuntimeStep, OthersKeepTimes
  <1>2. clock' \in Nat /\ clock <= clock'
    <2>1. clock' = clock \/ clock' = clock + 1
      BY DEF RNext, Step, Begin, Resolve, AcquireStep, Direct, ProveExact, LoadExact,
             Revalidate, Record, FollowerCancelled, ProveJoin, WaitJoin, RevalidateJoin,
             FollowerGivesUp, StartLeader, StartFailed, LeadExecute, AfterExecute,
             LeadRevalidate, LeadInsert, LeadComplete, LeadFail, FollowerTimeout,
             HeartbeatStep, Cancel, CancelCloses, Write, Tick, Crash, FilesDamaged, world, rvars
    <2> QED
      BY <1>0, <2>1
  <1>3. \A l \in Call : lease'[l].started \in Int \cup {None}
    BY <1>0 DEF LeaseRow
  <1> QED
    BY <1>0, <1>1, <1>2, <1>3 DEF Timely

\* A leader that completes closes its lease: the row it inserted is there, is
\* visible and has its files.
LEMMA CompleteCloses ==
    ASSUME RuntimeInv, SoundInv, NEW c \in Call, LeadComplete(c)
    PROVE  lease'[c].status # "active"
  <1>1. /\ Bnd(c) \in Binding /\ Bnd(c) \in Request /\ clock \in Int
        /\ lease \in [Call -> LeaseRow] /\ source \in [Request -> SourceRow]
    BY BoundCall
       DEF LeadComplete, Bound, Routed, LeaderPc, RuntimeInv, World, IndInv, TablesInv, Types
  <1>2. source[Bnd(c)].status = "visible" /\ BlobsValid(Bnd(c))
    BY <1>1
       DEF LeadComplete, SoundInv, LeaderSound, NoFalseQuarantine, FilesGood, BlobsValid, SourceRow
  <1>3. CASE lease[c].status # "active"
    BY <1>3 DEF LeadComplete, vars
  <1>4. CASE lease[c].status = "active"
    <2>1. ExpireOnTouch(c, clock) \/ Publish(c, Bnd(c), clock)
      BY <1>2, <1>4 DEF LeadComplete, Complete, Diverge
    <2>2. CASE ExpireOnTouch(c, clock)
      <3>1. c \in Overdue(lease, lease[c].binding, clock)
        BY <2>2 DEF ExpireOnTouch, Overdue, LeasesOf
      <3> QED
        BY <1>1, <2>2, <3>1, ExpireLeasesRows DEF ExpireOnTouch
    <2>3. CASE Publish(c, Bnd(c), clock)
      BY <1>1, <2>3 DEF Publish, LeaseRow
    <2> QED
      BY <2>1, <2>2, <2>3
  <1> QED
    BY <1>3, <1>4

\* Inserts succeed, so a leader that inserted goes on to complete.
LEMMA InsertGoesOn ==
    ASSUME ~FilesFail, RuntimeInv, TruthInv, SoundInv, [RNext]_rvars, NEW c \in Call, LeadInsert(c)
    PROVE  \/ pc'[c] = "complete" /\ source'[Bnd(c)].status # "none" /\ UNCHANGED local
           \/ pc'[c] = "fail"
  <1>1. Threads /\ pc[c] = "insert" /\ Bnd(c) \in Binding
    BY BoundCall DEF RuntimeInv, LeadInsert, Bound, Routed, LeaderPc
  <1>2. CASE InsertResult(Bnd(c), local[c].held)
    <2>1. local[c].held = Bnd(c)[1]
      BY <1>1 DEF TruthInv, CallTrue, Validated
    <2>2. source \in [Request -> SourceRow] /\ Request = Binding
      BY RuntimeAssumptions DEF RuntimeInv, IndInv
    <2>3. source[Bnd(c)].status # "none" =>
             source[Bnd(c)] = [status |-> "visible", content |-> Bnd(c)[1]]
      BY <1>1, <2>2 DEF SoundInv, NoFalseQuarantine, TruthInv, SourceTrue, SourceRow
    <2>4. source'[Bnd(c)] = [status |-> "visible", content |-> local[c].held]
      BY <1>1, <1>2, <2>1, <2>2, <2>3 DEF InsertResult
    <2>5. \/ Goto(c, "complete") /\ UNCHANGED local
          \/ Goto(c, "fail")
      BY <2>4 DEF LeadInsert
    <2> QED
      BY <1>1, <2>4, <2>5 DEF Goto, Threads
  <1>3. CASE Goto(c, "fail")
    BY <1>1, <1>3 DEF Goto, Threads
  <1> QED
    BY <1>2, <1>3 DEF LeadInsert

\* A thread that leads goes on leading, or its lease is closed.
LEMMA LeaderGoesOn ==
    ASSUME ~FilesFail, RuntimeInv, TruthInv, SoundInv, [RNext]_rvars, NEW c \in Call, CallStep(c)
    PROVE  LeaderSound(c)'
  <1>0. IndInv /\ Threads /\ LeaderSound(c) /\ clock \in Int
    BY DEF RuntimeInv, SoundInv, World
  <1>1. CASE AcquireStep(c)
    <2>1. Bnd(c) \in Binding
      BY <1>1, BoundCall DEF AcquireStep, Bound
    <2>2. lease[c].status # "active"
      BY <1>0, <1>1 DEF AcquireStep, LeaderSound, Leading, LeaderPc
    <2>3. CASE Acquire(c, Bnd(c), WindowOf(c), clock) /\ Goto(c, RouteOf(request'[c]))
      <3>1. \/ lease'[c].status # "active"
            \/ request'[c].role = "leader"
        BY <1>0, <2>1, <2>2, <2>3, AcquireMovesLeases DEF LeaseMoves
      <3>2. pc'[c] = RouteOf(request'[c])
        BY <1>0, <2>3 DEF Goto, Threads
      <3>3. request'[c].role = "leader" => pc'[c] = "start"
        BY <3>2 DEF RouteOf
      <3>4. pc'[c] # "complete"
        BY <3>2 DEF RouteOf
      <3> QED
        BY <3>1, <3>3, <3>4 DEF LeaderSound, Leading
    <2>4. CASE Goto(c, "direct") /\ UNCHANGED vars
      BY <1>0, <2>2, <2>4 DEF Goto, Threads, vars, LeaderSound
    <2> QED
      BY <1>1, <2>3, <2>4 DEF AcquireStep
  <1>2. ASSUME pc[c] # "acquire" \/ local[c].flag # "no"
        PROVE  lease'[c].status = "active" => lease[c].status = "active" /\ pc[c] \in Leading
    <2>1. ~(pc[c] = "acquire" /\ Acquire(c, Bnd(c), WindowOf(c), clock))
      BY <1>2 DEF Acquire, RuntimeInv, CallInv
    <2>2. LeaseMoves(lease[c], lease'[c])
      BY <1>0, <2>1, StepIsOperation, OthersMoveLeases DEF CallStep
    <2> QED
      BY <1>0, <2>2 DEF LeaseMoves, LeaderSound
  <1>3. ASSUME pc[c] # "acquire", pc'[c] # "complete", pc[c] \in Leading => pc'[c] \in Leading
        PROVE  LeaderSound(c)'
    BY <1>2, <1>3 DEF LeaderSound
  <1>4. ASSUME pc'[c] # "complete", lease'[c].status # "active"
        PROVE  LeaderSound(c)'
    BY <1>4 DEF LeaderSound
  <1>5. ASSUME NEW p, Goto(c, p) PROVE pc'[c] = p
    BY <1>0, <1>5 DEF Goto, Threads
  <1>6. Finish(c) => pc'[c] = "done"
    BY <1>5 DEF Finish
  <1>7. /\ \A p \in {"start", "startfail", "exec", "after", "lrevalidate", "insert", "complete",
                     "fail"} : p \in Leading
        /\ \A p \in {"idle", "resolve", "acquire", "direct", "proof", "load", "revalidate",
                     "record", "fproof", "fwait", "frevalidate", "fcancel"} : p \notin Leading
    BY DEF Leading, LeaderPc
  <1>8. CASE Begin(c) \/ Resolve(c) \/ Direct(c)
    BY <1>3, <1>5, <1>6, <1>7, <1>8 DEF Begin, Resolve, Direct
  <1>9. CASE ProveExact(c) \/ LoadExact(c) \/ Revalidate(c) \/ Record(c)
    BY <1>3, <1>5, <1>6, <1>7, <1>9 DEF ProveExact, LoadExact, Revalidate, Record
  <1>10. CASE FollowerCancelled(c) \/ ProveJoin(c) \/ WaitJoin(c) \/ RevalidateJoin(c)
    BY <1>3, <1>5, <1>6, <1>7, <1>10 DEF FollowerCancelled, ProveJoin, WaitJoin, RevalidateJoin
  <1>11. CASE FollowerGivesUp(c) \/ FollowerTimeout(c)
    BY <1>3, <1>5, <1>6, <1>7, <1>11 DEF FollowerGivesUp, FollowerTimeout
  <1>12. CASE StartLeader(c) \/ LeadExecute(c) \/ AfterExecute(c) \/ LeadRevalidate(c)
    BY <1>3, <1>5, <1>7, <1>12 DEF StartLeader, LeadExecute, AfterExecute, LeadRevalidate
  <1>13. CASE StartFailed(c) \/ LeadFail(c)
    BY <1>4, <1>5, <1>6, <1>13, FailLeaseCloses DEF StartFailed, LeadFail
  <1>14. CASE LeadInsert(c)
    <2>1. pc[c] = "insert" /\ Bnd(c)' = local'[c].bnd
      BY <1>14 DEF LeadInsert, Bnd
    <2>2. CASE pc'[c] = "complete" /\ source'[Bnd(c)].status # "none" /\ UNCHANGED local
      BY <1>2, <1>7, <2>1, <2>2 DEF LeaderSound, Bnd
    <2>3. CASE pc'[c] = "fail"
      BY <1>3, <1>7, <2>1, <2>3
    <2> QED
      BY <1>14, <2>2, <2>3, InsertGoesOn
  <1>15. CASE LeadComplete(c)
    BY <1>4, <1>6, <1>15, CompleteCloses DEF LeadComplete
  <1>16. CASE HeartbeatStep(c) \/ Cancel(c) \/ CancelCloses(c)
    <2>1. UNCHANGED pc
      BY <1>16 DEF HeartbeatStep, Cancel, CancelCloses
    <2>2. pc[c] \in Bound => Bnd(c) \in Binding
      BY BoundCall
    <2>3. local'[c].bnd = local[c].bnd
      <3>1. CASE HeartbeatStep(c)
        BY <1>0, <3>1, HeartbeatWrites DEF HeartbeatStep
      <3>2. CASE Cancel(c) \/ CancelCloses(c)
        BY <1>0, <3>2, FlagWrites DEF Cancel, CancelCloses
      <3> QED
        BY <1>16, <3>1, <3>2
    <2>4. pc[c] = "complete" => source'[Bnd(c)].status # "none"
      BY <1>0, <2>2, SourceStaysSound DEF LeaderSound, Bound, Routed, LeaderPc
    <2>5. pc[c] # "acquire" \/ local[c].flag # "no"
      BY <1>16 DEF HeartbeatStep, Cancel, CancelCloses, LeaderPc, FollowerPc
    <2> QED
      BY <1>2, <2>1, <2>3, <2>4, <2>5 DEF LeaderSound, Bnd
  <1> QED
    BY <1>1, <1>8, <1>9, <1>10, <1>11, <1>12, <1>13, <1>14, <1>15, <1>16 DEF CallStep, Step

\* Every step keeps the files, the times and the leaders sound.
LEMMA SoundInductive ==
    ASSUME ~FilesFail, RuntimeInv, TruthInv, SoundInv, [RNext]_rvars
    PROVE  SoundInv'
  <1>0. IndInv /\ Threads /\ \A d \in Call : LeaderSound(d) /\ CallInv(d)
    BY DEF RuntimeInv, SoundInv
  <1>1. NoFalseQuarantine' /\ FilesGood'
    BY RowsStaySound, SourceStaysSound DEF NoFalseQuarantine, FilesGood
  <1>2. \A b \in Binding : source[b].status # "none" => source'[b].status # "none"
    BY SourceStaysSound
  <1> SUFFICES \A d \in Call : LeaderSound(d)'
    BY <1>1, TimesStayInOrder DEF SoundInv
  <1>3. ASSUME NEW c \in Call, CallStep(c), NEW d \in Call PROVE LeaderSound(d)'
    <2>1. CASE d = c
      BY <1>3, <2>1, LeaderGoesOn
    <2>2. CASE d # c
      <3>1. pc'[d] = pc[d] /\ Bnd(d)' = Bnd(d)
        BY <1>3, <2>2, StepOfThread DEF ThreadStep, Others, CallStep, Bnd
      <3>2. pc[d] = "complete" => Bnd(d) \in Binding
        BY BoundCall DEF Bound, Routed, LeaderPc
      <3>3. LeaseMoves(lease[d], lease'[d])
        <4>1. ASSUME pc[c] = "acquire", Acquire(c, Bnd(c), WindowOf(c), clock)
              PROVE  LeaseMoves(lease[d], lease'[d])
          <5>1. Bnd(c) \in Binding
            BY <4>1, BoundCall DEF Bound
          <5> QED
            BY <1>0, <2>2, <4>1, <5>1, AcquireMovesLeases
        <4> QED
          BY <1>0, <1>3, <4>1, StepIsOperation, OthersMoveLeases DEF CallStep
      <3> QED
        BY <1>0, <1>2, <3>1, <3>2, <3>3 DEF LeaderSound, LeaseMoves
    <2> QED
      BY <2>1, <2>2
  <1>4. ASSUME UNCHANGED lease, NEW d \in Call, pc'[d] = pc[d], Bnd(d)' = Bnd(d)
        PROVE  LeaderSound(d)'
    <2>1. pc[d] = "complete" => Bnd(d) \in Binding
      BY BoundCall DEF Bound, Routed, LeaderPc
    <2> QED
      BY <1>0, <1>2, <1>4, <2>1 DEF LeaderSound
  <1>5. CASE Write
    BY <1>0, <1>4, <1>5, WriteWrites DEF Write, vars, Bnd, RuntimeInv
  <1>6. CASE Tick \/ UNCHANGED rvars \/ FilesDamaged
    <2>1. UNCHANGED <<lease, pc, local>>
      BY <1>6 DEF Tick, rvars, vars, threads, FilesDamaged
    <2> QED
      BY <1>4, <2>1 DEF Bnd
  <1>7. CASE Crash
    <2>1. ASSUME NEW d \in Call PROVE LeaderSound(d)'
      <3>1. UNCHANGED lease /\ pc'[d] = IF pc[d] \in {"idle", "done"} THEN pc[d] ELSE "dead"
        BY <1>7 DEF Crash, vars
      <3> QED
        BY <1>0, <3>1 DEF LeaderSound, Leading, LeaderPc
    <2> QED
      BY <2>1
  <1> QED
    BY <1>3, <1>5, <1>6, <1>7 DEF RNext, CallStep

\* The third layer, with timestamps bound and files that do not fail.
LEMMA SoundInvariance ==
    ASSUME Stamped = Content, ~FilesFail
    PROVE  RSpec => []SoundInv
  <1>1. RInit => SoundInv
    <2> SUFFICES ASSUME RInit PROVE SoundInv
      OBVIOUS
    <2>1. /\ \A k \in Request : source[k] = NoSource
          /\ \A r \in ResultId : gresult[r] = NoResult
          /\ \A c \in Call : pc[c] = "idle" /\ lease[c] = NoLease
      BY DEF RInit, Init
    <2> QED
      BY <2>1, RuntimeAssumptions
         DEF SoundInv, NoFalseQuarantine, FilesGood, Timely, LeaderSound, NoSource, NoResult, NoLease
  <1>2. RuntimeInv /\ TruthInv /\ SoundInv /\ [RNext]_rvars => SoundInv'
    BY SoundInductive
  <1> QED
    BY <1>1, <1>2, RuntimeInvariance, TruthInvariance, PTL DEF RSpec

\* When observations bind timestamps and no file fails, no race, expiry,
\* cancellation or crash makes the gateway quarantine a result or a source row,
\* for any number of calls.
THEOREM NothingFalselyQuarantined ==
    ASSUME Stamped = Content, ~FilesFail
    PROVE  RSpec => []NoFalseQuarantine
  <1>1. SoundInv => NoFalseQuarantine
    BY DEF SoundInv
  <1> QED
    BY <1>1, SoundInvariance, PTL

\* Under the same conditions, a leader that has returned has closed its lease.
THEOREM LeadersCloseLeases ==
    ASSUME Stamped = Content, ~FilesFail
    PROVE  RSpec => []LeaderClosesLease
  <1>1. SoundInv => LeaderClosesLease
    BY DEF SoundInv, LeaderSound, LeaderClosesLease, Leading, LeaderPc
  <1> QED
    BY <1>1, SoundInvariance, PTL
=============================================================================
