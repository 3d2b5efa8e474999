----------------------------- MODULE TeamBlobs -----------------------------
(***************************************************************************)
(* The blob store of the team service (service/src/index.ts): one digest   *)
(* of one live repository generation, kept as a row of the D1 table blobs  *)
(* and an object of the R2 bucket.  The two share no transaction, so every *)
(* handler is a sequence of awaits, and every await is a step here: what a *)
(* handler read before it can be stale after it.                           *)
(*                                                                         *)
(*   - an upload reserves a pending row of a fresh incarnation, registers  *)
(*     its PUT as a durable orphan candidate, sends it, reads it back and  *)
(*     promotes the row (putBlob);                                         *)
(*   - a DELETE and the hourly reconciler erase the object of a deleting   *)
(*     row and then drop the row; the reconciler also promotes pending     *)
(*     rows whose object arrived;                                          *)
(*   - the collector condemns rows no manifest refers to; the sweeper      *)
(*     erases objects of candidates whose row is gone.                     *)
(*                                                                         *)
(* A PUT belongs to R2 once it is sent: it may land after its handler gave *)
(* up or was killed.  A renewal of the write lease fails when the lease    *)
(* ran out or the repository was deleted (module TeamRepository).          *)
(***************************************************************************)
EXTENDS Naturals, FiniteSets

CONSTANTS
    Uploaders, Deleters, Reconcilers, Collectors, Sweepers, Readers,
    Keys,              \* request keys a manifest of this digest is put under
    MaxIncarnations,   \* bound: incarnations the row takes
    MaxOps,            \* bound: PUTs sent
    MaxLoss,           \* bound: objects R2 loses
    CandidateLimit     \* tenants.blob_orphan_repository_limit

VARIABLES
    blobRow,    \* the row of blobs, or NoBlob
    nextInc,    \* incarnations drawn so far
    object,     \* object[i]: the PUT that wrote the object at i's key, or None
    puts,       \* puts[o]: the R2 side of PUT o
    cands,      \* blob_object_orphan_candidates: the operations registered
    queue,      \* the row of blob_gc_candidates
    manifest,   \* manifest[k]: state of the manifest row under k
    proc,       \* proc[p]: where handler p stands and what it holds
    losses

blobVars == <<blobRow, nextInc, object, puts, cands, queue, manifest, proc, losses>>

\* What the service is defined for
BlobBounds ==
    /\ MaxIncarnations \in Nat /\ MaxOps \in Nat /\ MaxLoss \in Nat
    /\ CandidateLimit \in Nat \ {0}

Incs == 1..MaxIncarnations
Ops == 1..MaxOps
None == 0
Passes == Reconcilers \cup Collectors
Procs == Uploaders \cup Deleters \cup Passes \cup Sweepers \cup Readers

\* fresh: updated_at lies within the adoption hour.  due: next_reconcile_at
\* has passed.  grace: delete_not_before has not.  snap: the passes whose
\* compare-and-set columns still match what they selected.
NoBlob == [state |-> "none", inc |-> None, ident |-> None, fresh |-> FALSE,
          due |-> FALSE, grace |-> FALSE, snap |-> {}]

Resting == [pc |-> "idle", inc |-> None, ident |-> None, op |-> None,
         done |-> FALSE]

BlobInit ==
    /\ blobRow = NoBlob
    /\ nextInc = 0
    /\ object = [i \in Incs |-> None]
    /\ puts = [o \in Ops |-> [inc |-> None, sent |-> FALSE, landed |-> FALSE]]
    /\ cands = {}
    /\ queue = [present |-> FALSE, same |-> FALSE]
    /\ manifest = [k \in Keys |-> "none"]
    /\ proc = [p \in Procs |-> Resting]
    /\ losses = 0

----------------------------------------------------------------------------
(* What the statements of the handlers select and change.                  *)

Reached(p, pc) == proc[p].pc = pc
MoveTo(p, pc) == proc' = [proc EXCEPT ![p].pc = pc]
Finish(p) == proc' = [proc EXCEPT ![p] = Resting]

\* The predicate every post-await mutation carries: this row, this incarnation.
Owns(i) == blobRow.state # "none" /\ blobRow.inc = i
Is(i, states) == Owns(i) /\ blobRow.state \in states

\* UPDATE blobs SET state, updated_at, ...: the columns the passes compare change.
Moved(state) ==
    [blobRow EXCEPT !.state = state, !.fresh = TRUE, !.due = TRUE, !.snap = {}]

\* References: expired manifests bind DELETE until they are cleaned up, the
\* collector only looks at live ones.
Bound == \E k \in Keys : manifest[k] \in {"ready", "quarantined", "expired"}
Live == \E k \in Keys : manifest[k] \in {"ready", "quarantined"}

\* manifests_gc_after_logical_delete and manifests_gc_after_physical_delete:
\* queue the digest again.  The refresh keeps an earlier next_check_at, so a
\* pass that selected the entry may or may not see it change.
Requeued == {[present |-> TRUE, same |-> s] : s \in {FALSE, queue.same}}

Requeue == IF blobRow = NoBlob THEN UNCHANGED queue ELSE queue' \in Requeued

----------------------------------------------------------------------------
(* putBlob.                                                                *)

\* requireRepository, acquireRepositoryWriteLease, blobRow().
UploadBegin(u) ==
    /\ Reached(u, "idle")
    /\ blobRow.state \notin {"quarantined", "deleting"}
    /\ proc' = [proc EXCEPT ![u] = [Resting EXCEPT
          !.pc = CASE blobRow.state = "none" -> "reserve"
                   [] blobRow.state = "ready" -> "check"
                   [] blobRow.state = "pending" -> "lease",
          !.inc = blobRow.inc, !.ident = blobRow.ident]]
    /\ UNCHANGED <<blobRow, nextInc, object, puts, cands, queue, manifest, losses>>

\* INSERT INTO blobs, with the collector's entry (blobs_gc_after_insert); a
\* reservation made meanwhile is read again and adopted.
Reserve(u) ==
    /\ Reached(u, "reserve")
    /\ \/ /\ blobRow = NoBlob
          /\ nextInc < MaxIncarnations
          /\ nextInc' = nextInc + 1
          /\ blobRow' = [NoBlob EXCEPT !.state = "pending", !.inc = nextInc + 1,
                                  !.fresh = TRUE]
          /\ queue' = [present |-> TRUE, same |-> FALSE]
          /\ proc' = [proc EXCEPT ![u].pc = "lease", ![u].inc = nextInc + 1]
       \/ /\ blobRow # NoBlob
          /\ MoveTo(u, "adopt")
          /\ UNCHANGED <<blobRow, nextInc, queue>>
    /\ UNCHANGED <<object, puts, cands, manifest, losses>>

Adopt(u) ==
    /\ Reached(u, "adopt")
    /\ IF blobRow.state \in {"pending", "ready"}
         THEN proc' = [proc EXCEPT
                 ![u].pc = IF blobRow.state = "ready" THEN "check" ELSE "lease",
                 ![u].inc = blobRow.inc, ![u].ident = blobRow.ident]
         ELSE Finish(u)
    /\ UNCHANGED <<blobRow, nextInc, object, puts, cands, queue, manifest, losses>>

\* r2ObjectState of a ready row: the object must be the upload the row names.
Check(u) ==
    /\ Reached(u, "check")
    /\ MoveTo(u, CASE object[proc[u].inc] = None -> "repair"
                 [] object[proc[u].inc] = proc[u].ident -> "ack"
                 [] OTHER -> "quarantine")
    /\ UNCHANGED <<blobRow, nextInc, object, puts, cands, queue, manifest, losses>>

\* renewRepositoryWriteLease, requireBlobReadyIncarnation: 204, or an error.
Ack(u) ==
    /\ Reached(u, "ack")
    /\ Finish(u)
    /\ UNCHANGED <<blobRow, nextInc, object, puts, cands, queue, manifest, losses>>

\* quarantineBlob, of an upload or of a read.
QuarantineBlob(p) ==
    /\ Reached(p, "quarantine")
    /\ blobRow' = IF Is(proc[p].inc, {"ready", "pending"})
                THEN Moved("quarantined") ELSE blobRow
    /\ Finish(p)
    /\ UNCHANGED <<nextInc, object, puts, cands, queue, manifest, losses>>

\* UPDATE blobs SET state = 'pending' for a ready row whose object is gone.
Repair(u) ==
    /\ Reached(u, "repair")
    /\ IF Is(proc[u].inc, {"ready"})
         THEN /\ blobRow' = [Moved("pending") EXCEPT !.ident = None, !.due = FALSE]
              /\ MoveTo(u, "lease")
         ELSE UNCHANGED blobRow /\ Finish(u)
    /\ UNCHANGED <<nextInc, object, puts, cands, queue, manifest, losses>>

\* renewRepositoryWriteLease, then the pending row's own lease.
Lease(u) ==
    /\ Reached(u, "lease")
    /\ \/ /\ Is(proc[u].inc, {"pending"})
          /\ blobRow' = [Moved("pending") EXCEPT !.due = FALSE]
          /\ MoveTo(u, "register")
       \/ UNCHANGED blobRow /\ Finish(u)
    /\ UNCHANGED <<nextInc, object, puts, cands, queue, manifest, losses>>

NextOp == CHOOSE o \in Ops : puts[o].inc = None /\ \A x \in Ops : x < o => puts[x].inc # None
OpsLeft == \E o \in Ops : puts[o].inc = None

\* registerBlobObjectOperation, then env.BLOBS.put(..., onlyIf absent).
Register(u) ==
    /\ Reached(u, "register")
    /\ IF Is(proc[u].inc, {"pending"}) /\ Cardinality(cands) < CandidateLimit
         THEN /\ OpsLeft
              /\ puts' = [puts EXCEPT ![NextOp] =
                            [inc |-> proc[u].inc, sent |-> TRUE, landed |-> FALSE]]
              /\ cands' = cands \cup {NextOp}
              /\ proc' = [proc EXCEPT ![u].pc = "put", ![u].op = NextOp]
         ELSE UNCHANGED <<puts, cands>> /\ Finish(u)
    /\ UNCHANGED <<blobRow, nextInc, object, queue, manifest, losses>>

\* R2 carries a PUT out, whoever still waits for it.
PutLands(o) ==
    /\ puts[o].sent /\ ~puts[o].landed
    /\ puts' = [puts EXCEPT ![o].landed = TRUE]
    /\ object' = [object EXCEPT ![puts[o].inc] = IF @ = None THEN o ELSE @]
    /\ proc' = [p \in DOMAIN proc |->
         IF proc[p].op = o /\ proc[p].pc = "put"
           THEN [proc[p] EXCEPT !.pc = "verify",
                                !.done = object[puts[o].inc] = None]
           ELSE proc[p]]
    /\ UNCHANGED <<blobRow, nextInc, cands, queue, manifest, losses>>

\* A PUT sent to R2 by a Worker that died may never arrive.
PutDropped(o) ==
    /\ puts[o].sent /\ ~puts[o].landed
    /\ ~\E p \in Procs : proc[p].op = o /\ proc[p].pc = "put"
    /\ puts' = [puts EXCEPT ![o].sent = FALSE]
    /\ UNCHANGED <<blobRow, nextInc, object, cands, queue, manifest, proc, losses>>

\* The await is rejected; the object may still be written later.
PutFails(u) ==
    /\ Reached(u, "put")
    /\ MoveTo(u, "disown")
    /\ UNCHANGED <<blobRow, nextInc, object, puts, cands, queue, manifest, losses>>

\* verifyR2Object: the bytes are read back; a read that fails is an error.
Verify(u) ==
    /\ Reached(u, "verify")
    /\ \/ /\ object[proc[u].inc] # None
          /\ proc' = [proc EXCEPT ![u].pc = "promote",
                                  ![u].ident = object[proc[u].inc]]
       \/ MoveTo(u, "disown")
    /\ UNCHANGED <<blobRow, nextInc, object, puts, cands, queue, manifest, losses>>

\* The batch of promoteBlobAndCompleteObjectOperation.
Promoted(u) ==
    IF Is(proc[u].inc, {"pending"}) /\ proc[u].op \in cands
      THEN [Moved("ready") EXCEPT !.ident = proc[u].ident]
      ELSE blobRow

Promote(u) ==
    /\ Reached(u, "promote")
    /\ \/ /\ blobRow' = Promoted(u)
          /\ IF blobRow'.state = "ready" /\ blobRow'.inc = proc[u].inc
                /\ blobRow'.ident = proc[u].ident /\ proc[u].op \in cands
               THEN cands' = cands \ {proc[u].op} /\ Finish(u)
               ELSE UNCHANGED cands /\ MoveTo(u, "disown")
       \/ UNCHANGED <<blobRow, cands>> /\ MoveTo(u, "disown")    \* the renewal fails
    /\ UNCHANGED <<nextInc, object, puts, queue, manifest, losses>>

\* After deleteBlobObjectIfUnowned: a PUT known to have stored its object is
\* settled, any other stays registered.
Leave(u) == IF proc[u].done THEN MoveTo(u, "retire") ELSE Finish(u)

\* deleteBlobObjectIfUnowned: the read of the owner, then the R2 delete, whose
\* failure is only logged.
Disown(u) ==
    /\ Reached(u, "disown")
    /\ IF Owns(proc[u].inc) THEN Leave(u) ELSE MoveTo(u, "erase")
    /\ UNCHANGED <<blobRow, nextInc, object, puts, cands, queue, manifest, losses>>

Erase(u) ==
    /\ Reached(u, "erase")
    /\ object' \in {object, [object EXCEPT ![proc[u].inc] = None]}
    /\ Leave(u)
    /\ UNCHANGED <<blobRow, nextInc, puts, cands, queue, manifest, losses>>

\* retireSettledBlobObjectOperation: while any row owns the incarnation.
Retire(u) ==
    /\ Reached(u, "retire")
    /\ cands' = IF Owns(proc[u].inc) THEN cands \ {proc[u].op} ELSE cands
    /\ Finish(u)
    /\ UNCHANGED <<blobRow, nextInc, object, puts, queue, manifest, losses>>

Upload(u) ==
    \/ UploadBegin(u) \/ Reserve(u) \/ Adopt(u) \/ Check(u) \/ Ack(u)
    \/ Repair(u) \/ Lease(u) \/ Register(u) \/ PutFails(u) \/ Verify(u)
    \/ Promote(u) \/ Disown(u) \/ Erase(u) \/ Retire(u)

----------------------------------------------------------------------------
(* deleteBlob, by an administrator.                                        *)

DeleteBegin(d) ==
    /\ Reached(d, "idle")
    /\ blobRow # NoBlob
    /\ proc' = [proc EXCEPT ![d] = [Resting EXCEPT !.inc = blobRow.inc,
          !.pc = CASE blobRow.state = "pending" -> "cancel"
                   [] blobRow.state = "deleting" -> "wipe"
                   [] OTHER -> "condemn"]]
    /\ blobRow.state = "deleting" => ~blobRow.grace
    /\ UNCHANGED <<blobRow, nextInc, object, puts, cands, queue, manifest, losses>>

\* The WHERE of the cancellation: updated_at is an hour old.
Cancellable(d) == Is(proc[d].inc, {"pending"}) /\ ~blobRow.fresh

\* A cancelled reservation keeps its row for the grace hour.
Cancel(d) ==
    /\ Reached(d, "cancel")
    /\ IF Cancellable(d)
         THEN blobRow' = [Moved("deleting") EXCEPT !.grace = TRUE, !.due = FALSE]
              /\ MoveTo(d, "unsend")
         ELSE UNCHANGED blobRow /\ Finish(d)
    /\ UNCHANGED <<nextInc, object, puts, cands, queue, manifest, losses>>

\* env.BLOBS.delete of the cancelled upload; the answer is 202.
Unsend(d) ==
    /\ Reached(d, "unsend")
    /\ object' = [object EXCEPT ![proc[d].inc] = None]
    /\ Finish(d)
    /\ UNCHANGED <<blobRow, nextInc, puts, cands, queue, manifest, losses>>

\* The WHERE of the transition to deleting: no manifest that is not deleted.
Condemnable(d) == Is(proc[d].inc, {"ready", "quarantined"}) /\ ~Bound

Condemn(d) ==
    /\ Reached(d, "condemn")
    /\ IF Condemnable(d)
         THEN blobRow' = Moved("deleting") /\ MoveTo(d, "wipe")
         ELSE UNCHANGED blobRow /\ Finish(d)
    /\ UNCHANGED <<nextInc, object, puts, cands, queue, manifest, losses>>

\* env.BLOBS.delete, then env.BLOBS.head, of a DELETE or of the reconciler.
Wipe(p) ==
    /\ Reached(p, "wipe")
    /\ object' = [object EXCEPT ![proc[p].inc] = None]
    /\ MoveTo(p, "head")
    /\ UNCHANGED <<blobRow, nextInc, puts, cands, queue, manifest, losses>>

Head(p) ==
    /\ Reached(p, "head")
    /\ IF object[proc[p].inc] = None THEN MoveTo(p, "drop")
         ELSE IF p \in Deleters THEN Finish(p) ELSE MoveTo(p, "defer")
    /\ UNCHANGED <<blobRow, nextInc, object, puts, cands, queue, manifest, losses>>

\* DELETE FROM blobs; the entry of blob_gc_candidates goes with the row.  The
\* renewal of the lease before it may fail.
DropRow == blobRow' = NoBlob /\ queue' = [present |-> FALSE, same |-> FALSE]

Drop(d) ==
    /\ Reached(d, "drop")
    /\ Finish(d)
    /\ \/ Is(proc[d].inc, {"deleting"}) /\ DropRow
       \/ UNCHANGED <<blobRow, queue>>
    /\ UNCHANGED <<nextInc, object, puts, cands, manifest, losses>>

Delete(d) ==
    DeleteBegin(d) \/ Cancel(d) \/ Unsend(d) \/ Condemn(d) \/ Wipe(d) \/ Head(d) \/ Drop(d)

----------------------------------------------------------------------------
(* reconcileBlobs.                                                         *)

Unchanged(p) == Owns(proc[p].inc) /\ p \in blobRow.snap

\* Slip: leaves deletions to the request that asked for them.
Due_Pending == blobRow.state = "pending" /\ blobRow.due

\* The rows the pass selects.
Due ==
    /\ blobRow.state \in {"pending", "deleting"} /\ blobRow.due
    /\ blobRow.state = "deleting" => ~blobRow.grace

ReconcileBegin(r) ==
    /\ Reached(r, "idle")
    /\ Due
    /\ blobRow' = [blobRow EXCEPT !.snap = @ \cup {r}]
    /\ proc' = [proc EXCEPT ![r] = [Resting EXCEPT !.inc = blobRow.inc,
          !.pc = IF blobRow.state = "pending" THEN "inspect" ELSE "wipe"]]
    /\ UNCHANGED <<nextInc, object, puts, cands, queue, manifest, losses>>

\* verifyR2ObjectForReconcile.
Inspect(r) ==
    /\ Reached(r, "inspect")
    /\ proc' = [proc EXCEPT
          ![r].pc = IF object[proc[r].inc] = None THEN "defer" ELSE "settle",
          ![r].ident = object[proc[r].inc]]
    /\ UNCHANGED <<blobRow, nextInc, object, puts, cands, queue, manifest, losses>>

\* Slip: promotes the incarnation whatever became of the row since.
Promotable_Any(r) == Owns(proc[r].inc)

\* The WHERE of the promotion: the row is the one selected.
Promotable(r) == Unchanged(r) /\ blobRow.state = "pending"

Settle(r) ==
    /\ Reached(r, "settle")
    /\ blobRow' = IF Promotable(r)
                THEN [Moved("ready") EXCEPT !.ident = proc[r].ident, !.grace = FALSE]
                ELSE blobRow
    /\ Finish(r)
    /\ UNCHANGED <<nextInc, object, puts, cands, queue, manifest, losses>>

\* deferReconciliation.
Defer(r) ==
    /\ Reached(r, "defer")
    /\ blobRow' = IF Unchanged(r)
                THEN [blobRow EXCEPT !.due = FALSE, !.snap = @ \ Reconcilers] ELSE blobRow
    /\ Finish(r)
    /\ UNCHANGED <<nextInc, object, puts, cands, queue, manifest, losses>>

ReconcileDrop(r) ==
    /\ Reached(r, "drop")
    /\ Finish(r)
    /\ IF Unchanged(r) /\ blobRow.state = "deleting" THEN DropRow
         ELSE UNCHANGED <<blobRow, queue>>
    /\ UNCHANGED <<nextInc, object, puts, cands, manifest, losses>>

Reconcile(r) ==
    \/ ReconcileBegin(r) \/ Inspect(r) \/ Settle(r) \/ Defer(r) \/ Wipe(r)
    \/ Head(r) \/ ReconcileDrop(r)

----------------------------------------------------------------------------
(* processBlobGcCandidates and sweepBlobObjectOrphans.                     *)

\* A row touched within the hour is only rescheduled.
CollectBegin(c) ==
    /\ Reached(c, "idle")
    /\ queue.present /\ ~blobRow.fresh
    /\ blobRow' = [blobRow EXCEPT !.snap = @ \cup {c}]
    /\ queue' = [queue EXCEPT !.same = TRUE]
    /\ proc' = [proc EXCEPT ![c] = [Resting EXCEPT !.pc = "collect", !.inc = blobRow.inc]]
    /\ UNCHANGED <<nextInc, object, puts, cands, manifest, losses>>

\* The WHERE of the transition: the row as selected, and no live manifest now.
Collectable(c) == Unchanged(c) /\ blobRow.state # "deleting" /\ ~Live

Collect(c) ==
    /\ Reached(c, "collect")
    /\ blobRow' = IF Collectable(c) THEN Moved("deleting") ELSE blobRow
    /\ MoveTo(c, IF Collectable(c) THEN "dequeue" ELSE "reconsider")
    /\ UNCHANGED <<nextInc, object, puts, cands, queue, manifest, losses>>

\* deleteBlobGcCandidate.
Dequeue(c) ==
    /\ Reached(c, "dequeue")
    /\ queue' = IF queue.same /\ Owns(proc[c].inc)
                  THEN [present |-> FALSE, same |-> FALSE] ELSE queue
    /\ Finish(c)
    /\ UNCHANGED <<blobRow, nextInc, object, puts, cands, manifest, losses>>

\* deleteBlobGcCandidateIfReferencedOrTerminal: the reason is evaluated again.
\* A reservation touched meanwhile is rescheduled instead.
Settled(c) ==
    /\ queue.same /\ Owns(proc[c].inc)
    /\ ~(blobRow.state = "pending" /\ blobRow.fresh)
    /\ blobRow.state = "deleting" \/ Live

Reconsider(c) ==
    /\ Reached(c, "reconsider")
    /\ queue' = IF Settled(c) THEN [present |-> FALSE, same |-> FALSE] ELSE queue
    /\ Finish(c)
    /\ UNCHANGED <<blobRow, nextInc, object, puts, cands, manifest, losses>>

CollectPass(c) == CollectBegin(c) \/ Collect(c) \/ Dequeue(c) \/ Reconsider(c)

\* No row has the incarnation the operation wrote under.
Orphaned(o) == ~Owns(puts[o].inc)

\* The sweeper looks for the owner of a candidate's incarnation ...
SweepBegin(s, o) ==
    /\ Reached(s, "idle")
    /\ o \in cands
    /\ Orphaned(o)
    /\ proc' = [proc EXCEPT ![s] = [Resting EXCEPT !.pc = "sweep", !.inc = puts[o].inc]]
    /\ UNCHANGED <<blobRow, nextInc, object, puts, cands, queue, manifest, losses>>

\* ... and erases the object of one that has none; the candidate stays.
Sweep(s) ==
    /\ Reached(s, "sweep")
    /\ object' = [object EXCEPT ![proc[s].inc] = None]
    /\ Finish(s)
    /\ UNCHANGED <<blobRow, nextInc, puts, cands, queue, manifest, losses>>

----------------------------------------------------------------------------
(* getBlob, and what of the manifests the blobs depend on.                 *)

ReadBegin(g) ==
    /\ Reached(g, "idle")
    /\ blobRow.state = "ready"
    /\ proc' = [proc EXCEPT ![g] = [Resting EXCEPT !.pc = "read", !.inc = blobRow.inc,
                                                !.ident = blobRow.ident]]
    /\ UNCHANGED <<blobRow, nextInc, object, puts, cands, queue, manifest, losses>>

\* verifyR2Object, against the identity the row named; the fence that follows
\* a valid object only decides the answer.
Read(g) ==
    /\ Reached(g, "read")
    /\ IF object[proc[g].inc] = proc[g].ident THEN Finish(g) ELSE MoveTo(g, "quarantine")
    /\ UNCHANGED <<blobRow, nextInc, object, puts, cands, queue, manifest, losses>>

\* manifests_ready_blobs_before_insert.
Admissible == blobRow.state = "ready"

\* putManifest: the insert, with manifests_gc_after_insert.
PutManifest(k) ==
    /\ manifest[k] = "none" /\ Admissible
    /\ manifest' = [manifest EXCEPT ![k] = "ready"]
    /\ queue' = [present |-> FALSE, same |-> FALSE]
    /\ UNCHANGED <<blobRow, nextInc, object, puts, cands, proc, losses>>

\* quarantineManifestConflict: another body was put under the key.
ConflictManifest(k) ==
    /\ manifest[k] = "ready"
    /\ manifest' = [manifest EXCEPT ![k] = "quarantined"]
    /\ UNCHANGED <<blobRow, nextInc, object, puts, cands, queue, proc, losses>>

\* deleteManifest, with manifests_gc_after_logical_delete.
DropManifest(k) ==
    /\ manifest[k] \in {"ready", "quarantined", "expired"}
    /\ manifest' = [manifest EXCEPT ![k] = "deleted"]
    /\ Requeue
    /\ UNCHANGED <<blobRow, nextInc, object, puts, cands, proc, losses>>

ExpireManifest(k) ==
    /\ manifest[k] \in {"ready", "quarantined"}
    /\ manifest' = [manifest EXCEPT ![k] = "expired"]
    /\ UNCHANGED <<blobRow, nextInc, object, puts, cands, queue, proc, losses>>

\* cleanupManifests, with manifests_gc_after_physical_delete.
CleanManifest(k) ==
    /\ manifest[k] \in {"expired", "deleted"}
    /\ manifest' = [manifest EXCEPT ![k] = "none"]
    /\ Requeue
    /\ UNCHANGED <<blobRow, nextInc, object, puts, cands, proc, losses>>

----------------------------------------------------------------------------
(* Time and faults.                                                        *)

\* A minute passes: the row is due for reconciliation.
Minute ==
    /\ blobRow # NoBlob /\ ~blobRow.due /\ ~blobRow.grace
    /\ blobRow' = [blobRow EXCEPT !.due = TRUE]
    /\ UNCHANGED <<nextInc, object, puts, cands, queue, manifest, proc, losses>>

\* An hour passes: the adoption window and the deletion grace end.  A cron
\* pass is over within its quarter of an hour.
Hour ==
    /\ blobRow # NoBlob /\ (blobRow.fresh \/ blobRow.grace)
    /\ \A p \in Passes : Reached(p, "idle")
    /\ blobRow' = [blobRow EXCEPT !.fresh = FALSE, !.grace = FALSE, !.due = TRUE]
    /\ UNCHANGED <<nextInc, object, puts, cands, queue, manifest, proc, losses>>

\* The Worker running a handler is killed.
Crash(p) ==
    /\ ~Reached(p, "idle")
    /\ Finish(p)
    /\ UNCHANGED <<blobRow, nextInc, object, puts, cands, queue, manifest, losses>>

\* R2 loses an object, the case Repair is for.
Lose(i) ==
    /\ losses < MaxLoss /\ object[i] # None
    /\ losses' = losses + 1
    /\ object' = [object EXCEPT ![i] = None]
    /\ UNCHANGED <<blobRow, nextInc, puts, cands, queue, manifest, proc>>

BlobNext ==
    \/ \E u \in Uploaders : Upload(u)
    \/ \E d \in Deleters : Delete(d)
    \/ \E r \in Reconcilers : Reconcile(r)
    \/ \E c \in Collectors : CollectPass(c)
    \/ \E s \in Sweepers : Sweep(s) \/ \E o \in Ops : SweepBegin(s, o)
    \/ \E g \in Readers : ReadBegin(g) \/ Read(g)
    \/ \E p \in Uploaders \cup Readers : QuarantineBlob(p)
    \/ \E k \in Keys : \/ PutManifest(k) \/ ConflictManifest(k) \/ DropManifest(k)
                       \/ ExpireManifest(k) \/ CleanManifest(k)
    \/ \E o \in Ops : PutLands(o) \/ PutDropped(o)
    \/ \E p \in Procs : Crash(p)
    \/ \E i \in Incs : Lose(i)
    \/ Minute \/ Hour

BlobSpec == BlobInit /\ [][BlobNext]_blobVars

----------------------------------------------------------------------------

\* Type invariant of the service's blob state.
BlobTypeOK ==
    /\ blobRow.state \in {"none", "pending", "ready", "quarantined", "deleting"}
    /\ blobRow.inc \in 0..nextInc /\ blobRow.ident \in 0..MaxOps
    /\ blobRow.snap \subseteq Passes
    /\ nextInc \in 0..MaxIncarnations
    /\ object \in [Incs -> 0..MaxOps]
    /\ cands \subseteq Ops
    /\ queue \in [present : BOOLEAN, same : BOOLEAN]
    /\ manifest \in [Keys -> {"none", "ready", "quarantined", "expired", "deleted"}]
    /\ losses \in 0..MaxLoss

\* A ready row's object is in the bucket and is the very upload the row names:
\* no DELETE, reconciler, sweeper, cancelled or late PUT of any incarnation
\* ever takes it away or replaces it.  (R2 itself losing objects apart.)
ReadyIsStored ==
    losses = 0 /\ blobRow.state = "ready"
      => blobRow.ident # None /\ object[blobRow.inc] = blobRow.ident

\* A manifest clients may be served from refers to a ready row whose bytes are
\* stored, however its admission races deletion and collection of the blob.
ManifestIsBacked ==
    losses = 0 /\ (\E k \in Keys : manifest[k] = "ready") => blobRow.state = "ready"

\* A PUT that can still be carried out has its durable candidate: whatever the
\* handler went through, the sweeper will know the key it may write.
LateWritesAreTracked ==
    \A o \in Ops : puts[o].sent /\ ~puts[o].landed => o \in cands

\* What nothing refers to is not forgotten: a row that is not on its way out
\* and that no manifest row binds has its collector's entry.
UnreferencedIsQueued ==
    blobRow.state \in {"pending", "ready", "quarantined"}
      /\ (\A k \in Keys : manifest[k] \in {"none", "deleted"}) => queue.present

\* A condemned row is out of service for good: no upload that adopted it, no
\* repair and no reconciler that read it earlier brings its incarnation back.
CondemnedStays ==
    \A i \in Incs :
        /\ Is(i, {"deleting"}) => Is(i, {"deleting"})' \/ ~Owns(i)'
        /\ Is(i, {"quarantined"}) => Is(i, {"quarantined", "deleting"})' \/ ~Owns(i)'

\* A blob that is served is stored, whatever uploads, DELETEs, reconciler,
\* collector, sweeper and PUTs carried out late do in whatever order and
\* wherever they die; a PUT that may still be carried out is tracked, an
\* unreferenced row is queued, and a condemned row never serves again.
BlobsAreSafe ==
    /\ [](/\ BlobTypeOK
          /\ ReadyIsStored
          /\ ManifestIsBacked
          /\ LateWritesAreTracked
          /\ UnreferencedIsQueued)
    /\ [][CondemnedStays]_blobVars

----------------------------------------------------------------------------
(* What the crons bring about.  They are started again and again, and from *)
(* some time on none of their passes is killed halfway.  R2 settles every  *)
(* PUT, and time passes.  Nothing is assumed of uploads and DELETEs: they  *)
(* may hang or die.                                                        *)

\* A pass ends otherwise than by a step of its own.
Killed(p) ==
    /\ Crash(p)
    /\ ~(p \in Reconcilers /\ Reconcile(p))
    /\ ~(p \in Collectors /\ CollectPass(p))
    /\ ~(p \in Sweepers /\ Sweep(p))

BlobFair ==
    /\ BlobSpec
    /\ <>[][\A p \in Passes \cup Sweepers : ~Killed(p)]_blobVars
    /\ \A r \in Reconcilers : WF_blobVars(Reconcile(r))
    /\ \A c \in Collectors : WF_blobVars(CollectPass(c))
    /\ \A s \in Sweepers :
         WF_blobVars(Sweep(s)) /\ \A o \in Ops : SF_blobVars(SweepBegin(s, o))
    /\ \A o \in Ops : WF_blobVars(PutLands(o) \/ PutDropped(o))
    /\ WF_blobVars(Minute) /\ SF_blobVars(Hour)

\* An object whose row is gone is erased as long as a candidate names it.
OrphansAreSwept ==
    \A i \in Incs : (object[i] # None /\ ~Owns(i) /\ \E o \in cands : puts[o].inc = i)
                        ~> object[i] = None

\* Every row on its way out leaves, whichever handler died over it.
DeletionsEnd ==
    \A i \in Incs : Is(i, {"deleting"}) ~> ~Owns(i)

\* No reservation is left behind once nobody uploads: an upload that died is
\* finished by the reconciler when its object arrived, and collected when it
\* never did.
ReservationsSettle ==
    \A i \in Incs : Is(i, {"pending"})
                      ~> (~Is(i, {"pending"}) \/ \E u \in Uploaders : ~Reached(u, "idle"))

\* The crons leave nothing undone.
CronsFinish == OrphansAreSwept /\ DeletionsEnd /\ ReservationsSettle
=============================================================================
