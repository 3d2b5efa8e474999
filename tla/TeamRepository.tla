--------------------------- MODULE TeamRepository ---------------------------
(***************************************************************************)
(* The life of one repository identifier in the team service               *)
(* (service/src/index.ts and its D1 triggers): it is created with a random *)
(* generation, written to under leases, tombstoned, erased by the crons    *)
(* and created again.  Rows of D1 are keyed by the identifier alone, so a  *)
(* row that outlives its generation would be taken for one of the next;    *)
(* objects of R2 are keyed by the generation too.                          *)
(*                                                                         *)
(* A batch of D1 statements is one step, and so is an R2 call; everything  *)
(* between them interleaves.  Two passes of the cron may overlap, a pass   *)
(* may outlive its five-minute lease, a writer its fifteen-minute one, and *)
(* a PUT the request that sent it.  Two tables stand for the eleven that   *)
(* the deletion empties one after the other: one that only live            *)
(* generations may write, and the audit table, which the deletion itself   *)
(* writes.                                                                 *)
(***************************************************************************)
EXTENDS Integers, FiniteSets

CONSTANTS
    Writers,          \* write requests, numbered: the order of their R2 keys
    Removers,         \* DELETE requests of the repository
    CronPasses,       \* invocations of the cron that may overlap
    GraveSweepers,    \* graveyard sweeps
    MaxGen,           \* bound: generations created; also the history limit
    MaxPuts,          \* bound: PUTs sent
    MaxFails,         \* bound: R2 calls of a pass that throw
    ChunksPerLease    \* REPOSITORY_DELETE_D1_CHUNKS_PER_LEASE

VARIABLES
    repo,      \* the row of repositories: generation and tombstone
    nextGen,   \* generations drawn so far
    job,       \* the row of repository_deletions
    receipt,   \* receipt[g]: the row of repository_deletion_receipts
    leases,    \* repository_write_leases: writer, generation, expired or not
    rows,      \* rows of D1 that name the identifier, with their generation
    objects,   \* objects[g]: the objects under the prefix of g
    writes,    \* PUTs R2 may still carry out: writer and generation
    late,      \* generations a PUT was carried out for without its lease
    sent, fails,
    worker     \* worker[p]: where request or pass p stands and what it holds

repositoryVars ==
    <<repo, nextGen, job, receipt, leases, rows, objects, writes, late, sent, fails, worker>>

Absent == 0

\* What the service is defined for
RepositoryBounds ==
    /\ Writers \subseteq Nat \ {0}
    /\ MaxGen \in Nat /\ MaxPuts \in Nat /\ MaxFails \in Nat
    /\ ChunksPerLease \in Nat \ {0}
    /\ Absent \notin CronPasses

Gens == 1..MaxGen
Tables == {"blobs", "audit"}
Workers == Writers \cup Removers \cup CronPasses \cup GraveSweepers

NoRepo == [gen |-> Absent, deleted |-> FALSE]

\* due: next_attempt_at has passed; a lease sets it to its own lease_until, so
\* it tells both that the job may be taken and that the lease has run out.
NoJob == [gen |-> Absent, phase |-> "none", conf |-> 0, cursor |-> Absent,
          lease |-> Absent, due |-> FALSE]

NoWork == [pc |-> "idle", gen |-> Absent, phase |-> "none", conf |-> 0,
           cursor |-> Absent, keys |-> {}, left |-> 0]

RepositoryInit ==
    /\ repo = NoRepo /\ nextGen = 0 /\ job = NoJob
    /\ receipt = [g \in Gens |-> "none"]
    /\ leases = {} /\ rows = {}
    /\ objects = [g \in Gens |-> {}]
    /\ writes = {} /\ late = {} /\ sent = 0 /\ fails = 0
    /\ worker = [p \in Workers |-> NoWork]

----------------------------------------------------------------------------

Stands(p, pc) == worker[p].pc = pc
GoesTo(p, pc) == worker' = [worker EXCEPT ![p].pc = pc]
Leaves(p) == worker' = [worker EXCEPT ![p] = NoWork]

\* The predicate of every mutation of a repository's data.
LiveGen(g) == repo.gen = g /\ ~repo.deleted
Tombstoned(g) == repo.gen = g /\ repo.deleted

\* The tables of D1 that hold rows of the identifier, whoever wrote them.
RowsOf(t) == {r \in rows : r.table = t}

----------------------------------------------------------------------------
(* createRepository, deleteRepository.                                     *)

\* INSERT OR IGNORE: only where there is no row, tombstoned or not.
Create ==
    /\ repo = NoRepo
    /\ nextGen < MaxGen
    /\ nextGen' = nextGen + 1
    /\ repo' = [gen |-> nextGen + 1, deleted |-> FALSE]
    /\ UNCHANGED <<job, receipt, leases, rows, objects, writes, late, sent, fails, worker>>

\* A DELETE names its generation; one that is not current is answered from the
\* receipts and changes nothing.
DeleteRequest(d, g) ==
    /\ Stands(d, "idle")
    /\ LiveGen(g)
    /\ worker' = [worker EXCEPT ![d] = [NoWork EXCEPT !.pc = "tombstone", !.gen = g]]
    /\ UNCHANGED <<repo, nextGen, job, receipt, leases, rows, objects, writes, late, sent, fails>>

\* UPDATE repositories, with repositories_lifecycle_after_tombstone.
Tombstone(d) ==
    /\ Stands(d, "tombstone")
    /\ IF LiveGen(worker[d].gen)
         THEN /\ repo' = [repo EXCEPT !.deleted = TRUE]
              /\ job' = [NoJob EXCEPT !.gen = repo.gen, !.phase = "r2", !.due = TRUE]
              /\ receipt' = [receipt EXCEPT ![repo.gen] = "requested"]
              /\ GoesTo(d, "audit")
         ELSE UNCHANGED <<repo, job, receipt>> /\ Leaves(d)
    /\ UNCHANGED <<nextGen, leases, rows, objects, writes, late, sent, fails>>

\* audit_events_repository_lifecycle_before_insert, for the deletion's event.
AuditAdmitted(g) == Tombstoned(g) /\ job.gen = g /\ job.phase # "finalize"

\* The audit of the deletion is a statement of its own, and may fail.
DeleteAudit(d) ==
    /\ Stands(d, "audit")
    /\ rows' \in {rows} \cup
          IF AuditAdmitted(worker[d].gen)
            THEN {rows \cup {[table |-> "audit", gen |-> worker[d].gen, id |-> d]}}
            ELSE {}
    /\ Leaves(d)
    /\ UNCHANGED <<repo, nextGen, job, receipt, leases, objects, writes, late, sent, fails>>

----------------------------------------------------------------------------
(* A write: putBlob, as far as the repository goes.                        *)

\* requireRepository before the body is read.  Bound: w stands for another
\* request only when nothing of the last one is left.
WriteBegin(w) ==
    /\ Stands(w, "idle")
    /\ \A l \in leases : l.writer # w
    /\ \A x \in writes : x.writer # w
    /\ repo.gen # Absent /\ LiveGen(repo.gen)
    /\ worker' = [worker EXCEPT ![w] = [NoWork EXCEPT !.pc = "acquire", !.gen = repo.gen]]
    /\ UNCHANGED <<repo, nextGen, job, receipt, leases, rows, objects, writes, late, sent, fails>>

\* acquireRepositoryWriteLease inserts from the live row of the generation.
Admitted(g) == LiveGen(g)

Acquire(w) ==
    /\ Stands(w, "acquire")
    /\ IF Admitted(worker[w].gen)
         THEN /\ leases' = leases \cup
                   {[writer |-> w, gen |-> worker[w].gen, expired |-> FALSE]}
              /\ GoesTo(w, "row")
         ELSE UNCHANGED leases /\ Leaves(w)
    /\ UNCHANGED <<repo, nextGen, job, receipt, rows, objects, writes, late, sent, fails>>

\* Slip: trusts the repository as it was when the lease was taken.
Writable_Any(w) == TRUE

\* blobs_active_repository_before_insert and the statement's own EXISTS.
Writable(w) == LiveGen(worker[w].gen)

WriteRow(w) ==
    /\ Stands(w, "row")
    /\ rows' = IF Writable(w)
                 THEN rows \cup {[table |-> "blobs", gen |-> worker[w].gen, id |-> w]}
                 ELSE rows
    /\ GoesTo(w, IF Writable(w) THEN "send" ELSE "release")
    /\ UNCHANGED <<repo, nextGen, job, receipt, leases, objects, writes, late, sent, fails>>

\* renewRepositoryWriteLease: the lease has not expired and the generation lives.
Renewable(w) ==
    /\ LiveGen(worker[w].gen)
    /\ \E l \in leases : l.writer = w /\ l.gen = worker[w].gen /\ ~l.expired

Send(w) ==
    /\ Stands(w, "send")
    /\ IF Renewable(w)
         THEN /\ sent < MaxPuts
              /\ sent' = sent + 1
              /\ writes' = writes \cup {[writer |-> w, gen |-> worker[w].gen]}
              /\ GoesTo(w, "put")
         ELSE UNCHANGED <<sent, writes>> /\ GoesTo(w, "release")
    /\ UNCHANGED <<repo, nextGen, job, receipt, leases, rows, objects, late, fails>>

\* R2 carries out a PUT, whoever still waits for it.
WriteLands(x) ==
    /\ x \in writes
    /\ writes' = writes \ {x}
    /\ objects' = [objects EXCEPT ![x.gen] = @ \cup {x.writer}]
    /\ late' = IF \E l \in leases : l.writer = x.writer /\ l.gen = x.gen
                 THEN late ELSE late \cup {x.gen}
    /\ worker' = IF Stands(x.writer, "put") /\ worker[x.writer].gen = x.gen
                 THEN [worker EXCEPT ![x.writer].pc = "release"] ELSE worker
    /\ UNCHANGED <<repo, nextGen, job, receipt, leases, rows, sent, fails>>

\* The await is rejected; R2 may still carry it out.
WriteFails(w) ==
    /\ Stands(w, "put")
    /\ GoesTo(w, "release")
    /\ UNCHANGED <<repo, nextGen, job, receipt, leases, rows, objects, writes, late, sent, fails>>

\* The finally of every write: releaseRepositoryWriteLease, errors logged.
ReleaseLease(w) ==
    /\ Stands(w, "release")
    /\ leases' \in {leases, {l \in leases : ~(l.writer = w /\ l.gen = worker[w].gen)}}
    /\ Leaves(w)
    /\ UNCHANGED <<repo, nextGen, job, receipt, rows, objects, writes, late, sent, fails>>

Write(w) ==
    \/ WriteBegin(w) \/ Acquire(w) \/ WriteRow(w) \/ Send(w) \/ WriteFails(w) \/ ReleaseLease(w)

\* cleanupExpiredWriteLeases, of any generation.
CleanLeases ==
    /\ \E l \in leases : l.expired
    /\ leases' = {l \in leases : ~l.expired}
    /\ UNCHANGED <<repo, nextGen, job, receipt, rows, objects, writes, late, sent, fails, worker>>

----------------------------------------------------------------------------
(* processRepositoryDeletions: one job, leased by compare-and-set.         *)

\* The guard of every statement of a pass on its job.
OwnsJob(p) == job.gen = worker[p].gen /\ job.lease = p
OwnsR2(p) == OwnsJob(p) /\ job.phase = "r2"

\* UPDATE ... RETURNING: the pass works on the row as it is when it is leased.
PassLease(p) ==
    /\ Stands(p, "idle")
    /\ job # NoJob /\ job.due
    /\ job' = [job EXCEPT !.lease = p, !.due = FALSE]
    /\ worker' = [worker EXCEPT ![p] = [NoWork EXCEPT !.gen = job.gen, !.phase = job.phase,
          !.conf = job.conf, !.cursor = job.cursor, !.left = ChunksPerLease,
          !.pc = IF job.phase = "r2" THEN "drain" ELSE "chunk"]]
    /\ UNCHANGED <<repo, nextGen, receipt, leases, rows, objects, writes, late, sent, fails>>

\* releaseRepositoryDeletionLease with a reset of the confirmations.
Restarted == [job EXCEPT !.conf = 0, !.cursor = Absent, !.lease = Absent, !.due = FALSE]

Drained(g) == \A l \in leases : l.gen = g => l.expired

\* Expired write leases go; while one is left the job waits for it to end.
Drain(p) ==
    /\ Stands(p, "drain")
    /\ leases' = {l \in leases : ~(l.gen = worker[p].gen /\ l.expired)}
    /\ IF Drained(worker[p].gen)
         THEN UNCHANGED job /\ GoesTo(p, "list")
         ELSE /\ job' = IF OwnsJob(p) THEN Restarted ELSE job
              /\ Leaves(p)
    /\ UNCHANGED <<repo, nextGen, receipt, rows, objects, writes, late, sent, fails>>

\* env.BLOBS.list: a page of one key, after the cursor.
After(g, c) == {w \in objects[g] : w > c}
First(S) == CHOOSE w \in S : \A x \in S : w <= x

\* An empty page counts only when the listing started at the beginning.
Confirming(p) == worker[p].cursor = Absent

List(p) ==
    /\ Stands(p, "list")
    /\ LET page == After(worker[p].gen, worker[p].cursor) IN
         worker' = [worker EXCEPT
           ![p].keys = IF page = {} THEN {} ELSE {First(page)},
           ![p].cursor = IF Cardinality(page) > 1 THEN First(page) ELSE Absent,
           ![p].pc = CASE page # {} -> "erase"
                       [] page = {} /\ ~Confirming(p) -> "progress"
                       [] OTHER -> "confirm"]
    /\ UNCHANGED <<repo, nextGen, job, receipt, leases, rows, objects, writes, late, sent, fails>>

\* env.BLOBS.delete of the keys listed, under the prefix of the generation.
EraseKeys(p) ==
    /\ Stands(p, "erase")
    /\ objects' = [objects EXCEPT ![worker[p].gen] = @ \ worker[p].keys]
    /\ IF p \in GraveSweepers THEN Leaves(p) ELSE GoesTo(p, "progress")
    /\ UNCHANGED <<repo, nextGen, job, receipt, leases, rows, writes, late, sent, fails>>

\* updateRepositoryDeletionR2Progress.  A lease lost meanwhile is an error, and
\* the deferral that follows finds the lease lost too.
Progress(p) ==
    /\ Stands(p, "progress")
    /\ job' = IF OwnsR2(p)
                 THEN [job EXCEPT !.cursor = worker[p].cursor, !.conf = 0,
                                  !.lease = Absent, !.due = TRUE]
                 ELSE job
    /\ Leaves(p)
    /\ UNCHANGED <<repo, nextGen, receipt, leases, rows, objects, writes, late, sent, fails>>

\* The first empty listing waits a minute for the second; the second one opens
\* the tables.  next_attempt_at of the first is its last_empty_at plus the
\* minute, so a pass never finds the second one early.
Confirm(p) ==
    /\ Stands(p, "confirm")
    /\ job' = CASE OwnsR2(p) /\ worker[p].conf = 0 ->
                     [job EXCEPT !.cursor = Absent, !.conf = 1, !.lease = Absent, !.due = FALSE]
                [] OwnsR2(p) /\ worker[p].conf # 0 ->
                     [job EXCEPT !.cursor = Absent, !.conf = 2, !.lease = Absent, !.due = TRUE,
                                 !.phase = "blobs"]
                [] OTHER -> job
    /\ Leaves(p)
    /\ UNCHANGED <<repo, nextGen, receipt, leases, rows, objects, writes, late, sent, fails>>

\* deferRepositoryDeletion.
Deferred(p) ==
    CASE OwnsR2(p) -> Restarted
      [] OwnsJob(p) /\ job.phase # "r2" -> [job EXCEPT !.lease = Absent, !.due = FALSE]
      [] OTHER -> job

\* R2 or D1 throws.
PassFails(p) ==
    /\ worker[p].pc \in {"list", "erase", "chunk"}
    /\ fails < MaxFails
    /\ fails' = fails + 1
    /\ job' = Deferred(p)
    /\ Leaves(p)
    /\ UNCHANGED <<repo, nextGen, receipt, leases, rows, objects, writes, late, sent>>

----------------------------------------------------------------------------
(* processRepositoryD1Cleanup, finalizeRepositoryDeletion.                 *)

NextPhase(t) == IF t = "blobs" THEN "audit" ELSE "finalize"

\* Lease, phase, lease_until and tombstone, evaluated with the statement.
PassCurrent(p) ==
    /\ OwnsJob(p) /\ ~job.due
    /\ job.phase = worker[p].phase
    /\ Tombstoned(worker[p].gen)

\* Both statements of the batch carry the guard; this is the first one's.
Erasable(p) == PassCurrent(p)

\* One batch: a chunk of one row goes, and the phase advances once the table
\* has none.  After the last chunk of a lease the job is released.
Chunk(p) ==
    /\ Stands(p, "chunk")
    /\ worker[p].phase # "finalize"
    /\ LET t == worker[p].phase
           gone == IF Erasable(p) THEN RowsOf(t) ELSE {}
           over == PassCurrent(p) /\ Cardinality(gone) <= 1
       IN /\ \/ gone = {} /\ UNCHANGED rows
             \/ \E r \in gone : rows' = rows \ {r}
          /\ job' = IF over THEN [job EXCEPT !.phase = NextPhase(t)] ELSE job
          /\ worker' = [worker EXCEPT ![p].left = @ - 1,
                 ![p].phase = IF over THEN NextPhase(t) ELSE t,
                 ![p].pc = IF worker[p].left = 1 THEN "yield" ELSE "chunk"]
    /\ UNCHANGED <<repo, nextGen, receipt, leases, objects, writes, late, sent, fails>>

Yield(p) ==
    /\ Stands(p, "yield")
    /\ job' = IF OwnsJob(p) THEN [job EXCEPT !.lease = Absent, !.due = TRUE] ELSE job
    /\ Leaves(p)
    /\ UNCHANGED <<repo, nextGen, receipt, leases, rows, objects, writes, late, sent, fails>>

\* The WHERE of the last DELETE.
Final(p) ==
    /\ Tombstoned(worker[p].gen)
    /\ OwnsJob(p) /\ job.phase = "finalize"
    /\ \A l \in leases : l.gen # worker[p].gen
    /\ rows = {}

\* The repository's row goes, the job and the leases with it (ON DELETE
\* CASCADE), and the receipt is completed; where nothing changed, deferred.
Finalize(p) ==
    /\ Stands(p, "chunk")
    /\ worker[p].phase = "finalize"
    /\ IF Final(p)
         THEN repo' = NoRepo /\ job' = NoJob /\ leases' = {}
         ELSE /\ UNCHANGED <<repo, leases>>
              /\ job' = IF repo # NoRepo THEN Deferred(p) ELSE job
    /\ receipt' = IF repo' = NoRepo /\ receipt[worker[p].gen] # "none"
                     THEN [receipt EXCEPT ![worker[p].gen] = "completed"] ELSE receipt
    /\ Leaves(p)
    /\ UNCHANGED <<nextGen, rows, objects, writes, late, sent, fails>>

PassWork(p) ==
    \/ Drain(p) \/ List(p) \/ EraseKeys(p) \/ Progress(p) \/ Confirm(p)
    \/ Chunk(p) \/ Yield(p) \/ Finalize(p)

----------------------------------------------------------------------------
(* sweepDeletedRepositoryPrefixes, time and faults.                        *)

Graveyard(g) == receipt[g] = "completed"

SweepGrave(s, g) ==
    /\ Stands(s, "idle")
    /\ Graveyard(g)
    /\ After(g, Absent) # {}
    /\ worker' = [worker EXCEPT ![s] = [NoWork EXCEPT !.pc = "erase", !.gen = g,
                                     !.keys = {First(After(g, Absent))}]]
    /\ UNCHANGED <<repo, nextGen, job, receipt, leases, rows, objects, writes, late, sent, fails>>

\* next_attempt_at of the job passes, and with it any lease on the job.
Elapse ==
    /\ job # NoJob /\ ~job.due
    /\ job' = [job EXCEPT !.due = TRUE]
    /\ UNCHANGED <<repo, nextGen, receipt, leases, rows, objects, writes, late, sent, fails, worker>>

\* Fifteen minutes pass for a write lease.
ExpireLease(l) ==
    /\ l \in leases /\ ~l.expired
    /\ leases' = (leases \ {l}) \cup {[l EXCEPT !.expired = TRUE]}
    /\ UNCHANGED <<repo, nextGen, job, receipt, rows, objects, writes, late, sent, fails, worker>>

\* The Worker running a request or a pass is killed.
KillWorker(p) ==
    /\ ~Stands(p, "idle")
    /\ Leaves(p)
    /\ UNCHANGED <<repo, nextGen, job, receipt, leases, rows, objects, writes, late, sent, fails>>

RepositoryNext ==
    \/ Create
    \/ \E d \in Removers : \/ \E g \in Gens : DeleteRequest(d, g)
                           \/ Tombstone(d) \/ DeleteAudit(d)
    \/ \E w \in Writers : Write(w)
    \/ \E x \in writes : WriteLands(x)
    \/ \E p \in CronPasses : PassLease(p) \/ PassWork(p) \/ PassFails(p)
    \/ \E s \in GraveSweepers : EraseKeys(s) \/ \E g \in Gens : SweepGrave(s, g)
    \/ CleanLeases
    \/ Elapse
    \/ \E l \in leases : ExpireLease(l)
    \/ \E p \in Workers : KillWorker(p)

RepositorySpec == RepositoryInit /\ [][RepositoryNext]_repositoryVars

----------------------------------------------------------------------------

\* Type invariant: the job is there exactly while the repository is tombstoned.
RepositoryTypeOK ==
    /\ repo.gen \in 0..nextGen /\ nextGen \in 0..MaxGen
    /\ job = NoJob \/ /\ Tombstoned(job.gen)
                      /\ job.phase \in {"r2", "finalize"} \cup Tables
                      /\ job.conf \in 0..2 /\ job.lease \in CronPasses \cup {Absent}
    /\ repo.deleted => job # NoJob
    /\ receipt \in [Gens -> {"none", "requested", "completed"}]
    /\ leases \subseteq [writer : Writers, gen : Gens, expired : BOOLEAN]
    /\ objects \in [Gens -> SUBSET Writers]
    /\ worker \in [Workers -> [pc : {"idle", "acquire", "row", "send", "put", "release",
                                 "tombstone", "audit", "drain", "list", "erase",
                                 "progress", "confirm", "chunk", "yield"},
                           gen : 0..MaxGen, phase : {"none", "r2", "finalize"} \cup Tables,
                           conf : 0..2, cursor : Writers \cup {Absent},
                           keys : SUBSET Writers, left : 0..ChunksPerLease]]

\* No row outlives its generation: D1 keys have no generation, so a row a late
\* writer or a late audit left behind would belong to the next one.
RowsAreCurrent == \A r \in rows : r.gen = repo.gen

\* A generation reported deleted has no object left, except one that R2 wrote
\* after the lease of its request was gone: waiting for the leases, the cursor
\* and the confirmations let no leased write slip through.
ErasedWhenCompleted ==
    \A g \in Gens : receipt[g] = "completed" /\ g \notin late => objects[g] = {}

\* Every object, and every PUT still to come, is under a prefix that somebody
\* looks after: the current generation's, or one in the graveyard.
ObjectsAreCovered ==
    \A g \in Gens : objects[g] # {} \/ (\E x \in writes : x.gen = g)
                       => g = repo.gen \/ receipt[g] = "completed"

\* Once the job is in its last phase nothing can appear that its last statement
\* would refuse: no lease, no row, no audit event.
LastPhaseIsClear ==
    job.phase = "finalize" => rows = {} /\ \A l \in leases : l.gen # job.gen

\* What the live generation stored stays, whatever passes of earlier deletions
\* are still running.
LiveIsKept ==
    \A g \in Gens : LiveGen(g) => /\ \A r \in rows : r.gen = g => r \in rows'
                               /\ objects[g] \subseteq objects'[g]

\* Deleting a repository and creating it again under its name mixes nothing
\* up: no row or leased write of the old generation outlives its deletion, no
\* pass of an old deletion touches the new generation, and a deletion that is
\* reported complete has erased every object and can erase what arrives late.
GenerationsAreApart ==
    /\ [](/\ RepositoryTypeOK
          /\ RowsAreCurrent
          /\ ErasedWhenCompleted
          /\ ObjectsAreCovered
          /\ LastPhaseIsClear)
    /\ [][LiveIsKept]_repositoryVars

----------------------------------------------------------------------------
(* The cron starts again and again, from some time on no pass is killed or *)
(* takes longer than its lease of five minutes, and time passes: deletion  *)
(* jobs fall due and write leases expire.  Nothing is assumed of requests. *)

\* A pass ends otherwise than by a step of its own.
PassKilled(p) == KillWorker(p) /\ ~PassWork(p)

RepositoryFair ==
    /\ RepositorySpec
    /\ <>[][\A p \in CronPasses \cup GraveSweepers : ~PassKilled(p)]_repositoryVars
    /\ <>[][Elapse => \A p \in CronPasses : Stands(p, "idle") \/ ~OwnsJob(p)]_repositoryVars
    /\ \A p \in CronPasses : WF_repositoryVars(PassLease(p) \/ PassWork(p))
    /\ \A s \in GraveSweepers :
         WF_repositoryVars(EraseKeys(s)) /\ \A g \in Gens : SF_repositoryVars(SweepGrave(s, g))
    /\ WF_repositoryVars(Elapse)
    /\ WF_repositoryVars(\E l \in leases : ExpireLease(l))

\* A deletion that was accepted ends, whatever died on the way.
DeletionEnds == \A g \in Gens : receipt[g] = "requested" ~> receipt[g] = "completed"

\* What arrives after the deletion ended is erased as well.
GraveyardIsSwept ==
    \A g \in Gens : receipt[g] = "completed" /\ objects[g] # {} ~> objects[g] = {}

\* Deletion gets to its end, and keeps it.
DeletionFinishes == DeletionEnds /\ GraveyardIsSwept
=============================================================================
