---------------------------- MODULE ResultStore ----------------------------
(***************************************************************************)
(* The result store of store.rs: `results' rows, the blob files they name  *)
(* and the artifacts inventory, written by processes that share one        *)
(* database and read by the hit path of engine.rs.                         *)
(*                                                                         *)
(* insert_result is a preflight, one transaction per blob and one for the  *)
(* row; between them another process may insert, quarantine or clean up,   *)
(* and its own process may be suspended or die.  SQLite undoes the         *)
(* statements of a transaction that does not commit, not what it did to    *)
(* files.  The wall clock does not step back here.                         *)
(***************************************************************************)
EXTENDS Integers, FiniteSets

CONSTANTS
    Proc,       \* processes with the store open
    Key,        \* request keys
    Blob,       \* blob digests
    Output,     \* what a command can return: <<stdout digest, stderr digest>>
    TTL,        \* ORPHAN_ARTIFACT_TTL_MS
    Capacity,   \* MAX_WORKSPACE_STATE_LOGICAL_BYTES_V1, in results
    Patience,   \* how long a process can be suspended inside insert_result
    MaxClock,   \* bound on the wall clock
    MaxDamaged, \* bound on the blobs the file system damages
    None

ASSUME StoreAssumptions ==
    /\ Output \subseteq Blob \X Blob
    /\ TTL \in Nat /\ Capacity \in Nat /\ Patience \in Nat /\ MaxClock \in Nat
    /\ MaxDamaged \in Nat
    /\ Patience < TTL
    /\ IsFiniteSet(Key)
    /\ None \notin Key \cup Output \cup Nat

VARIABLES
    row,       \* results, by request key
    artifact,  \* artifacts: created_ms of a digest, or None
    file,      \* the blob files: state and mtime
    clock,     \* the wall clock
    pc,        \* where a process is in insert_result or in a hit
    job,       \* the key and output it works on, and when it began its puts
    acked,     \* pairs insert_result returned Ok for (ghost)
    disputed,  \* keys insert_result reported a mismatch for (ghost)
    damaged    \* blobs the file system damaged (ghost)

svars == <<row, artifact, file, clock, pc, job, acked, disputed, damaged>>
tables == <<row, artifact, file, damaged>>

NoRow == [status |-> "none", out |-> None]
NoFile == [state |-> "absent", mtime |-> 0]
NoJob == [key |-> None, out |-> None, since |-> 0]
Midway == {"stdout", "stderr", "row"}

\* The tables, the files and the processes keep their types.
StoreTypeOK ==
    /\ row \in [Key -> [status : {"none", "visible", "quarantined"}, out : Output \cup {None}]]
    /\ artifact \in [Blob -> 0..MaxClock \cup {None}]
    /\ file \in [Blob -> [state : {"absent", "good", "corrupt"}, mtime : 0..MaxClock]]
    /\ clock \in 0..MaxClock
    /\ pc \in [Proc -> {"idle", "load"} \cup Midway]
    /\ job \in [Proc -> [key : Key \cup {None}, out : Output \cup {None}, since : 0..MaxClock]]
    /\ acked \subseteq Key \X Output
    /\ disputed \subseteq Key
    /\ damaged \subseteq Blob

StoreInit ==
    /\ row = [k \in Key |-> NoRow]
    /\ artifact = [b \in Blob |-> None]
    /\ file = [b \in Blob |-> NoFile]
    /\ clock = 0
    /\ pc = [p \in Proc |-> "idle"]
    /\ job = [p \in Proc |-> NoJob]
    /\ acked = {} /\ disputed = {} /\ damaged = {}

-----------------------------------------------------------------------------
Rows == {k \in Key : row[k].status # "none"}
BlobsOf(out) == {out[1], out[2]}
Referenced == {b \in Blob : \E k \in Rows : b \in BlobsOf(row[k].out)}

\* enforce_workspace_result_capacity_v1
Fits == Cardinality(Rows) < Capacity

At(p, at) == pc[p] = at
Become(p, at) == pc' = [pc EXCEPT ![p] = at]
Leave(p) == Become(p, "idle") /\ job' = [job EXCEPT ![p] = NoJob]

\* insert_result, the preflight: a full store refuses before it writes a blob
Preflight(p, k, out) ==
    /\ At(p, "idle")
    /\ Fits
    /\ Become(p, "stdout")
    /\ job' = [job EXCEPT ![p] = [key |-> k, out |-> out, since |-> clock]]
    /\ UNCHANGED <<tables, clock, acked, disputed>>

\* ensure_blob_file: an existing file is verified and kept, a missing one is
\* staged and renamed into place.
EnsureFile(b) ==
    /\ file[b].state # "corrupt"
    /\ file' = [file EXCEPT ![b] = IF @.state = "good" THEN @
                                   ELSE [state |-> "good", mtime |-> clock]]

\* Slip: the inventory holds the time of expiry
PutExpiry(p, b, next) ==
    /\ EnsureFile(b)
    /\ artifact' = [artifact EXCEPT ![b] = clock + TTL]
    /\ Become(p, next)
    /\ UNCHANGED <<row, clock, job, acked, disputed, damaged>>

\* Slip: INSERT OR IGNORE, an inventoried blob keeps its age
PutIgnores(p, b, next) ==
    /\ EnsureFile(b)
    /\ artifact' = [artifact EXCEPT ![b] = IF @ = None THEN clock ELSE @]
    /\ Become(p, next)
    /\ UNCHANGED <<row, clock, job, acked, disputed, damaged>>

\* put_blob, the whole transaction; the inventory is refreshed also for a file
\* that was there
Put(p, b, next) ==
    /\ EnsureFile(b)
    /\ artifact' = [artifact EXCEPT ![b] = clock]
    /\ Become(p, next)
    /\ UNCHANGED <<row, clock, job, acked, disputed, damaged>>

PutStdout(p) == At(p, "stdout") /\ Put(p, job[p].out[1], "stderr")
PutStderr(p) == At(p, "stderr") /\ Put(p, job[p].out[2], "row")

\* The process dies inside put_blob: the file is there, its row is rolled back
DieInPut(p) ==
    /\ \/ At(p, "stdout") /\ EnsureFile(job[p].out[1])
       \/ At(p, "stderr") /\ EnsureFile(job[p].out[2])
    /\ Leave(p)
    /\ UNCHANGED <<row, artifact, clock, acked, disputed, damaged>>

\* A corrupt blob, the quota, SQLite or the end of the process stops it
Abandon(p) ==
    /\ pc[p] # "idle"
    /\ Leave(p)
    /\ UNCHANGED <<tables, clock, acked, disputed>>

InsertedAs(p) ==
    /\ row' = [row EXCEPT ![job[p].key] = [status |-> "visible", out |-> job[p].out]]
    /\ acked' = acked \cup {<<job[p].key, job[p].out>>}
    /\ UNCHANGED disputed

Disputes(p) ==
    /\ row[job[p].key].status = "visible" /\ row[job[p].key].out # job[p].out
    /\ row' = [row EXCEPT ![job[p].key].status = "quarantined"]
    /\ disputed' = disputed \cup {job[p].key}
    /\ UNCHANGED acked

\* Slip: INSERT OR REPLACE
InsertOrReplace(p) ==
    /\ At(p, "row")
    /\ Fits \/ row[job[p].key].status # "none"
    /\ InsertedAs(p)
    /\ Leave(p)
    /\ UNCHANGED <<artifact, file, clock, damaged>>

\* Slip: only the preflight looks at the capacity
InsertUnchecked(p) ==
    /\ At(p, "row")
    /\ \/ row[job[p].key].status = "none" /\ InsertedAs(p)
       \/ Disputes(p)
    /\ Leave(p)
    /\ UNCHANGED <<artifact, file, clock, damaged>>

\* insert_result, the last transaction: the row is inserted if the store still
\* has room, found equal, or found different and quarantined.
InsertRow(p) ==
    /\ At(p, "row")
    /\ \/ row[job[p].key].status = "none" /\ Fits /\ InsertedAs(p)
       \/ /\ row[job[p].key] = [status |-> "visible", out |-> job[p].out]
          /\ acked' = acked \cup {<<job[p].key, job[p].out>>}
          /\ UNCHANGED <<row, disputed>>
       \/ Disputes(p)
    /\ Leave(p)
    /\ UNCHANGED <<artifact, file, clock, damaged>>

-----------------------------------------------------------------------------
(* The hit path of run_admitted.                                           *)

\* get_result
Lookup(p, k) ==
    /\ At(p, "idle")
    /\ row[k].status = "visible"
    /\ Become(p, "load")
    /\ job' = [job EXCEPT ![p] = [key |-> k, out |-> row[k].out, since |-> 0]]
    /\ UNCHANGED <<tables, clock, acked, disputed>>

BlobsReadable(out) == \A b \in BlobsOf(out) : file[b].state = "good"

\* Slip: the hit writes back the row it looked up
LoadRestores(p) ==
    /\ At(p, "load")
    /\ row' = [row EXCEPT ![job[p].key].status =
                  IF BlobsReadable(job[p].out) THEN "visible" ELSE "quarantined"]
    /\ Leave(p)
    /\ UNCHANGED <<artifact, file, clock, acked, disputed, damaged>>

\* load_cached_blob_or_quarantine, for both blobs: the hit is presented, or
\* the row the process looked up is quarantined
Load(p) ==
    /\ At(p, "load")
    /\ row' = IF BlobsReadable(job[p].out) THEN row
              ELSE [row EXCEPT ![job[p].key].status = "quarantined"]
    /\ Leave(p)
    /\ UNCHANGED <<artifact, file, clock, acked, disputed, damaged>>

-----------------------------------------------------------------------------
(* cleanup_at, with a clock read before the write lock was granted.        *)

Removable(b, now) ==
    /\ artifact[b] # None
    /\ artifact[b] < now - TTL
    /\ b \notin Referenced
    /\ file[b].state = "absent" \/ file[b].mtime < now - TTL

Cleanup(now) ==
    /\ \E b \in Blob : Removable(b, now)
    /\ artifact' = [b \in Blob |-> IF Removable(b, now) THEN None ELSE artifact[b]]
    /\ file' = [b \in Blob |-> IF Removable(b, now) THEN NoFile ELSE file[b]]
    /\ UNCHANGED <<row, clock, pc, job, acked, disputed, damaged>>

\* The cleaner dies before it commits: some files are gone, no row is
DieInCleanup(now) ==
    /\ \E gone \in SUBSET {b \in Blob : Removable(b, now)} :
          /\ gone # {}
          /\ file' = [b \in Blob |-> IF b \in gone THEN NoFile ELSE file[b]]
    /\ UNCHANGED <<row, artifact, clock, pc, job, acked, disputed, damaged>>

-----------------------------------------------------------------------------
(* The world.  Time passes, but a process is not suspended for longer than *)
(* Patience between its first put and its row.                             *)
Tick ==
    /\ clock < MaxClock
    /\ \A p \in Proc : pc[p] \in Midway => clock - job[p].since < Patience
    /\ clock' = clock + 1
    /\ UNCHANGED <<tables, pc, job, acked, disputed>>

\* The file system loses or corrupts a blob file
DamageFile(b) ==
    /\ file[b].state = "good"
    /\ Cardinality(damaged \cup {b}) <= MaxDamaged
    /\ \E f \in {NoFile, [file[b] EXCEPT !.state = "corrupt"]} : file' = [file EXCEPT ![b] = f]
    /\ damaged' = damaged \cup {b}
    /\ UNCHANGED <<row, artifact, clock, pc, job, acked, disputed>>

StoreNext ==
    \/ \E p \in Proc, k \in Key, out \in Output : Preflight(p, k, out)
    \/ \E p \in Proc : PutStdout(p) \/ PutStderr(p) \/ InsertRow(p) \/ Abandon(p)
    \/ \E p \in Proc : DieInPut(p) \/ Load(p)
    \/ \E p \in Proc, k \in Key : Lookup(p, k)
    \/ \E now \in 0..clock : Cleanup(now) \/ DieInCleanup(now)
    \/ \E b \in Blob : DamageFile(b)
    \/ Tick

StoreSpec == StoreInit /\ [][StoreNext]_svars

-----------------------------------------------------------------------------
\* Complete rows: the files a row names exist and are sound unless the file
\* system damaged them.  Cleanup works from the inventory and the references
\* while a writer has put its blobs and not yet inserted its row; what saves
\* those blobs is their age, so the writer must not stall for the whole TTL.
RowsComplete ==
    \A k \in Rows : \A b \in BlobsOf(row[k].out) : b \in damaged \/ file[b].state = "good"

\* Acknowledged outputs: what insert_result reported as stored is what the row
\* holds for good, so identical writers converge on one result.
AckedHeld == \A a \in acked : row[a[1]].status # "none" /\ row[a[1]].out = a[2]

\* Disputed keys are closed: once two writers disagreed about a key it is
\* quarantined, and no later insert makes it a hit again.
DisputedClosed == \A k \in disputed : row[k].status = "quarantined"

\* Capacity: writers that all passed the preflight at the limit do not
\* together exceed it, because the row's transaction checks again.
WithinCapacity == Cardinality(Rows) <= Capacity
=============================================================================
