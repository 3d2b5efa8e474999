------------------------ MODULE CommandPathProofs ------------------------
(***************************************************************************)
(* What the two halves of a command's run rest on: the result store, for   *)
(* any processes, keys, outputs and bounds, and the team cache client, for *)
(* any processes, bundles, manifests and wall clock.                       *)
(***************************************************************************)
EXTENDS ResultStore, TeamClient, FiniteSetTheorems, TLAPS

-----------------------------------------------------------------------------
(***************************************************************************)
(* The result store.  RowsComplete is not inductive: that a row's blobs    *)
(* exist when it is inserted depends on the blobs its writer put before,   *)
(* and cleanup spares those only because their inventory rows are younger  *)
(* than the TTL.  The strengthening says so for every process inside       *)
(* insert_result.                                                          *)
(***************************************************************************)

\* The blobs a process has put for its job
PutBy(p) ==
    {b \in Blob : \/ pc[p] = "stderr" /\ b = job[p].out[1]
                  \/ pc[p] = "row" /\ b \in BlobsOf(job[p].out)}

\* Whoever works on a key has a key and an output
JobsNamed == \A p \in Proc : pc[p] # "idle" => job[p].key \in Key /\ job[p].out \in Output

\* A writer began at most Patience ago
WritersPrompt ==
    \A p \in Proc : pc[p] \in Midway => job[p].since <= clock /\ clock - job[p].since <= Patience

\* The blobs a writer has put are there, and inventoried since it began
PutsKept ==
    \A p \in Proc : \A b \in PutBy(p) :
        /\ b \in damaged \/ file[b].state = "good"
        /\ artifact[b] # None
        /\ job[p].since <= artifact[b]

\* A row that exists has an output; a process that loads one works on a row
RowsNamed ==
    /\ \A k \in Key : row[k].status # "none" => row[k].out \in Output
    /\ \A p \in Proc : pc[p] = "load" => row[job[p].key].status # "none"

StoreInv ==
    /\ StoreTypeOK
    /\ JobsNamed
    /\ WritersPrompt
    /\ PutsKept
    /\ RowsNamed
    /\ RowsComplete
    /\ AckedHeld
    /\ DisputedClosed
-----------------------------------------------------------------------------
\* A new store satisfies it.
LEMMA InitStoreInv == StoreInit => StoreInv
  BY StoreAssumptions DEF StoreInit, StoreInv, StoreTypeOK, JobsNamed, WritersPrompt, PutsKept,
     PutBy, RowsNamed, RowsComplete, AckedHeld, DisputedClosed, Rows, Midway, NoRow, NoFile, NoJob

\* ensure_blob_file writes one file.
LEMMA EnsureFileType ==
    ASSUME StoreTypeOK, NEW b, EnsureFile(b)
    PROVE  file' \in [Blob -> [state : {"absent", "good", "corrupt"}, mtime : 0..MaxClock]]
  <1>1. CASE b \in Blob
    BY <1>1 DEF StoreTypeOK, EnsureFile
  <1>2. CASE b \notin Blob
    BY <1>2 DEF StoreTypeOK, EnsureFile
  <1> QED
    BY <1>1, <1>2

\* A writer begins: it has put nothing yet.
LEMMA PreflightKeeps ==
    ASSUME StoreInv, NEW p \in Proc, NEW k \in Key, NEW out \in Output, Preflight(p, k, out)
    PROVE  StoreInv'
  <1> USE StoreAssumptions
  <1>1. StoreTypeOK'
    BY DEF StoreInv, StoreTypeOK, Midway, Preflight, At, Become, tables
  <1>2. JobsNamed'
    BY DEF StoreInv, StoreTypeOK, JobsNamed, Preflight, At, Become, tables
  <1>3. WritersPrompt'
    BY DEF StoreInv, StoreTypeOK, WritersPrompt, Midway, Preflight, At, Become, tables
  <1>4. PutsKept'
    BY DEF StoreInv, StoreTypeOK, JobsNamed, WritersPrompt, PutsKept, PutBy, BlobsOf, Midway, Preflight, At, Become, tables
  <1>5. RowsNamed'
    BY DEF StoreInv, StoreTypeOK, JobsNamed, RowsNamed, Preflight, At, Become, tables
  <1>6. RowsComplete'
    BY DEF StoreInv, StoreTypeOK, RowsNamed, RowsComplete, Rows, BlobsOf, Preflight, At, Become, tables
  <1>7. AckedHeld'
    BY DEF StoreInv, StoreTypeOK, AckedHeld, Preflight, At, Become, tables
  <1>8. DisputedClosed'
    BY DEF StoreInv, StoreTypeOK, DisputedClosed, Preflight, At, Become, tables
  <1> QED
    BY <1>1, <1>2, <1>3, <1>4, <1>5, <1>6, <1>7, <1>8 DEF StoreInv

\* The first put inventories its blob now.
LEMMA PutStdoutKeeps ==
    ASSUME StoreInv, NEW p \in Proc, PutStdout(p)
    PROVE  StoreInv'
  <1> USE StoreAssumptions
  <1>1. StoreTypeOK'
    BY DEF StoreInv, StoreTypeOK, JobsNamed, Midway, PutStdout, Put, EnsureFile, At, Become
  <1>2. JobsNamed'
    BY DEF StoreInv, StoreTypeOK, JobsNamed, PutStdout, Put, EnsureFile, At, Become
  <1>3. WritersPrompt'
    BY DEF StoreInv, StoreTypeOK, WritersPrompt, Midway, PutStdout, Put, EnsureFile, At, Become
  <1>4. PutsKept'
    BY DEF StoreInv, StoreTypeOK, JobsNamed, WritersPrompt, PutsKept, PutBy, BlobsOf, Midway, PutStdout, Put, EnsureFile, At, Become
  <1>5. RowsNamed'
    BY DEF StoreInv, StoreTypeOK, JobsNamed, RowsNamed, PutStdout, Put, EnsureFile, At, Become
  <1>6. RowsComplete'
    BY DEF StoreInv, StoreTypeOK, RowsNamed, RowsComplete, Rows, BlobsOf, PutStdout, Put, EnsureFile, At, Become
  <1>7. AckedHeld'
    BY DEF StoreInv, StoreTypeOK, AckedHeld, PutStdout, Put, EnsureFile, At, Become
  <1>8. DisputedClosed'
    BY DEF StoreInv, StoreTypeOK, DisputedClosed, PutStdout, Put, EnsureFile, At, Become
  <1> QED
    BY <1>1, <1>2, <1>3, <1>4, <1>5, <1>6, <1>7, <1>8 DEF StoreInv

\* The second put.
LEMMA PutStderrKeeps ==
    ASSUME StoreInv, NEW p \in Proc, PutStderr(p)
    PROVE  StoreInv'
  <1> USE StoreAssumptions
  <1>1. StoreTypeOK'
    BY DEF StoreInv, StoreTypeOK, JobsNamed, Midway, PutStderr, Put, EnsureFile, At, Become
  <1>2. JobsNamed'
    BY DEF StoreInv, StoreTypeOK, JobsNamed, PutStderr, Put, EnsureFile, At, Become
  <1>3. WritersPrompt'
    BY DEF StoreInv, StoreTypeOK, WritersPrompt, Midway, PutStderr, Put, EnsureFile, At, Become
  <1>4. PutsKept'
    BY DEF StoreInv, StoreTypeOK, JobsNamed, WritersPrompt, PutsKept, PutBy, BlobsOf, Midway, PutStderr, Put, EnsureFile, At, Become
  <1>5. RowsNamed'
    BY DEF StoreInv, StoreTypeOK, JobsNamed, RowsNamed, PutStderr, Put, EnsureFile, At, Become
  <1>6. RowsComplete'
    BY DEF StoreInv, StoreTypeOK, RowsNamed, RowsComplete, Rows, BlobsOf, PutStderr, Put, EnsureFile, At, Become
  <1>7. AckedHeld'
    BY DEF StoreInv, StoreTypeOK, AckedHeld, PutStderr, Put, EnsureFile, At, Become
  <1>8. DisputedClosed'
    BY DEF StoreInv, StoreTypeOK, DisputedClosed, PutStderr, Put, EnsureFile, At, Become
  <1> QED
    BY <1>1, <1>2, <1>3, <1>4, <1>5, <1>6, <1>7, <1>8 DEF StoreInv

\* A death inside put_blob adds a file at most.
LEMMA DieInPutKeeps ==
    ASSUME StoreInv, NEW p \in Proc, DieInPut(p)
    PROVE  StoreInv'
  <1> USE StoreAssumptions
  <1>1. StoreTypeOK'
    <2>1. file' \in [Blob -> [state : {"absent", "good", "corrupt"}, mtime : 0..MaxClock]]
      BY EnsureFileType DEF StoreInv, DieInPut
    <2>2. pc' \in [Proc -> {"idle", "load"} \cup Midway]
      BY DEF StoreInv, StoreTypeOK, DieInPut, Leave, Become
    <2>3. job' \in [Proc -> [key : Key \cup {None}, out : Output \cup {None}, since : 0..MaxClock]]
      BY DEF StoreInv, StoreTypeOK, DieInPut, Leave, NoJob
    <2> QED
      BY <2>1, <2>2, <2>3 DEF StoreInv, StoreTypeOK, DieInPut
  <1>2. JobsNamed'
    BY DEF StoreInv, StoreTypeOK, JobsNamed, DieInPut, EnsureFile, At, Become, Leave, NoJob
  <1>3. WritersPrompt'
    BY DEF StoreInv, StoreTypeOK, WritersPrompt, Midway, DieInPut, EnsureFile, At, Become, Leave, NoJob
  <1>4. PutsKept'
    BY DEF StoreInv, StoreTypeOK, JobsNamed, WritersPrompt, PutsKept, PutBy, BlobsOf, Midway, DieInPut, EnsureFile, At, Become, Leave, NoJob
  <1>5. RowsNamed'
    BY DEF StoreInv, StoreTypeOK, JobsNamed, RowsNamed, DieInPut, EnsureFile, At, Become, Leave, NoJob
  <1>6. RowsComplete'
    BY DEF StoreInv, StoreTypeOK, RowsNamed, RowsComplete, Rows, BlobsOf, DieInPut, EnsureFile, At, Become, Leave, NoJob
  <1>7. AckedHeld'
    BY DEF StoreInv, StoreTypeOK, AckedHeld, DieInPut, EnsureFile, At, Become, Leave, NoJob
  <1>8. DisputedClosed'
    BY DEF StoreInv, StoreTypeOK, DisputedClosed, DieInPut, EnsureFile, At, Become, Leave, NoJob
  <1> QED
    BY <1>1, <1>2, <1>3, <1>4, <1>5, <1>6, <1>7, <1>8 DEF StoreInv

\* An abandoned insert leaves what it has put.
LEMMA AbandonKeeps ==
    ASSUME StoreInv, NEW p \in Proc, Abandon(p)
    PROVE  StoreInv'
  <1> USE StoreAssumptions
  <1>1. StoreTypeOK'
    BY DEF StoreInv, StoreTypeOK, Abandon, Become, Leave, NoJob, tables
  <1>2. JobsNamed'
    BY DEF StoreInv, StoreTypeOK, JobsNamed, Abandon, Become, Leave, NoJob, tables
  <1>3. WritersPrompt'
    BY DEF StoreInv, StoreTypeOK, WritersPrompt, Midway, Abandon, Become, Leave, NoJob, tables
  <1>4. PutsKept'
    BY DEF StoreInv, StoreTypeOK, JobsNamed, WritersPrompt, PutsKept, PutBy, BlobsOf, Midway, Abandon, Become, Leave, NoJob, tables
  <1>5. RowsNamed'
    BY DEF StoreInv, StoreTypeOK, JobsNamed, RowsNamed, Abandon, Become, Leave, NoJob, tables
  <1>6. RowsComplete'
    BY DEF StoreInv, StoreTypeOK, RowsNamed, RowsComplete, Rows, BlobsOf, Abandon, Become, Leave, NoJob, tables
  <1>7. AckedHeld'
    BY DEF StoreInv, StoreTypeOK, AckedHeld, Abandon, Become, Leave, NoJob, tables
  <1>8. DisputedClosed'
    BY DEF StoreInv, StoreTypeOK, DisputedClosed, Abandon, Become, Leave, NoJob, tables
  <1> QED
    BY <1>1, <1>2, <1>3, <1>4, <1>5, <1>6, <1>7, <1>8 DEF StoreInv

\* The row names blobs its writer has put.
LEMMA InsertRowKeeps ==
    ASSUME StoreInv, NEW p \in Proc, InsertRow(p)
    PROVE  StoreInv'
  <1> USE StoreAssumptions
  <1> DEFINE k == job[p].key
             out == job[p].out
  <1>1. /\ pc[p] = "row" /\ k \in Key /\ out \in Output
        /\ pc' = [pc EXCEPT ![p] = "idle"] /\ job' = [job EXCEPT ![p] = NoJob]
        /\ UNCHANGED <<artifact, file, clock, damaged>>
    BY DEF StoreInv, JobsNamed, InsertRow, At, Leave, Become
  <1>2. /\ \/ row' = [row EXCEPT ![k] = [status |-> "visible", out |-> out]] /\ row[k].status = "none"
           \/ row' = [row EXCEPT ![k].status = "quarantined"] /\ row[k].status = "visible"
           \/ row' = row
        /\ acked' \in {acked, acked \cup {<<k, out>>}}
        /\ disputed' \in {disputed, disputed \cup {k}}
        /\ acked' # acked => row'[k].status = "visible" /\ row'[k].out = out
        /\ disputed' # disputed => row'[k].status = "quarantined"
    <2>1. row[k] \in [status : {"none", "visible", "quarantined"}, out : Output \cup {None}]
      BY <1>1 DEF StoreInv, StoreTypeOK
    <2>2. CASE row[k].status = "none" /\ InsertedAs(p)
      BY <1>1, <2>1, <2>2 DEF StoreInv, StoreTypeOK, InsertedAs
    <2>3. CASE /\ row[k] = [status |-> "visible", out |-> out]
               /\ acked' = acked \cup {<<k, out>>}
               /\ UNCHANGED <<row, disputed>>
      BY <1>1, <2>1, <2>3
    <2>4. CASE Disputes(p)
      BY <1>1, <2>1, <2>4 DEF StoreInv, StoreTypeOK, Disputes
    <2> QED
      BY <2>2, <2>3, <2>4 DEF InsertRow
  <1>3. StoreTypeOK'
    <2>1. row' \in [Key -> [status : {"none", "visible", "quarantined"}, out : Output \cup {None}]]
      BY <1>1, <1>2 DEF StoreInv, StoreTypeOK
    <2>2. acked' \subseteq Key \X Output /\ disputed' \subseteq Key
      BY <1>1, <1>2 DEF StoreInv, StoreTypeOK
    <2>3. /\ pc' \in [Proc -> {"idle", "load"} \cup Midway]
          /\ job' \in [Proc -> [key : Key \cup {None}, out : Output \cup {None}, since : 0..MaxClock]]
      BY <1>1 DEF StoreInv, StoreTypeOK, NoJob
    <2> QED
      BY <1>1, <2>1, <2>2, <2>3 DEF StoreInv, StoreTypeOK
  <1>4. \A j \in Key : row[j].status # "none" => row'[j].status # "none" /\ row'[j].out = row[j].out
    BY <1>1, <1>2 DEF StoreInv, StoreTypeOK
  <1>5. JobsNamed' /\ WritersPrompt'
    BY <1>1 DEF StoreInv, StoreTypeOK, JobsNamed, WritersPrompt, Midway
  <1>6. PutsKept'
    BY <1>1 DEF StoreInv, StoreTypeOK, PutsKept, PutBy
  <1>7. RowsNamed'
    BY <1>1, <1>2, <1>4 DEF StoreInv, StoreTypeOK, JobsNamed, RowsNamed
  <1>8. \A b \in BlobsOf(out) : b \in damaged \/ file[b].state = "good"
    BY <1>1 DEF StoreInv, PutsKept, PutBy, BlobsOf
  <1>9. RowsComplete'
    BY <1>1, <1>2, <1>8 DEF StoreInv, StoreTypeOK, RowsComplete, Rows, BlobsOf
  <1>10. AckedHeld'
    BY <1>1, <1>2, <1>4 DEF StoreInv, StoreTypeOK, AckedHeld
  <1>11. DisputedClosed'
    BY <1>1, <1>2 DEF StoreInv, StoreTypeOK, DisputedClosed
  <1> QED
    BY <1>3, <1>5, <1>6, <1>7, <1>9, <1>10, <1>11 DEF StoreInv

\* A reader takes a row as it is.
LEMMA LookupKeeps ==
    ASSUME StoreInv, NEW p \in Proc, NEW k \in Key, Lookup(p, k)
    PROVE  StoreInv'
  <1> USE StoreAssumptions
  <1>1. StoreTypeOK'
    BY DEF StoreInv, StoreTypeOK, Lookup, At, Become, tables
  <1>2. JobsNamed'
    BY DEF StoreInv, StoreTypeOK, JobsNamed, RowsNamed, Lookup, At, Become, tables
  <1>3. WritersPrompt'
    BY DEF StoreInv, StoreTypeOK, WritersPrompt, Midway, Lookup, At, Become, tables
  <1>4. PutsKept'
    BY DEF StoreInv, StoreTypeOK, JobsNamed, WritersPrompt, PutsKept, PutBy, BlobsOf, Midway, Lookup, At, Become, tables
  <1>5. RowsNamed'
    BY DEF StoreInv, StoreTypeOK, JobsNamed, RowsNamed, Lookup, At, Become, tables
  <1>6. RowsComplete'
    BY DEF StoreInv, StoreTypeOK, RowsNamed, RowsComplete, Rows, BlobsOf, Lookup, At, Become, tables
  <1>7. AckedHeld'
    BY DEF StoreInv, StoreTypeOK, AckedHeld, Lookup, At, Become, tables
  <1>8. DisputedClosed'
    BY DEF StoreInv, StoreTypeOK, DisputedClosed, Lookup, At, Become, tables
  <1> QED
    BY <1>1, <1>2, <1>3, <1>4, <1>5, <1>6, <1>7, <1>8 DEF StoreInv

\* A reader may quarantine the row it looked up, and changes nothing else.
LEMMA LoadKeeps ==
    ASSUME StoreInv, NEW p \in Proc, Load(p)
    PROVE  StoreInv'
  <1> USE StoreAssumptions
  <1>1. StoreTypeOK'
    BY DEF StoreInv, StoreTypeOK, JobsNamed, Load, At, Become, Leave, NoJob
  <1>2. JobsNamed'
    BY DEF StoreInv, StoreTypeOK, JobsNamed, Load, At, Become, Leave, NoJob
  <1>3. WritersPrompt'
    BY DEF StoreInv, StoreTypeOK, WritersPrompt, Midway, Load, At, Become, Leave, NoJob
  <1>4. PutsKept'
    BY DEF StoreInv, StoreTypeOK, JobsNamed, WritersPrompt, PutsKept, PutBy, BlobsOf, Midway, Load, At, Become, Leave, NoJob
  <1>5. RowsNamed'
    BY DEF StoreInv, StoreTypeOK, JobsNamed, RowsNamed, Load, At, Become, Leave, NoJob
  <1>6. RowsComplete'
    BY DEF StoreInv, StoreTypeOK, RowsNamed, RowsComplete, Rows, BlobsOf, Load, At, Become, Leave, NoJob
  <1>7. AckedHeld'
    BY DEF StoreInv, StoreTypeOK, AckedHeld, Load, At, Become, Leave, NoJob
  <1>8. DisputedClosed'
    BY DEF StoreInv, StoreTypeOK, DisputedClosed, Load, At, Become, Leave, NoJob
  <1> QED
    BY <1>1, <1>2, <1>3, <1>4, <1>5, <1>6, <1>7, <1>8 DEF StoreInv

\* Cleanup removes no blob of a row, and none a prompt writer has put.
LEMMA CleanupKeeps ==
    ASSUME StoreInv, NEW now \in 0..clock, Cleanup(now)
    PROVE  StoreInv'
  <1> USE StoreAssumptions
  <1>1. StoreTypeOK'
    BY DEF StoreInv, StoreTypeOK, Cleanup, Removable, Referenced, NoFile
  <1>2. JobsNamed'
    BY DEF StoreInv, StoreTypeOK, JobsNamed, Cleanup, Removable, Referenced, NoFile
  <1>3. WritersPrompt'
    BY DEF StoreInv, StoreTypeOK, WritersPrompt, Midway, Cleanup, Removable, Referenced, NoFile
  <1>4. PutsKept'
    BY DEF StoreInv, StoreTypeOK, JobsNamed, WritersPrompt, PutsKept, PutBy, BlobsOf, Midway, Cleanup, Removable, Referenced, NoFile
  <1>5. RowsNamed'
    BY DEF StoreInv, StoreTypeOK, JobsNamed, RowsNamed, Cleanup, Removable, Referenced, NoFile
  <1>6. RowsComplete'
    BY DEF StoreInv, StoreTypeOK, RowsNamed, RowsComplete, Rows, BlobsOf, Cleanup, Removable, Referenced, NoFile
  <1>7. AckedHeld'
    BY DEF StoreInv, StoreTypeOK, AckedHeld, Cleanup, Removable, Referenced, NoFile
  <1>8. DisputedClosed'
    BY DEF StoreInv, StoreTypeOK, DisputedClosed, Cleanup, Removable, Referenced, NoFile
  <1> QED
    BY <1>1, <1>2, <1>3, <1>4, <1>5, <1>6, <1>7, <1>8 DEF StoreInv

\* A cleaner that dies has removed no more.
LEMMA DieInCleanupKeeps ==
    ASSUME StoreInv, NEW now \in 0..clock, DieInCleanup(now)
    PROVE  StoreInv'
  <1> USE StoreAssumptions
  <1>1. StoreTypeOK'
    BY DEF StoreInv, StoreTypeOK, DieInCleanup, Removable, Referenced, NoFile
  <1>2. JobsNamed'
    BY DEF StoreInv, StoreTypeOK, JobsNamed, DieInCleanup, Removable, Referenced, NoFile
  <1>3. WritersPrompt'
    BY DEF StoreInv, StoreTypeOK, WritersPrompt, Midway, DieInCleanup, Removable, Referenced, NoFile
  <1>4. PutsKept'
    BY DEF StoreInv, StoreTypeOK, JobsNamed, WritersPrompt, PutsKept, PutBy, BlobsOf, Midway, DieInCleanup, Removable, Referenced, NoFile
  <1>5. RowsNamed'
    BY DEF StoreInv, StoreTypeOK, JobsNamed, RowsNamed, DieInCleanup, Removable, Referenced, NoFile
  <1>6. RowsComplete'
    BY DEF StoreInv, StoreTypeOK, RowsNamed, RowsComplete, Rows, BlobsOf, DieInCleanup, Removable, Referenced, NoFile
  <1>7. AckedHeld'
    BY DEF StoreInv, StoreTypeOK, AckedHeld, DieInCleanup, Removable, Referenced, NoFile
  <1>8. DisputedClosed'
    BY DEF StoreInv, StoreTypeOK, DisputedClosed, DieInCleanup, Removable, Referenced, NoFile
  <1> QED
    BY <1>1, <1>2, <1>3, <1>4, <1>5, <1>6, <1>7, <1>8 DEF StoreInv

\* Time passes only while every writer is prompt.
LEMMA TickKeeps ==
    ASSUME StoreInv, Tick
    PROVE  StoreInv'
  <1> USE StoreAssumptions
  <1>1. StoreTypeOK'
    BY DEF StoreInv, StoreTypeOK, Tick, tables
  <1>2. JobsNamed'
    BY DEF StoreInv, StoreTypeOK, JobsNamed, Tick, tables
  <1>3. WritersPrompt'
    BY DEF StoreInv, StoreTypeOK, WritersPrompt, Midway, Tick, tables
  <1>4. PutsKept'
    BY DEF StoreInv, StoreTypeOK, JobsNamed, WritersPrompt, PutsKept, PutBy, BlobsOf, Midway, Tick, tables
  <1>5. RowsNamed'
    BY DEF StoreInv, StoreTypeOK, JobsNamed, RowsNamed, Tick, tables
  <1>6. RowsComplete'
    BY DEF StoreInv, StoreTypeOK, RowsNamed, RowsComplete, Rows, BlobsOf, Tick, tables
  <1>7. AckedHeld'
    BY DEF StoreInv, StoreTypeOK, AckedHeld, Tick, tables
  <1>8. DisputedClosed'
    BY DEF StoreInv, StoreTypeOK, DisputedClosed, Tick, tables
  <1> QED
    BY <1>1, <1>2, <1>3, <1>4, <1>5, <1>6, <1>7, <1>8 DEF StoreInv

\* Damage is remembered.
LEMMA DamageFileKeeps ==
    ASSUME StoreInv, NEW b \in Blob, DamageFile(b)
    PROVE  StoreInv'
  <1> USE StoreAssumptions
  <1>1. StoreTypeOK'
    BY DEF StoreInv, StoreTypeOK, DamageFile, NoFile
  <1>2. JobsNamed'
    BY DEF StoreInv, StoreTypeOK, JobsNamed, DamageFile, NoFile
  <1>3. WritersPrompt'
    BY DEF StoreInv, StoreTypeOK, WritersPrompt, Midway, DamageFile, NoFile
  <1>4. PutsKept'
    BY DEF StoreInv, StoreTypeOK, JobsNamed, WritersPrompt, PutsKept, PutBy, BlobsOf, Midway, DamageFile, NoFile
  <1>5. RowsNamed'
    BY DEF StoreInv, StoreTypeOK, JobsNamed, RowsNamed, DamageFile, NoFile
  <1>6. RowsComplete'
    BY DEF StoreInv, StoreTypeOK, RowsNamed, RowsComplete, Rows, BlobsOf, DamageFile, NoFile
  <1>7. AckedHeld'
    BY DEF StoreInv, StoreTypeOK, AckedHeld, DamageFile, NoFile
  <1>8. DisputedClosed'
    BY DEF StoreInv, StoreTypeOK, DisputedClosed, DamageFile, NoFile
  <1> QED
    BY <1>1, <1>2, <1>3, <1>4, <1>5, <1>6, <1>7, <1>8 DEF StoreInv

\* Every step, and stuttering, keeps the strengthened invariant.
LEMMA StoreStep == StoreInv /\ [StoreNext]_svars => StoreInv'
  <1> SUFFICES ASSUME StoreInv, [StoreNext]_svars
               PROVE  StoreInv'
    OBVIOUS
  <1>1. CASE UNCHANGED svars
    BY <1>1 DEF svars, StoreInv, StoreTypeOK, JobsNamed, WritersPrompt, PutsKept, PutBy,
       RowsNamed, RowsComplete, AckedHeld, DisputedClosed, Rows
  <1>2. CASE \E p \in Proc, k \in Key, out \in Output : Preflight(p, k, out)
    BY <1>2, PreflightKeeps
  <1>3. CASE \E p \in Proc : PutStdout(p) \/ PutStderr(p) \/ InsertRow(p) \/ Abandon(p)
    BY <1>3, PutStdoutKeeps, PutStderrKeeps, InsertRowKeeps, AbandonKeeps
  <1>4. CASE \E p \in Proc : DieInPut(p) \/ Load(p)
    BY <1>4, DieInPutKeeps, LoadKeeps
  <1>5. CASE \E p \in Proc, k \in Key : Lookup(p, k)
    BY <1>5, LookupKeeps
  <1>6. CASE \E now \in 0..clock : Cleanup(now) \/ DieInCleanup(now)
    BY <1>6, CleanupKeeps, DieInCleanupKeeps
  <1>7. CASE \E b \in Blob : DamageFile(b)
    BY <1>7, DamageFileKeeps
  <1>8. CASE Tick
    BY <1>8, TickKeeps
  <1> QED
    BY <1>1, <1>2, <1>3, <1>4, <1>5, <1>6, <1>7, <1>8 DEF StoreNext

\* The strengthened invariant holds throughout.
LEMMA StoreInvariance == StoreSpec => []StoreInv
  BY InitStoreInv, StoreStep, PTL DEF StoreSpec

\* Tables, files and processes keep their types.
THEOREM StoreTypes == StoreSpec => []StoreTypeOK
  <1>1. StoreInv => StoreTypeOK
    BY DEF StoreInv
  <1> QED
    BY <1>1, StoreInvariance, PTL

\* A row names sound files unless the file system damaged them: cleanup never
\* takes a blob from a row, nor from a writer that is about to insert one, as
\* long as writers do not stall for the orphan TTL.
THEOREM CleanupSparesRows == StoreSpec => []RowsComplete
  <1>1. StoreInv => RowsComplete
    BY DEF StoreInv
  <1> QED
    BY <1>1, StoreInvariance, PTL

\* What insert_result acknowledged stays what the row holds.
THEOREM AcknowledgedRowsStay == StoreSpec => []AckedHeld
  <1>1. StoreInv => AckedHeld
    BY DEF StoreInv
  <1> QED
    BY <1>1, StoreInvariance, PTL

\* A key two writers disagreed about stays quarantined.
THEOREM DisputesClose == StoreSpec => []DisputedClosed
  <1>1. StoreInv => DisputedClosed
    BY DEF StoreInv
  <1> QED
    BY <1>1, StoreInvariance, PTL

-----------------------------------------------------------------------------
(* Capacity.  Only the row's transaction adds a row, and it adds one.      *)

\* A step adds at most one row, and only below the capacity.
LEMMA RowsGrowByOne ==
    ASSUME StoreInv, [StoreNext]_svars
    PROVE  \/ Rows' = Rows
           \/ Fits /\ \E k \in Key : Rows' = Rows \cup {k}
  <1>1. CASE UNCHANGED row
    BY <1>1 DEF Rows
  <1>2. ASSUME NEW p \in Proc, InsertRow(p)
        PROVE  \/ Rows' = Rows
               \/ Fits /\ \E k \in Key : Rows' = Rows \cup {k}
    <2>1. job[p].key \in Key
      BY <1>2 DEF StoreInv, JobsNamed, InsertRow, At
    <2>2. CASE Fits /\ InsertedAs(p)
      BY <2>1, <2>2 DEF StoreInv, StoreTypeOK, InsertedAs, Rows
    <2>3. CASE Disputes(p)
      BY <2>1, <2>3 DEF StoreInv, StoreTypeOK, Disputes, Rows
    <2>4. CASE UNCHANGED row
      BY <2>4 DEF Rows
    <2> QED
      BY <1>2, <2>2, <2>3, <2>4 DEF InsertRow
  <1>3. ASSUME NEW p \in Proc, Load(p)
        PROVE  Rows' = Rows
    <2>1. job[p].key \in Key /\ row[job[p].key].status # "none"
      BY <1>3 DEF StoreInv, JobsNamed, RowsNamed, Load, At
    <2> QED
      BY <1>3, <2>1 DEF StoreInv, StoreTypeOK, Load, Rows
  <1> QED
    BY <1>1, <1>2, <1>3 DEF StoreNext, svars, tables, Preflight, PutStdout, PutStderr, Put,
       Abandon, DieInPut, Lookup, Cleanup, DieInCleanup, DamageFile, Tick

\* The rows never exceed the capacity, however many writers passed the
\* preflight at the limit.
THEOREM CapacityHolds == StoreSpec => []WithinCapacity
  <1>1. StoreInit => WithinCapacity
    <2> SUFFICES ASSUME StoreInit PROVE WithinCapacity
      OBVIOUS
    <2>1. Rows = {}
      BY DEF StoreInit, Rows, NoRow
    <2> QED
      BY <2>1, FS_EmptySet, StoreAssumptions DEF WithinCapacity
  <1>2. StoreInv /\ WithinCapacity /\ [StoreNext]_svars => WithinCapacity'
    <2> SUFFICES ASSUME StoreInv, WithinCapacity, [StoreNext]_svars
                 PROVE  WithinCapacity'
      OBVIOUS
    <2>1. IsFiniteSet(Rows)
      BY FS_Subset, StoreAssumptions DEF Rows
    <2>2. CASE Rows' = Rows
      BY <2>2 DEF WithinCapacity
    <2>3. ASSUME Fits, NEW k \in Key, Rows' = Rows \cup {k}
          PROVE  WithinCapacity'
      <3>1. Cardinality(Rows) \in Nat /\ Cardinality(Rows') \in {Cardinality(Rows), Cardinality(Rows) + 1}
        BY <2>1, <2>3, FS_AddElement, FS_CardinalityType
      <3> QED
        BY <2>3, <3>1, StoreAssumptions DEF Fits, WithinCapacity
    <2> QED
      BY <2>2, <2>3, RowsGrowByOne
  <1> QED
    BY <1>1, <1>2, StoreInvariance, PTL DEF StoreSpec

-----------------------------------------------------------------------------
(***************************************************************************)
(* The team cache client.  A machine presents and publishes only under     *)
(* trust that is on its disk, and the checkpoint never goes back: what each *)
(* place of a run knows of the trust state it read and of the checkpoint on *)
(* the disk is TrustInv, PullInv and PublishInv.                           *)
(***************************************************************************)

Revocations == UNION {b.revoked : b \in Bundles}
MyManifests ==
    [record : Procs, key : {MyKey}, request : Contents \cup {Nothing}, created : Nat, expires : Nat]

Persisting == {"compare", "rename", "confirm"}
Places ==
    {"idle", "load", "trust", "lock", "local", "shown", "published", "dead"}
      \cup Persisting \cup Relying
Stages == {"pull", "release", "present", "admit", "publish"}

ProcState ==
    [pc : Places, stage : Stages, last : Nat, request : Contents \cup {Nothing},
     tracker : Trackers \cup {Nothing}, trust : Bundles \cup {Nothing},
     m : Manifests \cup MyManifests \cup {Nothing}, until : Nat,
     fence : SUBSET Revocations, since : SUBSET Contents]

\* A key id has one key in what was ever bound, and the bundle's are among it.
Sound(t) ==
    /\ \A x, y \in t.history : x[1] = y[1] => x = y
    /\ t.bundle.active \subseteq t.history

\* What a process knows of the checkpoint: it alone compares and replaces it;
\* what it may rely on is on the disk, and is no older than its fence.
TrustInv(p, r, d, l) ==
    /\ r.pc \in Persisting => l = p
    /\ r.tracker # Nothing => Sound(r.tracker)
    /\ r.pc \in {"lock"} \cup Persisting \cup Relying =>
         r.tracker # Nothing /\ r.tracker.bundle = r.trust
    /\ r.pc = "rename" /\ d # Nothing => Monotonic(d, r.tracker)
    /\ r.pc \in Relying =>
         d # Nothing /\ d.bundle.epoch >= r.trust.epoch /\ r.trust.revoked \subseteq d.bundle.revoked
    /\ r.fence \subseteq Revoked(d)
    /\ r.pc \in {"rename", "confirm"} \cup Relying => r.fence \subseteq r.trust.revoked

\* What a process knows of the manifest it may present.
PullInv(r, c) ==
    /\ r.pc \in Relying => c \in r.since
    /\ r.pc \in {"fresh", "hit"} => r.request \in r.since
    /\ r.pc = "decrypt" => r.m \in Manifests \cup MyManifests
    /\ r.stage = "release" => r.m \in Manifests \cup MyManifests /\ r.until <= r.m.expires
    /\ r.pc = "fence" => r.stage = "release"
    /\ r.pc \in Relying \ {"fence", "rebuild", "fresh", "hit"} => r.stage # "release"
    /\ r.pc \in {"rebuild", "fresh", "hit"} =>
         /\ {r.m.record, r.m.key[1]} \cap r.trust.revoked = {}
         /\ r.m.request = r.request
         /\ r.m \in Manifests \cup MyManifests
         /\ r.until <= r.m.expires /\ r.until <= r.trust.expires
    /\ r.pc = "hit" => r.last < r.until

\* What a process knows of the publication it makes.
PublishInv(p, r, bl) ==
    /\ r.pc \in {"build", "putStdout", "putStderr", "putManifest"} =>
         {p, MyKey[1]} \cap r.trust.revoked = {}
    /\ r.pc \in {"putStdout", "putStderr", "putManifest"} => r.m \in MyManifests /\ r.m.record = p
    /\ r.pc \in {"putStderr", "putManifest"} => <<p, "stdout">> \in bl
    /\ r.pc = "putManifest" => <<p, "stderr">> \in bl

ProcInv(p, r, d, l, c, bl) ==
    r \in ProcState /\ TrustInv(p, r, d, l) /\ PullInv(r, c) /\ PublishInv(p, r, bl)

ClientInv ==
    /\ content \in Contents
    /\ lock \in Procs \cup {Nothing}
    /\ disk \in Trackers \cup {Nothing} /\ (disk # Nothing => Sound(disk))
    /\ shared \subseteq MyManifests
    /\ \A m \in shared : {<<m.record, "stdout">>, <<m.record, "stderr">>} \subseteq blobs
    /\ proc \in [Procs -> ProcState]
    /\ \A p \in Procs : ProcInv(p, proc[p], disk, lock, content, blobs)

-----------------------------------------------------------------------------
(* The frame: what one process does, the others still know.                 *)

\* A process keeps what it knows when another replaces the checkpoint with a
\* later one, takes or drops the flock it does not hold, or uploads a blob.
LEMMA Frame ==
    ASSUME NEW q, NEW r, NEW d, NEW l, NEW c, NEW bl, ProcInv(q, r, d, l, c, bl),
           NEW d2, NEW l2, NEW bl2,
           d2 \in Trackers \cup {Nothing}, d \in Trackers \cup {Nothing},
           d2 = d \/ (r.pc \notin Persisting /\ d2 # Nothing /\ (d # Nothing => Monotonic(d, d2))),
           r.pc \in Persisting => l2 = l,
           bl \subseteq bl2
    PROVE  ProcInv(q, r, d2, l2, c, bl2)
<1>1. r \in ProcState /\ PullInv(r, c) BY DEF ProcInv
<1>2. PublishInv(q, r, bl2) BY DEF ProcInv, PublishInv
<1>3. TrustInv(q, r, d2, l2)
  <2>1. CASE d2 = d BY <2>1 DEF ProcInv, TrustInv
  <2>2. CASE r.pc \notin Persisting /\ d2 # Nothing /\ (d # Nothing => Monotonic(d, d2))
    <3>1. Revoked(d) \subseteq Revoked(d2) BY <2>2 DEF Revoked, Monotonic
    <3>2. r.fence \subseteq Revoked(d2) BY <3>1 DEF ProcInv, TrustInv
    <3>3. ASSUME r.pc \in Relying
          PROVE  d2.bundle.epoch >= r.trust.epoch /\ r.trust.revoked \subseteq d2.bundle.revoked
      <4>1. /\ d # Nothing /\ r.tracker # Nothing /\ r.tracker.bundle = r.trust
            /\ d.bundle.epoch >= r.trust.epoch /\ r.trust.revoked \subseteq d.bundle.revoked
        BY <3>3 DEF ProcInv, TrustInv
      <4>2. d.bundle \in Bundles /\ d2.bundle \in Bundles /\ r.trust \in Bundles
        BY <1>1, <4>1, <2>2 DEF ProcState, Trackers
      <4>3. d.bundle.epoch \in Nat /\ d2.bundle.epoch \in Nat /\ r.trust.epoch \in Nat
        BY <4>2, ClientAssumption DEF ClientBounds
      <4> QED BY <4>1, <4>3, <2>2 DEF Monotonic
    <3> QED BY <2>2, <3>2, <3>3 DEF ProcInv, TrustInv, Persisting
  <2> QED BY <2>1, <2>2
<1> QED BY <1>1, <1>2, <1>3 DEF ProcInv

LEMMA OneMoves ==
    ASSUME ClientInv, NEW p \in Procs, NEW r,
           proc' = [proc EXCEPT ![p] = r], content' = content,
           ProcInv(p, r, disk', lock', content, blobs'),
           disk' \in Trackers \cup {Nothing}, disk' # Nothing => Sound(disk'),
           disk' = disk \/ (lock = p /\ disk' # Nothing /\ (disk # Nothing => Monotonic(disk, disk'))),
           lock' = lock \/ (lock' \in Procs \cup {Nothing} /\ lock \in {p, Nothing}),
           blobs \subseteq blobs',
           shared' = shared \/
             (\E m \in MyManifests : shared' = shared \cup {m} /\ 
                {<<m.record, "stdout">>, <<m.record, "stderr">>} \subseteq blobs)
    PROVE  ClientInv'
<1>1. r \in ProcState BY DEF ProcInv
<1>2. proc' \in [Procs -> ProcState] BY <1>1 DEF ClientInv
<1>3. ASSUME NEW q \in Procs PROVE ProcInv(q, proc'[q], disk', lock', content', blobs')
  <2>1. CASE q = p BY <2>1 DEF ClientInv
  <2>2. CASE q # p
    <3>1. proc'[q] = proc[q] BY <2>2 DEF ClientInv
    <3>2. ProcInv(q, proc[q], disk, lock, content, blobs) BY DEF ClientInv
    <3>3. proc[q].pc \in Persisting => lock = q BY <3>2 DEF ProcInv, TrustInv
    <3>4. Nothing # q BY ClientAssumption DEF ClientBounds
    <3>5. ProcInv(q, proc[q], disk', lock', content, blobs')
      <4>1. disk \in Trackers \cup {Nothing} BY DEF ClientInv
      <4>2. disk' = disk \/ (proc[q].pc \notin Persisting /\ disk' # Nothing
                               /\ (disk # Nothing => Monotonic(disk, disk')))
        BY <3>3, <2>2
      <4>3. proc[q].pc \in Persisting => lock' = lock BY <3>3, <3>4, <2>2
      <4> HIDE DEF ClientInv
      <4> QED BY <3>2, <4>1, <4>2, <4>3, Frame
    <3> QED BY <3>1, <3>5
  <2> QED BY <2>1, <2>2
<1>4. /\ shared' \subseteq MyManifests
      /\ \A m \in shared' : {<<m.record, "stdout">>, <<m.record, "stderr">>} \subseteq blobs'
  BY DEF ClientInv
<1> QED BY <1>2, <1>3, <1>4 DEF ClientInv

LEMMA ClientInit == Init => ClientInv
<1> SUFFICES ASSUME Init PROVE ClientInv OBVIOUS
<1>1. Idle \in ProcState BY DEF Idle, ProcState, Places, Stages
<1>2. proc = [p \in Procs |-> Idle] BY DEF Init
<1>3. ASSUME NEW p \in Procs PROVE ProcInv(p, proc[p], disk, lock, content, blobs)
  <2>1. proc[p] = Idle BY <1>2
  <2>2. TrustInv(p, Idle, disk, lock) BY DEF TrustInv, Idle, Persisting, Relying
  <2>3. PullInv(Idle, content) BY DEF PullInv, Idle, Relying
  <2>4. PublishInv(p, Idle, blobs) BY DEF PublishInv, Idle
  <2> QED BY <1>1, <2>1, <2>2, <2>3, <2>4 DEF ProcInv
<1> QED BY <1>1, <1>2, <1>3 DEF ClientInv, Init

-----------------------------------------------------------------------------
(* One lemma per action.                                                    *)

\* A tracker that takes a bundle it verifies still binds each key id once.
LEMMA TrackedIsSound ==
    ASSUME NEW t \in Trackers \cup {Nothing}, t # Nothing => Sound(t),
           NEW b \in Bundles, NEW now, Verifies(t, b, now)
    PROVE  Tracked(t, b) \in Trackers /\ Sound(Tracked(t, b))
<1>1. b.active \subseteq Bindings BY DEF Bindings
<1>2. \A x, y \in b.active : x[1] = y[1] => x = y BY ClientAssumption DEF ClientBounds
<1>3. CASE t = Nothing BY <1>1, <1>2, <1>3 DEF Tracked, Trackers, Sound
<1>4. CASE t # Nothing
  <2>1. t \in Trackers /\ t.history \subseteq Bindings BY <1>4 DEF Trackers
  <2>2. Tracked(t, b) = [bundle |-> b, history |-> b.active \cup t.history] BY <1>4 DEF Tracked
  <2>3. \A x \in b.active, y \in t.history : x[1] = y[1] => x = y
    BY <1>4 DEF Verifies, Sound
  <2> QED BY <1>1, <1>2, <1>4, <2>1, <2>2, <2>3 DEF Trackers, Sound
<1> QED BY <1>3, <1>4

\* run admits the command.
LEMMA AdmitKeeps ==
    ASSUME ClientInv, NEW p \in Procs, Admit(p) PROVE ClientInv'
<1> DEFINE r == proc[p]
           s == [r EXCEPT !.pc = "load", !.request = content]
<1>1. ProcInv(p, r, disk, lock, content, blobs) BY DEF ClientInv
<1>2. proc' = [proc EXCEPT ![p] = s] BY DEF Admit
<1>a. content \in Contents BY DEF ClientInv
<1>3. s \in ProcState
  BY <1>1, <1>a DEF ProcInv, ProcState, Places
<1>4. /\ r.pc = "idle"
      /\ s.pc = "load" /\ s.request = content /\ s.stage = r.stage /\ s.last = r.last
      /\ s.tracker = r.tracker /\ s.trust = r.trust /\ s.m = r.m /\ s.until = r.until
      /\ s.fence = r.fence /\ s.since = r.since
  BY <1>1 DEF ProcInv, ProcState, Admit, Stands
<1> HIDE DEF s, r
<1>5. TrustInv(p, s, disk, lock)
  BY <1>1, <1>4 DEF ProcInv, TrustInv, Persisting, Relying
<1>6. PullInv(s, content) BY <1>1, <1>4 DEF ProcInv, PullInv, Relying
<1>7. PublishInv(p, s, blobs) BY <1>1, <1>4 DEF ProcInv, PublishInv
<1>8. ProcInv(p, s, disk, lock, content, blobs) BY <1>3, <1>5, <1>6, <1>7 DEF ProcInv
<1> QED BY <1>2, <1>8, OneMoves DEF Admit, world, service, ClientInv

\* load_trust_tracker reads what is on the disk.
LEMMA LoadTrackerKeeps ==
    ASSUME ClientInv, NEW p \in Procs, LoadTracker(p) PROVE ClientInv'
<1> DEFINE r == proc[p]
           s == [r EXCEPT !.pc = "trust", !.tracker = disk]
<1>1. ProcInv(p, r, disk, lock, content, blobs) BY DEF ClientInv
<1>2. proc' = [proc EXCEPT ![p] = s] BY DEF LoadTracker
<1>a. disk \in Trackers \cup {Nothing} /\ (disk # Nothing => Sound(disk)) BY DEF ClientInv
<1>3. s \in ProcState
  BY <1>1, <1>a DEF ProcInv, ProcState, Places
<1>4. /\ r.pc = "load"
      /\ s.pc = "trust" /\ s.tracker = disk /\ s.stage = r.stage /\ s.last = r.last
      /\ s.request = r.request /\ s.trust = r.trust /\ s.m = r.m /\ s.until = r.until
      /\ s.fence = r.fence /\ s.since = r.since
  BY <1>1 DEF ProcInv, ProcState, LoadTracker, Stands
<1> HIDE DEF s, r
<1>5. TrustInv(p, s, disk, lock)
  BY <1>1, <1>4, <1>a DEF ProcInv, TrustInv, Persisting, Relying
<1>6. PullInv(s, content) BY <1>1, <1>4 DEF ProcInv, PullInv, Relying
<1>7. PublishInv(p, s, blobs) BY <1>1, <1>4 DEF ProcInv, PublishInv
<1>8. ProcInv(p, s, disk, lock, content, blobs) BY <1>3, <1>5, <1>6, <1>7 DEF ProcInv
<1> QED BY <1>2, <1>8, OneMoves DEF LoadTracker, world, service, ClientInv

\* A bundle is verified against the tracker, which takes it.
LEMMA FetchTrustKeeps ==
    ASSUME ClientInv, NEW p \in Procs, NEW b \in Bundles, NEW now \in Time,
           FetchTrust(p, b, now) PROVE ClientInv'
<1>p. PICK m \in IF p \in Bundled /\ proc[p].stage = "pull" THEN Manifests \cup shared ELSE {proc[p].m} :
        proc' = [proc EXCEPT ![p].pc = "lock", ![p].last = now, ![p].trust = b, ![p].m = m,
                             ![p].tracker = Tracked(proc[p].tracker, b)]
  BY DEF FetchTrust
<1> DEFINE r == proc[p]
           s == [r EXCEPT !.pc = "lock", !.last = now, !.trust = b, !.m = m, !.tracker = Tracked(r.tracker, b)]
<1>1. ProcInv(p, r, disk, lock, content, blobs) BY DEF ClientInv
<1>2. proc' = [proc EXCEPT ![p] = s] BY <1>p
<1>m. m \in Manifests \cup MyManifests \cup {Nothing}
  BY <1>1, <1>p DEF ClientInv, ProcInv, ProcState
<1>n. now \in Nat BY ClientAssumption DEF ClientBounds, Time
<1>t. Tracked(r.tracker, b) \in Trackers /\ Sound(Tracked(r.tracker, b))
  BY <1>1, TrackedIsSound DEF ProcInv, ProcState, TrustInv, FetchTrust
<1>u. Tracked(r.tracker, b).bundle = b /\ Nothing \notin Trackers
  BY ClientAssumption DEF Tracked, ClientBounds
<1>3. s \in ProcState
  BY <1>1, <1>m, <1>n, <1>t DEF ProcInv, ProcState, Places
<1>4. /\ r.pc = "trust" /\ (r.stage = "release" => m = r.m)
      /\ s.pc = "lock" /\ s.last = now /\ s.trust = b /\ s.m = m
      /\ s.tracker = Tracked(r.tracker, b) /\ s.stage = r.stage
      /\ s.request = r.request /\ s.until = r.until /\ s.fence = r.fence
      /\ s.since = r.since
  BY <1>1, <1>p DEF ProcInv, ProcState, FetchTrust, Stands
<1> HIDE DEF s, r
<1>5. TrustInv(p, s, disk, lock)
  BY <1>1, <1>4, <1>t, <1>u DEF ProcInv, TrustInv, Persisting, Relying
<1>6. PullInv(s, content) BY <1>1, <1>4 DEF ProcInv, PullInv, Relying
<1>7. PublishInv(p, s, blobs) BY <1>1, <1>4 DEF ProcInv, PublishInv
<1>8. ProcInv(p, s, disk, lock, content, blobs) BY <1>3, <1>5, <1>6, <1>7 DEF ProcInv
<1> QED BY <1>2, <1>8, OneMoves DEF FetchTrust, world, service, ClientInv

\* The flock is taken.
LEMMA PersistLockKeeps ==
    ASSUME ClientInv, NEW p \in Procs, PersistLock(p) PROVE ClientInv'
<1> DEFINE r == proc[p]
           s == [r EXCEPT !.pc = "compare"]
<1>1. ProcInv(p, r, disk, lock, content, blobs) BY DEF ClientInv
<1>2. proc' = [proc EXCEPT ![p] = s] BY DEF PersistLock, Goto
<1>3. s \in ProcState
  BY <1>1 DEF ProcInv, ProcState, Places, Persisting
<1>4. /\ r.pc = "lock"
      /\ s.pc = "compare" /\ s.stage = r.stage /\ s.last = r.last /\ s.request = r.request
      /\ s.tracker = r.tracker /\ s.trust = r.trust /\ s.m = r.m /\ s.until = r.until
      /\ s.fence = r.fence /\ s.since = r.since
  BY <1>1 DEF ProcInv, ProcState, PersistLock, Stands, Goto
<1> HIDE DEF s, r
<1>5. TrustInv(p, s, disk, p)
  BY <1>1, <1>4 DEF ProcInv, TrustInv, Persisting, Relying
<1>6. PullInv(s, content) BY <1>1, <1>4 DEF ProcInv, PullInv, Relying
<1>7. PublishInv(p, s, blobs) BY <1>1, <1>4 DEF ProcInv, PublishInv
<1>8. ProcInv(p, s, disk, p, content, blobs) BY <1>3, <1>5, <1>6, <1>7 DEF ProcInv
<1> QED BY <1>2, <1>8, OneMoves DEF PersistLock, world, service, ClientInv

\* Under the flock the tracker is compared with the disk.
LEMMA PersistCompareKeeps ==
    ASSUME ClientInv, NEW p \in Procs, PersistCompare(p) PROVE ClientInv'
<1> DEFINE r == proc[p]
           s == [r EXCEPT !.pc = "rename"]
<1>1. ProcInv(p, r, disk, lock, content, blobs) BY DEF ClientInv
<1>2. proc' = [proc EXCEPT ![p] = s] BY DEF PersistCompare, Goto
<1>3. s \in ProcState
  BY <1>1 DEF ProcInv, ProcState, Places, Persisting
<1>4. /\ r.pc = "compare"
      /\ s.pc = "rename" /\ s.stage = r.stage /\ s.last = r.last /\ s.request = r.request
      /\ s.tracker = r.tracker /\ s.trust = r.trust /\ s.m = r.m /\ s.until = r.until
      /\ s.fence = r.fence /\ s.since = r.since
  BY <1>1 DEF ProcInv, ProcState, PersistCompare, Stands, Goto
<1> HIDE DEF s, r
<1>c. disk # Nothing => Monotonic(disk, r.tracker) BY DEF PersistCompare, r
<1>f. r.fence \subseteq r.trust.revoked
  BY <1>1, <1>4, <1>c DEF ProcInv, TrustInv, Monotonic, Revoked, Persisting
<1>5. TrustInv(p, s, disk, lock)
  BY <1>1, <1>4, <1>c, <1>f DEF ProcInv, TrustInv, Persisting, Relying
<1>6. PullInv(s, content) BY <1>1, <1>4 DEF ProcInv, PullInv, Relying
<1>7. PublishInv(p, s, blobs) BY <1>1, <1>4 DEF ProcInv, PublishInv
<1>8. ProcInv(p, s, disk, lock, content, blobs) BY <1>3, <1>5, <1>6, <1>7 DEF ProcInv
<1> QED BY <1>2, <1>8, OneMoves DEF PersistCompare, world, service, ClientInv

\* The checkpoint is replaced, and not by an older one.
LEMMA PersistRenameKeeps ==
    ASSUME ClientInv, NEW p \in Procs, PersistRename(p) PROVE ClientInv'
<1> DEFINE r == proc[p]
           s == [r EXCEPT !.pc = "confirm"]
<1>1. ProcInv(p, r, disk, lock, content, blobs) BY DEF ClientInv
<1>2. proc' = [proc EXCEPT ![p] = s] BY DEF PersistRename, Goto
<1>3. s \in ProcState
  BY <1>1 DEF ProcInv, ProcState, Places, Persisting
<1>4. /\ r.pc = "rename"
      /\ s.pc = "confirm" /\ s.stage = r.stage /\ s.last = r.last /\ s.request = r.request
      /\ s.tracker = r.tracker /\ s.trust = r.trust /\ s.m = r.m /\ s.until = r.until
      /\ s.fence = r.fence /\ s.since = r.since
  BY <1>1 DEF ProcInv, ProcState, PersistRename, Stands, Goto
<1>d. disk' = r.tracker BY DEF PersistRename
<1> HIDE DEF s, r
<1>a. /\ lock = p /\ r.tracker \in Trackers /\ Sound(r.tracker) /\ r.tracker # Nothing
      /\ disk # Nothing => Monotonic(disk, r.tracker)
  BY <1>1, <1>4 DEF ProcInv, ProcState, TrustInv, Persisting
<1>5. TrustInv(p, s, r.tracker, lock)
  BY <1>1, <1>4, <1>a DEF ProcInv, TrustInv, Persisting, Relying, Revoked
<1>6. PullInv(s, content) BY <1>1, <1>4 DEF ProcInv, PullInv, Relying
<1>7. PublishInv(p, s, blobs) BY <1>1, <1>4 DEF ProcInv, PublishInv
<1>8. ProcInv(p, s, r.tracker, lock, content, blobs) BY <1>3, <1>5, <1>6, <1>7 DEF ProcInv
<1> QED BY <1>2, <1>8, OneMoves, <1>a, <1>d DEF PersistRename, world, service, ClientInv

\* What was committed is read back, and may be relied on.
LEMMA PersistConfirmKeeps ==
    ASSUME ClientInv, NEW p \in Procs, PersistConfirm(p) PROVE ClientInv'
<1> DEFINE r == proc[p]
           s == [r EXCEPT !.pc = (CASE r.stage = "pull" -> "manifest"
                                    [] r.stage = "release" -> "fence"
                                    [] OTHER -> "authorize"), !.since = {content}]
<1>1. ProcInv(p, r, disk, lock, content, blobs) BY DEF ClientInv
<1>2. proc' = [proc EXCEPT ![p] = s] BY DEF PersistConfirm
<1>a. content \in Contents BY DEF ClientInv
<1>3. s \in ProcState
  BY <1>1, <1>a DEF ProcInv, ProcState, Places, Relying
<1>4. /\ r.pc = "confirm"
      /\ s.pc = (CASE r.stage = "pull" -> "manifest"
                   [] r.stage = "release" -> "fence"
                   [] OTHER -> "authorize")
      /\ s.since = {content} /\ s.stage = r.stage /\ s.last = r.last
      /\ s.request = r.request /\ s.tracker = r.tracker /\ s.trust = r.trust /\ s.m = r.m
      /\ s.until = r.until /\ s.fence = r.fence
  BY <1>1 DEF ProcInv, ProcState, PersistConfirm, Stands
<1> HIDE DEF s, r
<1>d. disk = r.tracker BY DEF PersistConfirm, r
<1>b. r.tracker \in Trackers /\ r.tracker # Nothing /\ r.tracker.bundle = r.trust
      /\ r.trust.epoch \in Nat
  BY <1>1, <1>4, ClientAssumption DEF ProcInv, ProcState, TrustInv, Persisting, Trackers, ClientBounds
<1>5. TrustInv(p, s, disk, lock')
  BY <1>1, <1>4, <1>d, <1>b DEF ProcInv, TrustInv, Persisting, Relying
<1>6. PullInv(s, content) BY <1>1, <1>4 DEF ProcInv, PullInv, Relying
<1>7. PublishInv(p, s, blobs) BY <1>1, <1>4 DEF ProcInv, PublishInv
<1>8. ProcInv(p, s, disk, lock', content, blobs) BY <1>3, <1>5, <1>6, <1>7 DEF ProcInv
<1> QED BY <1>2, <1>8, OneMoves DEF PersistConfirm, world, service, ClientInv

\* The manifest is verified under the bundle.
LEMMA FetchManifestKeeps ==
    ASSUME ClientInv, NEW p \in Procs, NEW m \in Manifests \cup shared, FetchManifest(p, m) PROVE ClientInv'
<1> DEFINE r == proc[p]
           s == [r EXCEPT !.pc = "decrypt", !.m = m]
<1>1. ProcInv(p, r, disk, lock, content, blobs) BY DEF ClientInv
<1>2. proc' = [proc EXCEPT ![p] = s] BY DEF FetchManifest
<1>a. m \in Manifests \cup MyManifests BY DEF ClientInv
<1>3. s \in ProcState
  BY <1>1, <1>a DEF ProcInv, ProcState, Places, Relying
<1>4. /\ r.pc = "manifest"
      /\ s.pc = "decrypt" /\ s.m = m /\ s.stage = r.stage /\ s.last = r.last
      /\ s.request = r.request /\ s.tracker = r.tracker /\ s.trust = r.trust
      /\ s.until = r.until /\ s.fence = r.fence /\ s.since = r.since
  BY <1>1 DEF ProcInv, ProcState, FetchManifest, Stands
<1> HIDE DEF s, r
<1>5. TrustInv(p, s, disk, lock)
  BY <1>1, <1>4 DEF ProcInv, TrustInv, Persisting, Relying
<1>6. PullInv(s, content) BY <1>1, <1>4, <1>a DEF ProcInv, PullInv, Relying
<1>7. PublishInv(p, s, blobs) BY <1>1, <1>4 DEF ProcInv, PublishInv
<1>8. ProcInv(p, s, disk, lock, content, blobs) BY <1>3, <1>5, <1>6, <1>7 DEF ProcInv
<1> QED BY <1>2, <1>8, OneMoves DEF FetchManifest, world, service, ClientInv

\* The plaintext is produced and quarantined; the fence is what the disk revokes.
LEMMA DecryptKeeps ==
    ASSUME ClientInv, NEW p \in Procs, NEW now \in Time, Decrypt(p, now) PROVE ClientInv'
<1> DEFINE r == proc[p]
           s == [r EXCEPT !.pc = "trust", !.stage = "release", !.last = now, !.until = Smaller(r.m.expires, r.trust.expires), !.fence = Revoked(disk)]
<1>1. ProcInv(p, r, disk, lock, content, blobs) BY DEF ClientInv
<1>2. proc' = [proc EXCEPT ![p] = s] BY DEF Decrypt
<1>n. now \in Nat BY ClientAssumption DEF ClientBounds, Time
<1>a. r.m \in Manifests \cup MyManifests /\ r.trust \in Bundles
  BY <1>1 DEF ProcInv, PullInv, TrustInv, ProcState, Trackers, Relying, Decrypt, Stands
<1>b. r.m.expires \in Nat /\ r.trust.expires \in Nat
  BY <1>a, ClientAssumption DEF ClientBounds, MyManifests
<1>u. /\ Smaller(r.m.expires, r.trust.expires) \in Nat
      /\ Smaller(r.m.expires, r.trust.expires) <= r.m.expires
  BY <1>b DEF Smaller
<1>f. Revoked(disk) \subseteq Revocations BY DEF Revoked, Revocations, ClientInv, Trackers
<1>3. s \in ProcState
  BY <1>1, <1>n, <1>u, <1>f DEF ProcInv, ProcState, Places, Stages
<1>4. /\ r.pc = "decrypt"
      /\ s.pc = "trust" /\ s.stage = "release" /\ s.last = now
      /\ s.until = Smaller(r.m.expires, r.trust.expires) /\ s.fence = Revoked(disk)
      /\ s.request = r.request /\ s.tracker = r.tracker /\ s.trust = r.trust /\ s.m = r.m
      /\ s.since = r.since
  BY <1>1 DEF ProcInv, ProcState, Decrypt, Stands
<1> HIDE DEF s, r
<1>5. TrustInv(p, s, disk, lock)
  BY <1>1, <1>4 DEF ProcInv, TrustInv, Persisting, Relying
<1>6. PullInv(s, content) BY <1>1, <1>4, <1>a, <1>u DEF ProcInv, PullInv, Relying
<1>7. PublishInv(p, s, blobs) BY <1>1, <1>4 DEF ProcInv, PublishInv
<1>8. ProcInv(p, s, disk, lock, content, blobs) BY <1>3, <1>5, <1>6, <1>7 DEF ProcInv
<1> QED BY <1>2, <1>8, OneMoves DEF Decrypt, world, service, ClientInv

\* The later bundle authorises the manifest once more.
LEMMA FenceKeeps ==
    ASSUME ClientInv, NEW p \in Procs, Fence(p) PROVE ClientInv'
<1> DEFINE r == proc[p]
           s == [r EXCEPT !.pc = "rebuild", !.until = Smaller(r.until, r.trust.expires)]
<1>1. ProcInv(p, r, disk, lock, content, blobs) BY DEF ClientInv
<1>2. proc' = [proc EXCEPT ![p] = s] BY DEF Fence
<1>a. r.m \in Manifests \cup MyManifests /\ r.trust \in Bundles /\ r.until <= r.m.expires /\ r.until \in Nat
  BY <1>1 DEF ProcInv, PullInv, TrustInv, ProcState, Trackers, Relying, Fence, Stands
<1>b. r.m.expires \in Nat /\ r.trust.expires \in Nat
  BY <1>a, ClientAssumption DEF ClientBounds, MyManifests
<1>u. /\ Smaller(r.until, r.trust.expires) \in Nat
      /\ Smaller(r.until, r.trust.expires) <= r.m.expires
      /\ Smaller(r.until, r.trust.expires) <= r.trust.expires
  BY <1>a, <1>b DEF Smaller
<1>v. {r.m.record, r.m.key[1]} \cap r.trust.revoked = {} /\ r.m.request = r.request
  BY DEF Fence, ManifestVerifies
<1>3. s \in ProcState
  BY <1>1, <1>u DEF ProcInv, ProcState, Places, Relying
<1>4. /\ r.pc = "fence"
      /\ s.pc = "rebuild" /\ s.until = Smaller(r.until, r.trust.expires)
      /\ s.stage = r.stage /\ s.last = r.last /\ s.request = r.request
      /\ s.tracker = r.tracker /\ s.trust = r.trust /\ s.m = r.m /\ s.fence = r.fence
      /\ s.since = r.since
  BY <1>1 DEF ProcInv, ProcState, Fence, Stands
<1> HIDE DEF s, r
<1>5. TrustInv(p, s, disk, lock)
  BY <1>1, <1>4 DEF ProcInv, TrustInv, Persisting, Relying
<1>6. PullInv(s, content) BY <1>1, <1>4, <1>a, <1>u, <1>v DEF ProcInv, PullInv, Relying
<1>7. PublishInv(p, s, blobs) BY <1>1, <1>4 DEF ProcInv, PublishInv
<1>8. ProcInv(p, s, disk, lock, content, blobs) BY <1>3, <1>5, <1>6, <1>7 DEF ProcInv
<1> QED BY <1>2, <1>8, OneMoves DEF Fence, world, service, ClientInv

\* The request is built again.
LEMMA RebuildKeeps ==
    ASSUME ClientInv, NEW p \in Procs, Rebuild(p) PROVE ClientInv'
<1> DEFINE r == proc[p]
           s == [r EXCEPT !.pc = "fresh"]
<1>1. ProcInv(p, r, disk, lock, content, blobs) BY DEF ClientInv
<1>2. proc' = [proc EXCEPT ![p] = s] BY DEF Rebuild, Goto
<1>3. s \in ProcState
  BY <1>1 DEF ProcInv, ProcState, Places, Relying
<1>4. /\ r.pc = "rebuild" /\ r.request = content
      /\ s.pc = "fresh" /\ s.stage = r.stage /\ s.last = r.last /\ s.request = r.request
      /\ s.tracker = r.tracker /\ s.trust = r.trust /\ s.m = r.m /\ s.until = r.until
      /\ s.fence = r.fence /\ s.since = r.since
  BY <1>1 DEF ProcInv, ProcState, Rebuild, Stands, Goto, RequestUnchanged
<1> HIDE DEF s, r
<1>5. TrustInv(p, s, disk, lock)
  BY <1>1, <1>4 DEF ProcInv, TrustInv, Persisting, Relying
<1>6. PullInv(s, content) BY <1>1, <1>4 DEF ProcInv, PullInv, Relying
<1>7. PublishInv(p, s, blobs) BY <1>1, <1>4 DEF ProcInv, PublishInv
<1>8. ProcInv(p, s, disk, lock, content, blobs) BY <1>3, <1>5, <1>6, <1>7 DEF ProcInv
<1> QED BY <1>2, <1>8, OneMoves DEF Rebuild, world, service, ClientInv

\* verify_fresh_for_release, once by the pull and once by run.
LEMMA ReleaseKeeps ==
    ASSUME ClientInv, NEW p \in Procs, NEW now \in Time, Release(p, now) PROVE ClientInv'
<1> DEFINE r == proc[p]
           s == [r EXCEPT !.pc = (IF r.stage = "release" THEN "rebuild" ELSE "hit"), !.last = now, !.stage = "present"]
<1>1. ProcInv(p, r, disk, lock, content, blobs) BY DEF ClientInv
<1>2. proc' = [proc EXCEPT ![p] = s] BY DEF Release
<1>n. now \in Nat BY ClientAssumption DEF ClientBounds, Time
<1>h. (IF r.stage = "release" THEN "rebuild" ELSE "hit") \in Places BY DEF Places, Relying
<1>3. s \in ProcState
  BY <1>1, <1>n, <1>h DEF ProcInv, ProcState, Stages
<1>4. /\ r.pc = "fresh" /\ now < r.until
      /\ s.pc = (IF r.stage = "release" THEN "rebuild" ELSE "hit") /\ s.last = now
      /\ s.stage = "present" /\ s.request = r.request /\ s.tracker = r.tracker
      /\ s.trust = r.trust /\ s.m = r.m /\ s.until = r.until /\ s.fence = r.fence
      /\ s.since = r.since
  BY <1>1 DEF ProcInv, ProcState, Release, Stands
<1> HIDE DEF s, r
<1>5. TrustInv(p, s, disk, lock)
  BY <1>1, <1>4 DEF ProcInv, TrustInv, Persisting, Relying
<1>6. PullInv(s, content) BY <1>1, <1>4 DEF ProcInv, PullInv, Relying
<1>7. PublishInv(p, s, blobs) BY <1>1, <1>4 DEF ProcInv, PublishInv
<1>8. ProcInv(p, s, disk, lock, content, blobs) BY <1>3, <1>5, <1>6, <1>7 DEF ProcInv
<1> QED BY <1>2, <1>8, OneMoves DEF Release, world, service, ClientInv

\* The publisher is authorised, before the capture and after it.
LEMMA AuthorizeKeeps ==
    ASSUME ClientInv, NEW p \in Procs, Authorize(p) PROVE ClientInv'
<1> DEFINE r == proc[p]
           s == [r EXCEPT !.pc = (IF r.stage = "admit" THEN "capture" ELSE "build")]
<1>1. ProcInv(p, r, disk, lock, content, blobs) BY DEF ClientInv
<1>2. proc' = [proc EXCEPT ![p] = s] BY DEF Authorize, Goto
<1>3. s \in ProcState
  BY <1>1 DEF ProcInv, ProcState, Places, Relying
<1>4. /\ r.pc = "authorize" /\ {p, MyKey[1]} \cap r.trust.revoked = {}
      /\ s.pc = (IF r.stage = "admit" THEN "capture" ELSE "build") /\ s.stage = r.stage
      /\ s.last = r.last /\ s.request = r.request /\ s.tracker = r.tracker
      /\ s.trust = r.trust /\ s.m = r.m /\ s.until = r.until /\ s.fence = r.fence
      /\ s.since = r.since
  BY <1>1 DEF ProcInv, ProcState, Authorize, Stands, Goto, Authorizes
<1> HIDE DEF s, r
<1>5. TrustInv(p, s, disk, lock)
  BY <1>1, <1>4 DEF ProcInv, TrustInv, Persisting, Relying
<1>6. PullInv(s, content) BY <1>1, <1>4 DEF ProcInv, PullInv, Relying
<1>7. PublishInv(p, s, blobs) BY <1>1, <1>4 DEF ProcInv, PublishInv
<1>8. ProcInv(p, s, disk, lock, content, blobs) BY <1>3, <1>5, <1>6, <1>7 DEF ProcInv
<1> QED BY <1>2, <1>8, OneMoves DEF Authorize, world, service, ClientInv

\* The command starts on the snapshot.
LEMMA CaptureKeeps ==
    ASSUME ClientInv, NEW p \in Procs, Capture(p) PROVE ClientInv'
<1> DEFINE r == proc[p]
           s == [r EXCEPT !.pc = "captured"]
<1>1. ProcInv(p, r, disk, lock, content, blobs) BY DEF ClientInv
<1>2. proc' = [proc EXCEPT ![p] = s] BY DEF Capture, Goto
<1>3. s \in ProcState
  BY <1>1 DEF ProcInv, ProcState, Places, Relying
<1>4. /\ r.pc = "capture"
      /\ s.pc = "captured" /\ s.stage = r.stage /\ s.last = r.last /\ s.request = r.request
      /\ s.tracker = r.tracker /\ s.trust = r.trust /\ s.m = r.m /\ s.until = r.until
      /\ s.fence = r.fence /\ s.since = r.since
  BY <1>1 DEF ProcInv, ProcState, Capture, Stands, Goto
<1> HIDE DEF s, r
<1>5. TrustInv(p, s, disk, lock)
  BY <1>1, <1>4 DEF ProcInv, TrustInv, Persisting, Relying
<1>6. PullInv(s, content) BY <1>1, <1>4 DEF ProcInv, PullInv, Relying
<1>7. PublishInv(p, s, blobs) BY <1>1, <1>4 DEF ProcInv, PublishInv
<1>8. ProcInv(p, s, disk, lock, content, blobs) BY <1>3, <1>5, <1>6, <1>7 DEF ProcInv
<1> QED BY <1>2, <1>8, OneMoves DEF Capture, world, service, ClientInv

\* The capture is validated; the fence is what the disk revokes.
LEMMA CapturedKeeps ==
    ASSUME ClientInv, NEW p \in Procs, Captured(p) PROVE ClientInv'
<1> DEFINE r == proc[p]
           s == [r EXCEPT !.pc = "trust", !.stage = "publish", !.fence = Revoked(disk)]
<1>1. ProcInv(p, r, disk, lock, content, blobs) BY DEF ClientInv
<1>2. proc' = [proc EXCEPT ![p] = s] BY DEF Captured
<1>f. Revoked(disk) \subseteq Revocations BY DEF Revoked, Revocations, ClientInv, Trackers
<1>3. s \in ProcState
  BY <1>1, <1>f DEF ProcInv, ProcState, Places, Stages
<1>4. /\ r.pc = "captured"
      /\ s.pc = "trust" /\ s.stage = "publish" /\ s.fence = Revoked(disk)
      /\ s.last = r.last /\ s.request = r.request /\ s.tracker = r.tracker
      /\ s.trust = r.trust /\ s.m = r.m /\ s.until = r.until /\ s.since = r.since
  BY <1>1 DEF ProcInv, ProcState, Captured, Stands
<1> HIDE DEF s, r
<1>5. TrustInv(p, s, disk, lock)
  BY <1>1, <1>4 DEF ProcInv, TrustInv, Persisting, Relying
<1>6. PullInv(s, content) BY <1>1, <1>4 DEF ProcInv, PullInv, Relying
<1>7. PublishInv(p, s, blobs) BY <1>1, <1>4 DEF ProcInv, PublishInv
<1>8. ProcInv(p, s, disk, lock, content, blobs) BY <1>3, <1>5, <1>6, <1>7 DEF ProcInv
<1> QED BY <1>2, <1>8, OneMoves DEF Captured, world, service, ClientInv

\* The manifest is signed.
LEMMA BuildKeeps ==
    ASSUME ClientInv, NEW p \in Procs, Build(p) PROVE ClientInv'
<1> DEFINE r == proc[p]
           Mine == [record |-> p, key |-> MyKey, request |-> r.request,
                    created |-> r.last, expires |-> r.last + Lifetime]
           s == [r EXCEPT !.pc = "putStdout", !.m = Mine]
<1>1. ProcInv(p, r, disk, lock, content, blobs) BY DEF ClientInv
<1>2. proc' = [proc EXCEPT ![p] = s] BY DEF Build
<1>a. Mine \in MyManifests /\ Mine.record = p
  BY <1>1, ClientAssumption DEF ProcInv, ProcState, MyManifests, ClientBounds
<1>3. s \in ProcState
  BY <1>1, <1>a DEF ProcInv, ProcState, Places, Relying
<1>4. /\ r.pc = "build"
      /\ s.pc = "putStdout" /\ s.m = Mine /\ s.stage = r.stage /\ s.last = r.last
      /\ s.request = r.request /\ s.tracker = r.tracker /\ s.trust = r.trust
      /\ s.until = r.until /\ s.fence = r.fence /\ s.since = r.since
  BY <1>1 DEF ProcInv, ProcState, Build, Stands
<1> HIDE DEF s, r
<1>5. TrustInv(p, s, disk, lock)
  BY <1>1, <1>4 DEF ProcInv, TrustInv, Persisting, Relying
<1>6. PullInv(s, content) BY <1>1, <1>4 DEF ProcInv, PullInv, Relying
<1>7. PublishInv(p, s, blobs) BY <1>1, <1>4, <1>a DEF ProcInv, PublishInv
<1>8. ProcInv(p, s, disk, lock, content, blobs) BY <1>3, <1>5, <1>6, <1>7 DEF ProcInv
<1> QED BY <1>2, <1>8, OneMoves DEF Build, world, service, ClientInv

\* The ciphertext of stdout is uploaded; the answer may be lost.
LEMMA UploadStdoutKeeps ==
    ASSUME ClientInv, NEW p \in Procs, UploadStdout(p) PROVE ClientInv'
<1>p. PICK lost \in BOOLEAN : Goto(p, IF lost THEN "shown" ELSE "putStderr") BY DEF UploadStdout, Upload
<1> DEFINE r == proc[p]
           s == [r EXCEPT !.pc = (IF lost THEN "shown" ELSE "putStderr")]
<1>1. ProcInv(p, r, disk, lock, content, blobs) BY DEF ClientInv
<1>2. proc' = [proc EXCEPT ![p] = s] BY <1>p DEF Goto
<1>3. s \in ProcState
  BY <1>1 DEF ProcInv, ProcState, Places, Relying
<1>4. /\ r.pc = "putStdout"
      /\ s.pc = (IF lost THEN "shown" ELSE "putStderr") /\ s.stage = r.stage
      /\ s.last = r.last /\ s.request = r.request /\ s.tracker = r.tracker
      /\ s.trust = r.trust /\ s.m = r.m /\ s.until = r.until /\ s.fence = r.fence
      /\ s.since = r.since
  BY <1>1 DEF ProcInv, ProcState, UploadStdout, Stands, Upload
<1> HIDE DEF s, r
<1>b. blobs' = blobs \cup {<<p, "stdout">>} BY DEF UploadStdout, Upload
<1>5. TrustInv(p, s, disk, lock)
  BY <1>1, <1>4 DEF ProcInv, TrustInv, Persisting, Relying
<1>6. PullInv(s, content) BY <1>1, <1>4 DEF ProcInv, PullInv, Relying
<1>7. PublishInv(p, s, blobs') BY <1>1, <1>4, <1>b DEF ProcInv, PublishInv
<1>8. ProcInv(p, s, disk, lock, content, blobs') BY <1>3, <1>5, <1>6, <1>7 DEF ProcInv
<1> QED BY <1>2, <1>8, OneMoves, <1>b DEF UploadStdout, Upload, world, service, ClientInv

\* The ciphertext of stderr is uploaded; the answer may be lost.
LEMMA UploadStderrKeeps ==
    ASSUME ClientInv, NEW p \in Procs, UploadStderr(p) PROVE ClientInv'
<1>p. PICK lost \in BOOLEAN : Goto(p, IF lost THEN "shown" ELSE "putManifest") BY DEF UploadStderr, Upload
<1> DEFINE r == proc[p]
           s == [r EXCEPT !.pc = (IF lost THEN "shown" ELSE "putManifest")]
<1>1. ProcInv(p, r, disk, lock, content, blobs) BY DEF ClientInv
<1>2. proc' = [proc EXCEPT ![p] = s] BY <1>p DEF Goto
<1>3. s \in ProcState
  BY <1>1 DEF ProcInv, ProcState, Places, Relying
<1>4. /\ r.pc = "putStderr"
      /\ s.pc = (IF lost THEN "shown" ELSE "putManifest") /\ s.stage = r.stage
      /\ s.last = r.last /\ s.request = r.request /\ s.tracker = r.tracker
      /\ s.trust = r.trust /\ s.m = r.m /\ s.until = r.until /\ s.fence = r.fence
      /\ s.since = r.since
  BY <1>1 DEF ProcInv, ProcState, UploadStderr, Stands, Upload
<1> HIDE DEF s, r
<1>b. blobs' = blobs \cup {<<p, "stderr">>} BY DEF UploadStderr, Upload
<1>5. TrustInv(p, s, disk, lock)
  BY <1>1, <1>4 DEF ProcInv, TrustInv, Persisting, Relying
<1>6. PullInv(s, content) BY <1>1, <1>4 DEF ProcInv, PullInv, Relying
<1>7. PublishInv(p, s, blobs') BY <1>1, <1>4, <1>b DEF ProcInv, PublishInv
<1>8. ProcInv(p, s, disk, lock, content, blobs') BY <1>3, <1>5, <1>6, <1>7 DEF ProcInv
<1> QED BY <1>2, <1>8, OneMoves, <1>b DEF UploadStderr, Upload, world, service, ClientInv

\* The manifest comes last; the answer may be lost.
LEMMA UploadManifestKeeps ==
    ASSUME ClientInv, NEW p \in Procs, UploadManifest(p) PROVE ClientInv'
<1>p. PICK lost \in BOOLEAN : Goto(p, IF lost THEN "shown" ELSE "published") BY DEF UploadManifest
<1> DEFINE r == proc[p]
           s == [r EXCEPT !.pc = (IF lost THEN "shown" ELSE "published")]
<1>1. ProcInv(p, r, disk, lock, content, blobs) BY DEF ClientInv
<1>2. proc' = [proc EXCEPT ![p] = s] BY <1>p DEF Goto
<1>3. s \in ProcState
  BY <1>1 DEF ProcInv, ProcState, Places, Relying
<1>4. /\ r.pc = "putManifest"
      /\ s.pc = (IF lost THEN "shown" ELSE "published") /\ s.stage = r.stage
      /\ s.last = r.last /\ s.request = r.request /\ s.tracker = r.tracker
      /\ s.trust = r.trust /\ s.m = r.m /\ s.until = r.until /\ s.fence = r.fence
      /\ s.since = r.since
  BY <1>1 DEF ProcInv, ProcState, UploadManifest, Stands
<1>c. shared' = shared \cup {r.m} BY DEF UploadManifest
<1> HIDE DEF s, r
<1>b. /\ r.m \in MyManifests
      /\ {<<r.m.record, "stdout">>, <<r.m.record, "stderr">>} \subseteq blobs
  BY <1>1, <1>4 DEF ProcInv, PublishInv
<1>5. TrustInv(p, s, disk, lock)
  BY <1>1, <1>4 DEF ProcInv, TrustInv, Persisting, Relying
<1>6. PullInv(s, content) BY <1>1, <1>4 DEF ProcInv, PullInv, Relying
<1>7. PublishInv(p, s, blobs) BY <1>1, <1>4 DEF ProcInv, PublishInv
<1>8. ProcInv(p, s, disk, lock, content, blobs) BY <1>3, <1>5, <1>6, <1>7 DEF ProcInv
<1> QED BY <1>2, <1>8, OneMoves, <1>b, <1>c DEF UploadManifest, world, service, ClientInv

\* A process that holds nothing of the checkpoint has nothing to keep.
LEMMA Rested ==
    ASSUME NEW p, NEW s \in ProcState, NEW d, NEW l, NEW c, NEW bl,
           s.pc \in {"load", "local", "shown", "dead"}, s.tracker = Nothing,
           s.fence = {}, s.stage # "release"
    PROVE  ProcInv(p, s, d, l, c, bl)
<1>1. TrustInv(p, s, d, l) BY DEF TrustInv, Persisting, Relying
<1>2. PullInv(s, c) /\ PublishInv(p, s, bl) BY DEF PullInv, PublishInv, Relying
<1> QED BY <1>1, <1>2 DEF ProcInv

\* A refusal or a failure, and a kill: the flock goes with the descriptor.
LEMMA EndKeeps ==
    ASSUME ClientInv, NEW p \in Procs, Fail(p) \/ Kill(p) PROVE ClientInv'
<1>1. PICK x \in {"local", "shown", "dead"} : proc' = [proc EXCEPT ![p] = [Idle EXCEPT !.pc = x]]
  <2>1. CASE Fail(p) BY <2>1 DEF Fail
  <2>2. CASE Kill(p) BY <2>2 DEF Kill
  <2> QED BY <2>1, <2>2
<1> DEFINE s == [Idle EXCEPT !.pc = x]
<1>2. s \in ProcState BY DEF Idle, ProcState, Places, Stages
<1>3. s.pc = x /\ s.tracker = Nothing /\ s.fence = {} /\ s.stage = "pull" BY DEF Idle
<1> HIDE DEF s
<1>4. ProcInv(p, s, disk, lock', content, blobs) BY <1>2, <1>3, Rested
<1>5. /\ lock' = IF lock = p THEN Nothing ELSE lock
      /\ UNCHANGED <<content, disk, blobs, shared>>
  BY DEF Fail, Kill, world, service
<1> QED BY <1>1, <1>4, <1>5, OneMoves DEF ClientInv, s

\* A miss: the publication starts afresh, with the request of admission.
LEMMA MissKeeps ==
    ASSUME ClientInv, NEW p \in Procs, Miss(p) \/ MissBundled(p) PROVE ClientInv'
<1> DEFINE r == proc[p]
           s == Missed(p)
<1>1. r \in ProcState BY DEF ClientInv
<1>2. proc' = [proc EXCEPT ![p] = s] BY DEF Miss, MissBundled
<1>3. s \in ProcState BY <1>1 DEF Missed, Idle, ProcState, Places, Stages
<1>4. s.pc \in {"load", "local"} /\ s.tracker = Nothing /\ s.fence = {} /\ s.stage = "admit"
  BY DEF Missed, Idle
<1> HIDE DEF s
<1>5. ProcInv(p, s, disk, lock, content, blobs) BY <1>3, <1>4, Rested
<1> QED BY <1>2, <1>5, OneMoves DEF Miss, MissBundled, world, service, ClientInv

\* An edit adds the new content to what the workspace held since.
LEMMA EditKeeps ==
    ASSUME ClientInv, NEW c \in Contents, Edit(c) PROVE ClientInv'
<1>1. UNCHANGED <<disk, lock, blobs, shared>> /\ content' = c BY DEF Edit, service
<1>2. ASSUME NEW p \in Procs
      PROVE  proc'[p] \in ProcState /\ ProcInv(p, proc'[p], disk, lock, c, blobs)
  <2> DEFINE r == proc[p]
             s == [r EXCEPT !.since = IF r.since = {} THEN {} ELSE r.since \cup {c}]
  <2>1. ProcInv(p, r, disk, lock, content, blobs) BY DEF ClientInv
  <2>2. proc'[p] = s BY DEF Edit
  <2>3. s \in ProcState BY <2>1 DEF ProcInv, ProcState
  <2>4. /\ s.pc = r.pc /\ s.stage = r.stage /\ s.last = r.last /\ s.request = r.request
        /\ s.tracker = r.tracker /\ s.trust = r.trust /\ s.m = r.m /\ s.until = r.until
        /\ s.fence = r.fence /\ r.since \subseteq s.since /\ (r.since # {} => c \in s.since)
    BY <2>1 DEF ProcInv, ProcState
  <2> HIDE DEF s, r
  <2>5. TrustInv(p, s, disk, lock) BY <2>1, <2>4 DEF ProcInv, TrustInv
  <2>6. PullInv(s, c) BY <2>1, <2>4 DEF ProcInv, PullInv
  <2>7. PublishInv(p, s, blobs) BY <2>1, <2>4 DEF ProcInv, PublishInv
  <2> QED BY <2>2, <2>3, <2>5, <2>6, <2>7 DEF ProcInv
<1>3. proc' \in [Procs -> ProcState] BY <1>2 DEF Edit
<1> QED BY <1>1, <1>2, <1>3 DEF ClientInv

\* ClientInv is inductive: every step of a process, of its death and of an
\* editor keeps it.
LEMMA ClientInvNext == ASSUME ClientInv, [Next]_vars PROVE ClientInv'
<1>1. CASE UNCHANGED vars BY <1>1 DEF vars, ClientInv
<1>2. ASSUME NEW p \in Procs, Pull(p) PROVE ClientInv'
  <2>1. CASE Admit(p) BY <2>1, AdmitKeeps
  <2>2. CASE LoadTracker(p) BY <2>2, LoadTrackerKeeps
  <2>3. CASE MissBundled(p) \/ Miss(p) BY <2>3, MissKeeps
  <2>4. CASE Fence(p) BY <2>4, FenceKeeps
  <2>5. CASE Rebuild(p) BY <2>5, RebuildKeeps
  <2>6. ASSUME NEW b \in Bundles, NEW now \in Time, FetchTrust(p, b, now) PROVE ClientInv'
    BY <2>6, FetchTrustKeeps
  <2>7. ASSUME NEW m \in Manifests \cup shared, FetchManifest(p, m) PROVE ClientInv'
    BY <2>7, FetchManifestKeeps
  <2>8. ASSUME NEW now \in Time, Decrypt(p, now) PROVE ClientInv' BY <2>8, DecryptKeeps
  <2>9. ASSUME NEW now \in Time, Release(p, now) PROVE ClientInv' BY <2>9, ReleaseKeeps
  <2> QED BY <1>2, <2>1, <2>2, <2>3, <2>4, <2>5, <2>6, <2>7, <2>8, <2>9 DEF Pull
<1>3. ASSUME NEW p \in Procs, Persist(p) PROVE ClientInv'
  BY <1>3, PersistLockKeeps, PersistCompareKeeps, PersistRenameKeeps, PersistConfirmKeeps DEF Persist
<1>4. ASSUME NEW p \in Procs, Publish(p) PROVE ClientInv'
  BY <1>4, AuthorizeKeeps, CaptureKeeps, CapturedKeeps, BuildKeeps, UploadStdoutKeeps,
     UploadStderrKeeps, UploadManifestKeeps DEF Publish
<1>5. ASSUME NEW p \in Procs, Fail(p) \/ Kill(p) PROVE ClientInv' BY <1>5, EndKeeps
<1>6. ASSUME NEW c \in Contents, Edit(c) PROVE ClientInv' BY <1>6, EditKeeps
<1> QED BY <1>1, <1>2, <1>3, <1>4, <1>5, <1>6 DEF Next

LEMMA ClientInvAlways == Spec => []ClientInv
BY ClientInit, ClientInvNext, PTL DEF Spec

-----------------------------------------------------------------------------
LEMMA InvImpliesSafe == ClientInv => ClientIsSafe
<1> SUFFICES ASSUME ClientInv PROVE ClientIsSafe OBVIOUS
<1>1. AuthorityIsDurable
  BY DEF AuthorityIsDurable, ClientInv, ProcInv, TrustInv
<1>2. ASSUME NEW p \in Procs, Stands(p, "hit")
      PROVE  /\ {proc[p].m.record, proc[p].m.key[1]} \cap
                   (proc[p].fence \cup proc[p].trust.revoked) = {}
             /\ proc[p].m.request = proc[p].request /\ proc[p].request \in proc[p].since
             /\ proc[p].last < proc[p].m.expires /\ proc[p].last < proc[p].trust.expires
  <2> DEFINE r == proc[p]
  <2>1. ProcInv(p, r, disk, lock, content, blobs) /\ r.pc = "hit" BY <1>2 DEF ClientInv, Stands
  <2> HIDE DEF r
  <2>2. r.fence \subseteq r.trust.revoked /\ r.trust \in Bundles
    BY <2>1 DEF ProcInv, TrustInv, Relying, ProcState, Trackers
  <2>3. /\ {r.m.record, r.m.key[1]} \cap r.trust.revoked = {} /\ r.m \in Manifests \cup MyManifests
        /\ r.m.request = r.request /\ r.request \in r.since
        /\ r.until <= r.m.expires /\ r.until <= r.trust.expires /\ r.last < r.until
    BY <2>1 DEF ProcInv, PullInv
  <2>4. r.last \in Nat /\ r.until \in Nat BY <2>1 DEF ProcInv, ProcState
  <2>5. r.m.expires \in Nat /\ r.trust.expires \in Nat
    BY <2>2, <2>3, ClientAssumption DEF ClientBounds, MyManifests
  <2>6. r.last < r.m.expires /\ r.last < r.trust.expires BY <2>3, <2>4, <2>5
  <2> QED BY <2>2, <2>3, <2>6 DEF r
<1>3. ASSUME NEW p \in Procs, proc[p].pc \in {"putStdout", "putStderr", "putManifest"}
      PROVE  {p, MyKey[1]} \cap (proc[p].fence \cup proc[p].trust.revoked) = {}
  BY <1>3 DEF ClientInv, ProcInv, PublishInv, TrustInv, Relying
<1>4. \A m \in shared : {<<m.record, "stdout">>, <<m.record, "stderr">>} \subseteq blobs
  BY DEF ClientInv
<1> QED BY <1>1, <1>2, <1>3, <1>4 DEF ClientIsSafe, HitIsTrusted, PublicationIsTrusted

\* Only the holder of the flock that has compared replaces the checkpoint.
LEMMA StepAdvances ==
    ASSUME ClientInv, [Next]_vars, disk # Nothing, disk' # disk
    PROVE  /\ disk' # Nothing
           /\ disk'.bundle.epoch >= disk.bundle.epoch
           /\ disk'.bundle.epoch = disk.bundle.epoch => disk'.bundle = disk.bundle
           /\ disk.bundle.revoked \subseteq disk'.bundle.revoked
           /\ \A x \in disk.history, y \in disk'.history : x[1] = y[1] => x = y
<1>1. PICK p \in Procs : PersistRename(p)
  <2>1. ASSUME NEW p \in Procs, Pull(p) \/ Publish(p) \/ Fail(p) \/ Kill(p) PROVE disk' = disk
    BY <2>1 DEF Pull, Publish, Fail, Kill, Admit, LoadTracker, MissBundled, Miss, Fence, Rebuild,
         FetchTrust, FetchManifest, Decrypt, Release, Authorize, Capture, Captured, Build,
         UploadStdout, UploadStderr, UploadManifest, Upload
  <2>2. ASSUME NEW c \in Contents, Edit(c) PROVE disk' = disk BY <2>2 DEF Edit
  <2>3. ASSUME NEW p \in Procs, Persist(p), ~PersistRename(p) PROVE disk' = disk
    BY <2>3 DEF Persist, PersistLock, PersistCompare, PersistConfirm
  <2> QED BY <2>1, <2>2, <2>3 DEF Next, vars
<1>2. /\ disk' = proc[p].tracker /\ proc[p].pc = "rename"
      /\ ProcInv(p, proc[p], disk, lock, content, blobs)
  BY <1>1 DEF PersistRename, Stands, ClientInv
<1>3. Monotonic(disk, disk') /\ disk' # Nothing /\ Sound(disk')
  BY <1>2 DEF ProcInv, TrustInv, Persisting
<1> QED BY <1>3 DEF Monotonic, Sound

\* Whatever a service answers and however often its clock steps or a process
\* dies, a machine presents and publishes only under trust that is on its disk
\* and that no process had seen revoked when the plaintext or the capture was
\* there; and the trust on the disk never goes back (team_pull.rs,
\* team_publish.rs, persist_trust_checkpoint).
THEOREM TeamRunTrusted == Spec => TeamRunIsTrusted
<1>1. Spec => []ClientIsSafe BY ClientInvAlways, InvImpliesSafe, PTL
<1>2. Spec => CheckpointAdvances
  BY ClientInvAlways, StepAdvances, PTL DEF Spec, CheckpointAdvances
<1> QED BY <1>1, <1>2 DEF TeamRunIsTrusted
=============================================================================
