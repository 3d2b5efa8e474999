---------------------------- MODULE MCBackground ----------------------------
(***************************************************************************)
(* Work comes to its end: the tracer's run of a command with vforks and    *)
(* execve, the immutable capture of a command that may hang, ignore every  *)
(* signal or leave descendants, the crons that settle the blobs of the     *)
(* team service, and the deletion of a repository.  The first state picks  *)
(* the instance; the other components stay where they start.  The fairness *)
(* is that of the modules' FairSpec.  The capture is checked to be sound   *)
(* as well.                                                                *)
(***************************************************************************)
EXTENDS ImmutableCapture, Sequences

CONSTANTS t1, t2, t3, u1, p1, del, swp, rec, gc

VARIABLES instance,
    life, calls, plan, tree, result, odd, who,
    blobRow, nextInc, object, puts, cands, queue, manifest, proc, losses,
    repo, nextGen, job, receipt, leases, rows, objects, late, sent, fails,
    writePuts, passes

Shapes ==
    {[call |-> "exit", kind |-> "fork", rel |-> "new"],
     [call |-> "vfork", kind |-> "vfork", rel |-> "new"],
     [call |-> "clone", kind |-> "vfork", rel |-> "shared"],
     [call |-> "execve", kind |-> "fork", rel |-> "new"],
     [call |-> "other", kind |-> "fork", rel |-> "new"],
     [call |-> "exit_group", kind |-> "fork", rel |-> "new"]}

Tracer == INSTANCE TracerSupervisor WITH
    Tids <- {t1, t2, t3}, MaxTasks <- 2, MaxLives <- 3, MaxCalls <- 2, Faults <- FALSE, Guarded <- FALSE,
    outcome <- result
Blobs == INSTANCE TeamBlobs WITH
    Uploaders <- {u1}, Deleters <- {}, Reconcilers <- {rec}, Collectors <- {gc},
    Sweepers <- {swp}, Readers <- {}, Keys <- {},
    MaxIncarnations <- 2, MaxOps <- 1, MaxLoss <- 0, CandidateLimit <- 1
Deletion == INSTANCE TeamRepository WITH
    Writers <- {1}, Removers <- {del}, CronPasses <- {p1}, GraveSweepers <- {swp},
    MaxGen <- 1, MaxPuts <- 1, MaxFails <- 1, ChunksPerLease <- 2,
    writes <- writePuts, worker <- passes

ASSUME Tracer!SupervisorAssumption /\ CaptureBounds
ASSUME Blobs!BlobBounds /\ Deletion!RepositoryBounds

tracerVars == <<life, calls, plan, tree, result, odd, who>>
blobVars == <<blobRow, nextInc, object, puts, cands, queue, manifest, proc, losses>>
repositoryVars == <<repo, nextGen, job, receipt, leases, rows, objects, late, sent,
                    fails, writePuts, passes>>
mcVars == <<instance, vars, tracerVars, blobVars, repositoryVars>>

MCInit ==
    /\ instance \in {"tracer", "capture", "blobs", "deletion"}
    /\ Tracer!Init /\ life[1].tid = t1
    /\ Init /\ Blobs!BlobInit /\ Deletion!RepositoryInit

\* A step A of one of the components
TracerStep(A) ==
    /\ instance = "tracer" /\ A
    /\ UNCHANGED <<instance, vars, blobVars, repositoryVars>>
CaptureStep(A) ==
    /\ instance = "capture" /\ A
    /\ UNCHANGED <<instance, tracerVars, blobVars, repositoryVars>>
BlobStep(A) ==
    /\ instance = "blobs" /\ A
    /\ UNCHANGED <<instance, tracerVars, vars, repositoryVars>>
DeletionStep(A) ==
    /\ instance = "deletion" /\ A
    /\ UNCHANGED <<instance, tracerVars, vars, blobVars>>

MCNext ==
    \/ TracerStep(Tracer!Next) \/ CaptureStep(Next)
    \/ BlobStep(Blobs!BlobNext) \/ DeletionStep(Deletion!RepositoryNext)

\* The kernel and the driving loop go on.
TracerFairness ==
    /\ WF_mcVars(TracerStep(Tracer!Kernel))
    /\ WF_mcVars(TracerStep(Tracer!Driver))

\* The capturing thread goes on, its deadlines pass, and the kernel ends what
\* SIGKILL has been sent to.
CaptureFairness ==
    /\ WF_mcVars(CaptureStep(Thread))
    /\ SF_mcVars(CaptureStep(LoopExpires))
    /\ SF_mcVars(CaptureStep(CleanupExpires))
    /\ \A r \in {1, 2} : WF_mcVars(CaptureStep(KernelEnds(r)))

\* The crons start again and again and from some time on none of their passes
\* is killed; R2 settles every PUT and time passes.
BlobFairness ==
    /\ <>[][instance = "blobs" => \A p \in {rec, gc, swp} : ~Blobs!Killed(p)]_mcVars
    /\ WF_mcVars(BlobStep(Blobs!Reconcile(rec)))
    /\ WF_mcVars(BlobStep(Blobs!CollectPass(gc)))
    /\ WF_mcVars(BlobStep(Blobs!Sweep(swp)))
    /\ SF_mcVars(BlobStep(Blobs!SweepBegin(swp, 1)))
    /\ WF_mcVars(BlobStep(Blobs!PutLands(1) \/ Blobs!PutDropped(1)))
    /\ WF_mcVars(BlobStep(Blobs!Minute)) /\ SF_mcVars(BlobStep(Blobs!Hour))

\* The same for the deletion's pass, which from some time on ends within its lease.
DeletionFairness ==
    /\ <>[][instance = "deletion" => \A p \in {p1, swp} : ~Deletion!PassKilled(p)]_mcVars
    /\ <>[][instance = "deletion" =>
              (Deletion!Elapse => Deletion!Stands(p1, "idle") \/ ~Deletion!OwnsJob(p1))]_mcVars
    /\ WF_mcVars(DeletionStep(Deletion!PassLease(p1) \/ Deletion!PassWork(p1)))
    /\ WF_mcVars(DeletionStep(Deletion!EraseKeys(swp)))
    /\ SF_mcVars(DeletionStep(Deletion!SweepGrave(swp, 1)))
    /\ WF_mcVars(DeletionStep(Deletion!Elapse))
    /\ WF_mcVars(DeletionStep(\E l \in leases : Deletion!ExpireLease(l)))

MCSpec ==
    /\ MCInit /\ [][MCNext]_mcVars
    /\ TracerFairness /\ CaptureFairness /\ BlobFairness /\ DeletionFairness

-----------------------------------------------------------------------------
\* A traced run comes to its end: no task waits for ever for the resumption
\* that the planner owes it.
RunEnds == instance = "tracer" => Tracer!RunEnds

\* A capture comes to its end, whatever the command and its descendants do.
CapturesEnd == instance = "capture" => CaptureEnds

\* The crons leave nothing undone, whichever request died halfway: orphans
\* with a candidate are erased, condemned rows leave, and reservations of
\* uploads that died are finished or collected.  A deletion that was accepted
\* ends, whatever dies on the way, and what arrives after it is erased as well.
CronsFinish == Blobs!CronsFinish /\ Deletion!DeletionFinishes
=============================================================================
