--------------------------- MODULE MCTeamService ---------------------------
(***************************************************************************)
(* The team service on ten instances: uploads of one blob racing deletion   *)
(* and reconciler, or sweeper; collection under manifests; loss and repair; *)
(* a repository that is deleted while writers and overlapping passes of the *)
(* cron are at work, with two generations, and with two pages of objects;   *)
(* trust bundles that arrive out of order, manifests admitted and released  *)
(* while trust changes, and manifests that agree in one of their names.     *)
(* The first state picks the instance; the module extends TeamTrust,        *)
(* TeamRepository and TeamBlobs with all that the instances use.  Variables *)
(* keep their first value where they have no part.                          *)
(***************************************************************************)
EXTENDS TeamTrust, TeamRepository, TeamBlobs, TLC

CONSTANTS u1, u2, del, swp

VARIABLE instance

Race == INSTANCE TeamBlobs WITH
    Collectors <- {}, Sweepers <- {}, Readers <- {}, Keys <- {},
    MaxIncarnations <- 1, MaxLoss <- 0
Swept == INSTANCE TeamBlobs WITH
    Reconcilers <- {}, Collectors <- {}, Readers <- {}, Keys <- {}, MaxLoss <- 0
Collected == INSTANCE TeamBlobs WITH
    Uploaders <- {u1}, Sweepers <- {}, Readers <- {},
    MaxIncarnations <- 1, MaxOps <- 1, MaxLoss <- 0
Lost == INSTANCE TeamBlobs WITH
    Deleters <- {}, Collectors <- {}, Sweepers <- {}, Keys <- {}, MaxIncarnations <- 1
Again == INSTANCE TeamRepository WITH Writers <- {1}, MaxFails <- 0
Pages == INSTANCE TeamRepository WITH CronPasses <- {u1}, MaxGen <- 1

Bundle(e, keys, gone, records) ==
    [epoch |-> e, active |-> keys, revoked |-> gone, records |-> records]
Manifest(q, r) == [request |-> q, record |-> r, key |-> "key", public |-> "old"]
Bindings == {<<"key", "old">>}
FirstBundle == Bundle(1, Bindings, {}, {})
Unordered ==
    {FirstBundle, Bundle(2, {}, {"key"}, {}), Bundle(2, {}, {}, {"r"}),
     Bundle(3, {<<"key", "new">>}, {}, {"r"}), Bundle(3, Bindings, {}, {}),
     Bundle(4, {}, {"key"}, {"r"})}
RecordGone == Bundle(2, Bindings, {}, {"r"})
SignedBundles == Unordered \cup {RecordGone}
SignedManifests == {Manifest("q", "r"), Manifest("q", "s"), Manifest("t", "r")}
Expiring == {FirstBundle, Manifest("q", "r"), Bundle(2, {}, {"key"}, {})}

\* What each instance allows of the above
Orders == INSTANCE TeamTrust WITH
    Trusters <- {"trust", "other"}, Putters <- {}, Getters <- {}, Manifests <- {},
    Bundles <- Unordered, Mortal <- {Bundle(2, {}, {"key"}, {})}, MaxInc <- 1
Trust == INSTANCE TeamTrust WITH
    Trusters <- {"trust"}, Putters <- {"put"},
    Bundles <- {FirstBundle, RecordGone}, Manifests <- {Manifest("q", "r")},
    Mortal <- {FirstBundle, Manifest("q", "r")}
ByRequest == INSTANCE TeamTrust WITH
    Trusters <- {"trust"}, Putters <- {u1, u2}, Getters <- {},
    Bundles <- {FirstBundle}, Manifests <- {Manifest("q", "r"), Manifest("q", "s")},
    Mortal <- {}, MaxInc <- 1
ByRecord == INSTANCE TeamTrust WITH
    Trusters <- {"trust"}, Putters <- {u1, u2}, Getters <- {},
    Bundles <- {FirstBundle}, Manifests <- {Manifest("q", "r"), Manifest("t", "r")},
    Mortal <- {}, MaxInc <- 1

ASSUME BlobBounds /\ Race!BlobBounds /\ Swept!BlobBounds /\ Collected!BlobBounds /\ Lost!BlobBounds
ASSUME RepositoryBounds /\ Again!RepositoryBounds /\ Pages!RepositoryBounds

MCInit ==
    /\ Init /\ RepositoryInit /\ BlobInit
    /\ instance \in {"race", "sweep", "collect", "loss", "again", "pages", "orders", "trust",
                     "request", "record"}

MCNext ==
    /\ UNCHANGED instance
    /\ \/ instance = "race" /\ Race!BlobNext /\ UNCHANGED <<repositoryVars, vars>>
       \/ instance = "sweep" /\ Swept!BlobNext /\ UNCHANGED <<repositoryVars, vars>>
       \/ instance = "collect" /\ Collected!BlobNext /\ UNCHANGED <<repositoryVars, vars>>
       \/ instance = "loss" /\ Lost!BlobNext /\ UNCHANGED <<repositoryVars, vars>>
       \/ instance = "again" /\ Again!RepositoryNext /\ UNCHANGED <<blobVars, vars>>
       \/ instance = "pages" /\ Pages!RepositoryNext /\ UNCHANGED <<blobVars, vars>>
       \/ /\ \/ instance = "orders" /\ Orders!Next
             \/ instance = "trust" /\ Trust!Next
             \/ instance = "request" /\ ByRequest!Next
             \/ instance = "record" /\ ByRecord!Next
          /\ UNCHANGED <<blobVars, repositoryVars>>

allVars == <<instance, blobVars, repositoryVars, vars>>
MCSpec == MCInit /\ [][MCNext]_allVars

\* Uploads, puts of manifests and overlapping passes are interchangeable
Symmetry == Permutations({u1, u2})
============================================================================
