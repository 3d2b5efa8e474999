----------------------------- MODULE TeamClient -----------------------------
(***************************************************************************)
(* The team cache as a machine uses it: `again team run` looks a request    *)
(* up, and on a miss captures and publishes (src/team_cli.rs, team_pull.rs, *)
(* team_publish.rs), with the durable trust checkpoint that all processes   *)
(* share (team_config.rs, trust_bundle.rs).                                 *)
(*                                                                         *)
(* Nothing is assumed of the service: it may answer with any bundle the     *)
(* root has signed and any manifest a producer has signed, new or old.  The *)
(* wall clock may step in both directions and the workspace may be edited   *)
(* at any time.  Digests and signatures are the values they stand for; what *)
(* fails its signature is refused like any other failure.  A process that   *)
(* is refused, or whose network, lock or disk fails, takes Fail.            *)
(***************************************************************************)
EXTENDS Naturals, FiniteSets

CONSTANTS
    Procs,      \* processes, each runs the command once
    Bundled,    \* those whose profile pins the lookup protocol bundle_v1
    Publishers, \* those whose profile may publish
    Contents,   \* what the observed part of the workspace may hold
    Bundles,    \* bundles the root signed: epoch, active, revoked, expires
    Manifests,  \* manifests others signed: record, key, request, created, expires
    MyKey,      \* the key (and producer) of this machine's publisher
    Lifetime,   \* lifetime_seconds of a publication
    MaxTime,    \* bound: wall clock
    MaxEdits,   \* bound: edits of the workspace
    MaxKills,   \* bound: processes that are killed
    Nothing

VARIABLES
    content,    \* the workspace
    edits, kills,
    disk,       \* the checkpoint file: bundle and historical bindings, or Nothing
    lock,       \* who holds the flock of the checkpoint
    proc,       \* where a process stands and what it holds
    blobs,      \* ciphertexts in the service: record and stream
    shared      \* manifests of this machine in the service

vars == <<content, edits, kills, disk, lock, proc, blobs, shared>>

Time == 0..MaxTime

\* A binding is a pair of key id and public key.
Bindings == UNION {b.active : b \in Bundles}
Trackers == [bundle : Bundles, history : SUBSET Bindings]

\* A bundle binds a key id once, and never one that it revokes.
ClientBounds ==
    /\ Nothing \notin Procs \cup Contents \cup Trackers
    /\ \A m \in Manifests : m.created \in Nat /\ m.expires \in Nat
    /\ Bundled \subseteq Procs /\ Publishers \subseteq Procs
    /\ {MaxTime, MaxEdits, MaxKills, Lifetime} \subseteq Nat
    /\ \A b \in Bundles :
         /\ b.epoch \in Nat \ {0} /\ b.expires \in Nat
         /\ \A x, y \in b.active : x[1] = y[1] => x = y
         /\ \A x \in b.active : x[1] \notin b.revoked

ASSUME ClientAssumption == ClientBounds

Idle == [pc |-> "idle", stage |-> "pull", last |-> 0, request |-> Nothing,
         tracker |-> Nothing, trust |-> Nothing, m |-> Nothing, until |-> 0,
         fence |-> {}, since |-> {}]

Init ==
    /\ content \in Contents
    /\ edits = 0 /\ kills = 0
    /\ disk = Nothing /\ lock = Nothing
    /\ proc = [p \in Procs |-> Idle]
    /\ blobs = {} /\ shared = {}

-----------------------------------------------------------------------------
Stands(p, pc) == proc[p].pc = pc
Goto(p, pc) == proc' = [proc EXCEPT ![p].pc = pc]
world == <<content, edits, kills>>
service == <<blobs, shared>>
Smaller(x, y) == IF x < y THEN x ELSE y

\* What a tracker or a checkpoint holds against later bundles
Revoked(t) == IF t = Nothing THEN {} ELSE t.bundle.revoked

\* verify_trust_bundle: fresh, no rollback, no divergence, no binding that
\* contradicts an earlier one, no revocation forgotten.  The bundle may be
\* issued in the future by the permitted skew only: issued is 0 here.
Verifies(t, b, now) ==
    /\ now < b.expires
    /\ t # Nothing =>
         \/ b = t.bundle
         \/ /\ b.epoch > t.bundle.epoch
            /\ \A x \in b.active : /\ x[1] \notin t.bundle.revoked
                                   /\ \A y \in t.history : x[1] = y[1] => x = y
            /\ t.bundle.revoked \subseteq b.revoked

Tracked(t, b) ==
    [bundle |-> b,
     history |-> b.active \cup (IF t = Nothing THEN {} ELSE t.history)]

\* validate_monotonic_state
Monotonic(old, new) ==
    /\ new.bundle.epoch >= old.bundle.epoch
    /\ new.bundle.epoch = old.bundle.epoch => new.bundle = old.bundle
    /\ old.history \subseteq new.history
    /\ old.bundle.revoked \subseteq new.bundle.revoked

\* verify_manifest_for_pull_v2 with the verification context of the bundle
ManifestVerifies(m, b, request, now) ==
    /\ now < b.expires
    /\ m.request = request
    /\ m.created <= now /\ now < m.expires
    /\ {m.record, m.key[1]} \cap b.revoked = {}
    /\ m.key \in b.active

\* authorize_publication_v2
Authorizes(b, record, now) ==
    /\ now < b.expires
    /\ {record, MyKey[1]} \cap b.revoked = {}
    /\ MyKey \in b.active

\* SystemTeamClock: a sample that is earlier than the last one is refused.
Sampled(p, now) == now >= proc[p].last

\* build_team_request_key_v1_with_cache gives the key of admission again.
RequestUnchanged(p) == content = proc[p].request

\* A process is refused or something fails.  Before the command has started
\* the command runs locally; after the capture its output is shown and
\* nothing is published; the flock goes with its descriptor.
Fail(p) ==
    /\ proc[p].pc \notin {"idle", "local", "shown", "hit", "published", "dead"}
    /\ proc' = [proc EXCEPT ![p] =
                  [Idle EXCEPT !.pc = IF Stands(p, "captured") \/ proc[p].stage = "publish"
                                      THEN "shown" ELSE "local"]]
    /\ lock' = IF lock = p THEN Nothing ELSE lock
    /\ UNCHANGED <<world, disk, service>>

\* run: the command is admitted with the request key of the workspace.
Admit(p) ==
    /\ Stands(p, "idle")
    /\ proc' = [proc EXCEPT ![p].pc = "load", ![p].request = content]
    /\ UNCHANGED <<world, disk, lock, service>>

\* load_trust_tracker, by the pull and again by the publication
LoadTracker(p) ==
    /\ Stands(p, "load")
    /\ proc' = [proc EXCEPT ![p].pc = "trust", ![p].tracker = disk]
    /\ UNCHANGED <<world, disk, lock, service>>

\* miss_route: publish, or run the command locally
Missed(p) ==
    [Idle EXCEPT !.pc = IF p \in Publishers THEN "load" ELSE "local",
                 !.stage = "admit", !.request = proc[p].request, !.last = proc[p].last]

\* A trust bundle arrives and is verified against the tracker, which takes it.
\* In the bundled protocol the first one brings the manifest with it.
FetchTrust(p, b, now) ==
    /\ Stands(p, "trust") /\ Sampled(p, now) /\ Verifies(proc[p].tracker, b, now)
    /\ \E m \in IF p \in Bundled /\ proc[p].stage = "pull"
                THEN Manifests \cup shared ELSE {proc[p].m} :
         proc' = [proc EXCEPT ![p].pc = "lock", ![p].last = now, ![p].trust = b, ![p].m = m,
                              ![p].tracker = Tracked(proc[p].tracker, b)]
    /\ UNCHANGED <<world, disk, lock, service>>

\* The bundled lookup answers that there is no manifest.
MissBundled(p) ==
    /\ Stands(p, "trust") /\ p \in Bundled /\ proc[p].stage = "pull"
    /\ proc' = [proc EXCEPT ![p] = Missed(p)]
    /\ UNCHANGED <<world, disk, lock, service>>

-----------------------------------------------------------------------------
(* persist_trust_checkpoint: compare and replace under the flock.           *)

\* Slip: the checkpoint is compared and replaced without the flock
PersistLock_Free(p) ==
    /\ Stands(p, "lock")
    /\ lock' = p
    /\ Goto(p, "compare")
    /\ UNCHANGED <<world, disk, service>>

PersistLock(p) ==
    /\ Stands(p, "lock") /\ lock = Nothing
    /\ lock' = p
    /\ Goto(p, "compare")
    /\ UNCHANGED <<world, disk, service>>

PersistCompare(p) ==
    /\ Stands(p, "compare")
    /\ disk # Nothing => Monotonic(disk, proc[p].tracker)
    /\ Goto(p, "rename")
    /\ UNCHANGED <<world, disk, lock, service>>

\* atomic_write_checkpoint: the staged file is complete when it is renamed.
PersistRename(p) ==
    /\ Stands(p, "rename")
    /\ disk' = proc[p].tracker
    /\ Goto(p, "confirm")
    /\ UNCHANGED <<world, lock, service>>

\* What was committed is read back; the trust may be used from here on.
PersistConfirm(p) ==
    /\ Stands(p, "confirm") /\ disk = proc[p].tracker
    /\ lock' = IF lock = p THEN Nothing ELSE lock
    /\ proc' = [proc EXCEPT ![p].pc = CASE proc[p].stage = "pull" -> "manifest"
                                        [] proc[p].stage = "release" -> "fence"
                                        [] OTHER -> "authorize",
                            ![p].since = {content}]
    /\ UNCHANGED <<world, disk, service>>

-----------------------------------------------------------------------------
(* finish_pull_v2, finish_bundle_pull_v1 and the hit in run.                *)

FetchManifest(p, m) ==
    /\ Stands(p, "manifest") /\ proc[p].m \in {Nothing, m}
    /\ ManifestVerifies(m, proc[p].trust, proc[p].request, proc[p].last)
    /\ proc' = [proc EXCEPT ![p].pc = "decrypt", ![p].m = m]
    /\ UNCHANGED <<world, disk, lock, service>>

Miss(p) ==
    /\ Stands(p, "manifest") /\ p \notin Bundled
    /\ proc' = [proc EXCEPT ![p] = Missed(p)]
    /\ UNCHANGED <<world, disk, lock, service>>

\* The ciphertexts are there: the request is built again, the plaintext is
\* produced, and is quarantined until the next trust bundle has arrived.
Decrypt(p, now) ==
    /\ Stands(p, "decrypt") /\ Sampled(p, now) /\ RequestUnchanged(p)
    /\ ManifestVerifies(proc[p].m, proc[p].trust, proc[p].request, now)
    /\ proc' = [proc EXCEPT ![p].pc = "trust", ![p].stage = "release", ![p].last = now,
                            ![p].until = Smaller(proc[p].m.expires, proc[p].trust.expires),
                            ![p].fence = Revoked(disk)]
    /\ UNCHANGED <<world, disk, lock, service>>

\* verify_manifest_for_pull_v2 with the later bundle, rebind_release_freshness
Fence(p) ==
    /\ Stands(p, "fence")
    /\ ManifestVerifies(proc[p].m, proc[p].trust, proc[p].request, proc[p].last)
    /\ proc[p].last < proc[p].until
    /\ proc' = [proc EXCEPT ![p].pc = "rebuild",
                            ![p].until = Smaller(@, proc[p].trust.expires)]
    /\ UNCHANGED <<world, disk, lock, service>>

\* The request is built once more, by the pull and then by run.
Rebuild(p) ==
    /\ Stands(p, "rebuild") /\ RequestUnchanged(p)
    /\ Goto(p, "fresh")
    /\ UNCHANGED <<world, disk, lock, service>>

\* verify_fresh_for_release; the second time the output is presented.
Release(p, now) ==
    /\ Stands(p, "fresh") /\ Sampled(p, now) /\ now < proc[p].until
    /\ proc' = [proc EXCEPT ![p].last = now,
                            ![p].pc = IF proc[p].stage = "release" THEN "rebuild" ELSE "hit",
                            ![p].stage = "present"]
    /\ UNCHANGED <<world, disk, lock, service>>

-----------------------------------------------------------------------------
(* publish_immutable_remote_v2.                                             *)

\* authorize_publication_v2, before the capture and again after it
Authorize(p) ==
    /\ Stands(p, "authorize") /\ Authorizes(proc[p].trust, p, proc[p].last)
    /\ Goto(p, IF proc[p].stage = "admit" THEN "capture" ELSE "build")
    /\ UNCHANGED <<world, disk, lock, service>>

\* capture_immutable_team_attempt_v1 as its caller sees it: the snapshot has
\* the request's digests and the command starts on it (module ImmutableCapture).
Capture(p) ==
    /\ Stands(p, "capture") /\ RequestUnchanged(p)
    /\ Goto(p, "captured")
    /\ UNCHANGED <<world, disk, lock, service>>

\* The capture is validated: the request is built again, trust is fetched again.
Captured(p) ==
    /\ Stands(p, "captured") /\ RequestUnchanged(p)
    /\ proc' = [proc EXCEPT ![p].pc = "trust", ![p].stage = "publish",
                            ![p].fence = Revoked(disk)]
    /\ UNCHANGED <<world, disk, lock, service>>

\* The request is built again and the manifest is signed.
Build(p) ==
    /\ Stands(p, "build") /\ RequestUnchanged(p)
    /\ proc' = [proc EXCEPT ![p].pc = "putStdout",
                            ![p].m = [record |-> p, key |-> MyKey, request |-> proc[p].request,
                                      created |-> proc[p].last,
                                      expires |-> proc[p].last + Lifetime]]
    /\ UNCHANGED <<world, disk, lock, service>>

\* upload_manifest_last: a PUT may take effect although its answer is lost.
Upload(p, from, stream, to) ==
    /\ Stands(p, from)
    /\ blobs' = blobs \cup {<<p, stream>>}
    /\ \E lost \in BOOLEAN : Goto(p, IF lost THEN "shown" ELSE to)
    /\ UNCHANGED <<world, disk, lock, shared>>

UploadStdout(p) == Upload(p, "putStdout", "stdout", "putStderr")
UploadStderr(p) == Upload(p, "putStderr", "stderr", "putManifest")

UploadManifest(p) ==
    /\ Stands(p, "putManifest")
    /\ shared' = shared \cup {proc[p].m}
    /\ \E lost \in BOOLEAN : Goto(p, IF lost THEN "shown" ELSE "published")
    /\ UNCHANGED <<world, disk, lock, blobs>>

-----------------------------------------------------------------------------
\* The process is killed; the kernel drops its flock.
Kill(p) ==
    /\ kills < MaxKills
    /\ proc[p].pc \notin {"idle", "local", "shown", "hit", "published", "dead"}
    /\ kills' = kills + 1
    /\ proc' = [proc EXCEPT ![p] = [Idle EXCEPT !.pc = "dead"]]
    /\ lock' = IF lock = p THEN Nothing ELSE lock
    /\ UNCHANGED <<content, edits, disk, service>>

Edit(c) ==
    /\ edits < MaxEdits /\ c # content
    /\ edits' = edits + 1
    /\ content' = c
    /\ proc' = [p \in Procs |-> [proc[p] EXCEPT !.since = IF @ = {} THEN {} ELSE @ \cup {c}]]
    /\ UNCHANGED <<kills, disk, lock, service>>

Pull(p) ==
    \/ Admit(p) \/ LoadTracker(p) \/ MissBundled(p) \/ Miss(p) \/ Fence(p) \/ Rebuild(p)
    \/ \E b \in Bundles, now \in Time : FetchTrust(p, b, now)
    \/ \E m \in Manifests \cup shared : FetchManifest(p, m)
    \/ \E now \in Time : Decrypt(p, now) \/ Release(p, now)

Persist(p) ==
    PersistLock(p) \/ PersistCompare(p) \/ PersistRename(p) \/ PersistConfirm(p)

Publish(p) ==
    \/ Authorize(p) \/ Capture(p) \/ Captured(p) \/ Build(p)
    \/ UploadStdout(p) \/ UploadStderr(p) \/ UploadManifest(p)

Next ==
    \/ \E p \in Procs : Pull(p) \/ Persist(p) \/ Publish(p) \/ Fail(p) \/ Kill(p)
    \/ \E c \in Contents : Edit(c)

Spec == Init /\ [][Next]_vars

-----------------------------------------------------------------------------
\* The places where a process relies on a trust bundle it has verified
Relying == {"manifest", "decrypt", "fence", "rebuild", "fresh", "hit", "authorize",
            "capture", "captured", "build", "putStdout", "putStderr", "putManifest"}

\* Trust that anything is authorised with is on the disk before: no process
\* that starts later, after a crash too, accepts less.
AuthorityIsDurable ==
    \A p \in Procs : proc[p].pc \in Relying =>
        /\ disk # Nothing
        /\ disk.bundle.epoch >= proc[p].trust.epoch
        /\ proc[p].trust.revoked \subseteq disk.bundle.revoked

\* A remote output is presented only for the request's own manifest; neither
\* its record nor its key was revoked in what any process of the machine had
\* accepted when the plaintext was produced; the workspace had the request's
\* content after the last trust bundle; and everything was fresh.
HitIsTrusted ==
    \A p \in Procs : Stands(p, "hit") =>
        /\ {proc[p].m.record, proc[p].m.key[1]} \cap
             (proc[p].fence \cup proc[p].trust.revoked) = {}
        /\ proc[p].m.request = proc[p].request /\ proc[p].request \in proc[p].since
        /\ proc[p].last < proc[p].m.expires /\ proc[p].last < proc[p].trust.expires

\* The same for what is published, as of the end of the capture; and a
\* manifest is in the service only together with both its ciphertexts.
PublicationIsTrusted ==
    /\ \A p \in Procs : proc[p].pc \in {"putStdout", "putStderr", "putManifest"} =>
         {p, MyKey[1]} \cap (proc[p].fence \cup proc[p].trust.revoked) = {}
    /\ \A m \in shared : {<<m.record, "stdout">>, <<m.record, "stderr">>} \subseteq blobs

\* The checkpoint never goes back: not its epoch, not a revocation, not a
\* binding, whichever processes write it and die.
CheckpointAdvances ==
    [][disk # Nothing /\ disk' # disk =>
         /\ disk' # Nothing
         /\ disk'.bundle.epoch >= disk.bundle.epoch
         /\ disk'.bundle.epoch = disk.bundle.epoch => disk'.bundle = disk.bundle
         /\ disk.bundle.revoked \subseteq disk'.bundle.revoked
         /\ \A x \in disk.history, y \in disk'.history : x[1] = y[1] => x = y]_vars

ClientIsSafe == AuthorityIsDurable /\ HitIsTrusted /\ PublicationIsTrusted

\* Whatever a service answers and however often its clock steps or a process
\* dies, a machine presents and publishes only under trust that is on its disk
\* and that no process had seen revoked when the plaintext or the capture was
\* there; and the trust on the disk never goes back.
TeamRunIsTrusted == []ClientIsSafe /\ CheckpointAdvances
=============================================================================
