----------------------------- MODULE TeamTrust -----------------------------
(***************************************************************************)
(* Who may put and who may get: signed trust, producer keys and manifests   *)
(* of one repository generation in the team service (service/src/index.ts,  *)
(* trust.ts and the triggers of service/migrations).                        *)
(*                                                                         *)
(* A handler reads root, head, key, blobs and rows in separate statements   *)
(* with WebCrypto and R2 between them, and every await is a step here.  A   *)
(* trust bundle, a manifest and their digests are one value each, and the   *)
(* signatures offered are valid: a false one is refused before anything is  *)
(* written.  A lease that is lost ends a call between any two of its steps  *)
(* (module TeamRepository); blobs come and go as module TeamBlobs has it.   *)
(***************************************************************************)
EXTENDS Naturals

CONSTANTS
    Trusters, Putters, Getters,  \* calls: PUT trust, PUT manifest, GET
    Bundles,    \* bundles the root signs: epoch, active, revoked, records
    Manifests,  \* manifests producers sign: id, request, record, key, public
    Mortal,     \* bundles and manifests that can expire
    MaxInc,     \* bound: incarnations of the blob
    Nothing

VARIABLES
    root,       \* trust_root_keys: not disabled
    head,       \* trust_heads: the stored bundle, or Nothing
    history,    \* trust_key_history: the bindings of every stored bundle
    revoked,    \* trust_revoked_keys and trust_revoked_records
    producer,   \* producer_keys: public key and revocation, by key id
    row,        \* manifests: body, state and the bundle it was admitted under
    blob,       \* the blob the manifests name: incarnation, ready
    expired,    \* what unixepoch() has passed
    call,       \* where a call stands and what it has read
    diverged    \* stored bodies that a conflict was reported for (ghost)

tables == <<root, head, history, revoked, producer, row, blob, expired>>
vars == <<tables, call, diverged>>

Calls == Trusters \cup Putters \cup Getters
Requests == {m.request : m \in Manifests}
KeyIds == {m.key : m \in Manifests}
KeysOf(b) == {a[1] : a \in b.active}

\* parseTrustBundle: at most one binding for a key id, none of them revoked.
TrustBounds ==
    /\ MaxInc \in Nat \ {0}
    /\ Nothing \notin Bundles \cup Manifests
    /\ \A m \in Manifests : m.public # Nothing
    /\ Trusters \cap Putters = {} /\ Trusters \cap Getters = {} /\ Putters \cap Getters = {}
    /\ \A b \in Bundles :
         /\ b.epoch \in Nat \ {0}
         /\ \A x, y \in b.active : x[1] = y[1] => x = y
         /\ KeysOf(b) \cap b.revoked = {}
    /\ Mortal \subseteq Bundles \cup Manifests

ASSUME TrustAssumption == TrustBounds

NoKey == [public |-> Nothing, revoked |-> FALSE]
NoRow == [body |-> Nothing, state |-> "none", trust |-> Nothing]
Idle == [pc |-> "idle", arg |-> Nothing, key |-> NoKey, row |-> NoRow,
         trust |-> Nothing, inc |-> 0]

Init ==
    /\ root = TRUE
    /\ head = Nothing
    /\ history = {}
    /\ revoked = [keys |-> {}, records |-> {}]
    /\ producer = [k \in KeyIds |-> NoKey]
    /\ row = [r \in Requests |-> NoRow]
    /\ blob = [inc |-> 1, ready |-> TRUE]
    /\ expired = {}
    /\ call = [c \in Calls |-> Idle]
    /\ diverged = {}

-----------------------------------------------------------------------------
At(c, pc) == call[c].pc = pc
Goto(c, pc) == call' = [call EXCEPT ![c].pc = pc]
Return(c) == call' = [call EXCEPT ![c] = Idle]

Fresh(x) == x \notin expired
Active(k, public) == producer[k] = [public |-> public, revoked |-> FALSE]

\* The head is still this bundle, fresh, and its root is enabled.
Current(b) == head = b /\ b # Nothing /\ Fresh(b) /\ root

\* A call that answers with an error, loses its lease or is killed.
GiveUp(c) ==
    /\ call[c] # Idle
    /\ Return(c)
    /\ UNCHANGED <<tables, diverged>>

-----------------------------------------------------------------------------
(* putTrustBundle.                                                          *)

BeginTrust(c, b) ==
    /\ At(c, "idle")
    /\ Fresh(b)
    /\ call' = [call EXCEPT ![c].pc = "root", ![c].arg = b]
    /\ UNCHANGED <<tables, diverged>>

ReadRoot(c) ==
    /\ At(c, "root")
    /\ root
    /\ Goto(c, "previous")
    /\ UNCHANGED <<tables, diverged>>

\* assertMonotonicTrustBundle, against the head that was read
Monotonic(old, b) ==
    /\ b.epoch >= old.epoch
    /\ \A x \in b.active, y \in old.active : x[1] = y[1] => x = y
    /\ KeysOf(b) \cap old.revoked = {}
    /\ old.revoked \subseteq b.revoked
    /\ old.records \subseteq b.records

ReadPrevious(c) ==
    LET b == call[c].arg
    IN  /\ At(c, "previous")
        /\ \/ head = Nothing /\ Goto(c, "commit")
           \/ /\ head # Nothing
              /\ \/ head.epoch = b.epoch /\ head = b /\ Fresh(b) /\ Goto(c, "acknowledge")
                 \/ head.epoch < b.epoch /\ Monotonic(head, b) /\ Goto(c, "commit")
        /\ UNCHANGED <<tables, diverged>>

\* The triggers of trust_heads: the head at the commit, and what every head
\* before it bound and revoked.
Admits(b) ==
    /\ root /\ Fresh(b)
    /\ head # Nothing => head.epoch <= b.epoch /\ (head.epoch = b.epoch => head = b)
    /\ revoked.keys \subseteq b.revoked /\ revoked.records \subseteq b.records
    /\ KeysOf(b) \cap revoked.keys = {}
    /\ \A x \in b.active, y \in history : x[1] = y[1] => x = y

CommitTrust(c) ==
    LET b == call[c].arg
    IN  /\ At(c, "commit")
        /\ Admits(b)
        /\ head' = b
        /\ history' = history \cup b.active
        /\ revoked' = [keys |-> revoked.keys \cup b.revoked,
                       records |-> revoked.records \cup b.records]
        /\ Return(c)
        /\ UNCHANGED <<root, producer, row, blob, expired, diverged>>

\* requireTrustHeadCurrentForAck
AckTrust(c) ==
    /\ At(c, "acknowledge")
    /\ Current(call[c].arg)
    /\ Return(c)
    /\ UNCHANGED <<tables, diverged>>

-----------------------------------------------------------------------------
(* putProducer and revokeProducer: one batch decides.                       *)

PutProducer(k, public) ==
    /\ producer[k] = NoKey
    /\ producer' = [producer EXCEPT ![k].public = public]
    /\ UNCHANGED <<root, head, history, revoked, row, blob, expired, call, diverged>>

RevokeProducer(k) ==
    /\ producer[k] # NoKey /\ ~producer[k].revoked
    /\ producer' = [producer EXCEPT ![k].revoked = TRUE]
    /\ UNCHANGED <<root, head, history, revoked, row, blob, expired, call, diverged>>

-----------------------------------------------------------------------------
(* putManifest.                                                             *)

\* authorizeEncryptedManifestWithCurrentTrust, after it read a fresh head.  A
\* digest that one of its four allowlists lacks ends the call (GiveUp).  The
\* public key is compared by the callers that put; where a row is read again
\* it follows from the key history.
Authorizes(b, m) ==
    /\ m.record \notin b.records
    /\ m.key \notin b.revoked
    /\ <<m.key, m.public>> \in b.active

BeginPut(c, m) ==
    /\ At(c, "idle")
    /\ Fresh(m)
    /\ call' = [call EXCEPT ![c] = [Idle EXCEPT !.pc = "authorize", !.arg = m,
                                                !.key = producer[m.key]]]
    /\ UNCHANGED <<tables, diverged>>

AuthorizePut(c) ==
    LET m == call[c].arg
    IN  /\ At(c, "authorize")
        /\ Current(head) /\ Authorizes(head, m)
        /\ call[c].key = [public |-> m.public, revoked |-> FALSE]
        /\ call' = [call EXCEPT ![c].pc = "blobs", ![c].trust = head]
        /\ UNCHANGED <<tables, diverged>>

\* requireReadyBlob
CheckBlobs(c) ==
    /\ At(c, "blobs")
    /\ blob.ready
    /\ Goto(c, "request")
    /\ UNCHANGED <<tables, diverged>>

\* handleManifestExisting: the same body is acknowledged, another one is
\* quarantined if it is still there.
HandleExisting(c, found) ==
    /\ found.body = call[c].arg => found.state = "ready"
    /\ call' = [call EXCEPT ![c].row = found, ![c].key = producer[found.body.key],
         ![c].pc = IF found.body = call[c].arg THEN "acknowledge" ELSE "quarantine"]

SameRecord(m) == {r \in Requests : row[r] # NoRow /\ row[r].body.record = m.record}

\* manifestRow by request key, then by record id; also after a lost race
FindExisting(c) ==
    LET m == call[c].arg
    IN  /\ At(c, "request") \/ At(c, "raced")
        /\ \/ row[m.request] # NoRow /\ HandleExisting(c, row[m.request])
           \/ /\ row[m.request] = NoRow
              /\ Goto(c, IF At(c, "request") THEN "record" ELSE "racedRecord")
        /\ UNCHANGED <<tables, diverged>>

FindRecord(c) ==
    LET m == call[c].arg
    IN  /\ At(c, "record") \/ At(c, "racedRecord")
        /\ \/ \E r \in SameRecord(m) :
                 call' = [call EXCEPT ![c].pc = "quarantine", ![c].row = row[r]]
           \/ SameRecord(m) = {} /\ At(c, "record") /\ Goto(c, "commit")
        /\ UNCHANGED <<tables, diverged>>

\* The guards and the triggers of the insert
Insertable(m, b) == Fresh(m) /\ Active(m.key, m.public) /\ blob.ready /\ Current(b)

\* Whatever fails, a lost answer included, is looked up again, unless the error
\* is one that the handler knows (GiveUp).
CommitPut(c) ==
    LET m == call[c].arg
    IN  /\ At(c, "commit")
        /\ \/ /\ Insertable(m, call[c].trust)
              /\ row[m.request] = NoRow /\ SameRecord(m) = {}
              /\ row' = [row EXCEPT ![m.request] =
                           [body |-> m, state |-> "ready", trust |-> call[c].trust]]
              /\ Return(c) \/ Goto(c, "raced")
           \/ Goto(c, "raced") /\ UNCHANGED row
        /\ UNCHANGED <<root, head, history, revoked, producer, blob, expired, diverged>>

\* requireManifestReadyForAck
AckPut(c) ==
    LET m == call[c].arg
    IN  /\ At(c, "acknowledge")
        /\ row[m.request].body = m /\ row[m.request].state = "ready"
        /\ Fresh(m) /\ blob.ready
        /\ Active(m.key, call[c].key.public)
        /\ row[m.request].trust.epoch <= call[c].trust.epoch
        /\ Current(call[c].trust)
        /\ Return(c)
        /\ UNCHANGED <<tables, diverged>>

\* quarantineManifestConflict; nothing changes when the row is not as read
Conflicting(r, found) == row[r].state = "ready" /\ row[r].body = found.body

Quarantine(c) ==
    LET r == call[c].row.body.request
    IN  /\ At(c, "quarantine")
        /\ row' = IF Conflicting(r, call[c].row)
                    THEN [row EXCEPT ![r].state = "quarantined"] ELSE row
        /\ diverged' = IF row[r].body = call[c].row.body
                         THEN diverged \cup {<<r, row[r].body>>} ELSE diverged
        /\ Return(c)
        /\ UNCHANGED <<root, head, history, revoked, producer, blob, expired>>

-----------------------------------------------------------------------------
(* deleteManifest, cleanupManifests, and what happens elsewhere: the root    *)
(* is disabled by hand, time passes, the blob is lost or uploaded again.     *)

DeleteManifest(r) ==
    /\ row[r].state \in {"ready", "quarantined"}
    /\ row' = [row EXCEPT ![r].state = "deleted"]
    /\ UNCHANGED <<root, head, history, revoked, producer, blob, expired, call, diverged>>

CleanupManifests(r) ==
    /\ row[r] # NoRow
    /\ row[r].state = "deleted" \/ ~Fresh(row[r].body)
    /\ row' = [row EXCEPT ![r] = NoRow]
    /\ diverged' = {d \in diverged : d[1] # r}
    /\ UNCHANGED <<root, head, history, revoked, producer, blob, expired, call>>

DisableRoot ==
    /\ root
    /\ root' = FALSE
    /\ UNCHANGED <<head, history, revoked, producer, row, blob, expired, call, diverged>>

Expire(x) ==
    /\ Fresh(x)
    /\ expired' = expired \cup {x}
    /\ UNCHANGED <<root, head, history, revoked, producer, row, blob, call, diverged>>

\* A blob that fails its check is quarantined also under a manifest; its
\* digest is uploaded anew only after no manifest holds it.
ChangeBlob ==
    /\ \/ blob.ready /\ blob' = [blob EXCEPT !.ready = FALSE]
       \/ /\ ~blob.ready /\ blob.inc < MaxInc
          /\ \A r \in Requests : row[r].state \in {"none", "deleted"}
          /\ blob' = [inc |-> blob.inc + 1, ready |-> TRUE]
    /\ UNCHANGED <<root, head, history, revoked, producer, row, expired, call, diverged>>

-----------------------------------------------------------------------------
(* getManifest and getLookupBundle.                                          *)

\* loadReusableManifestCandidate: the row with its key, the blobs, the head
BeginGet(c, r, route) ==
    /\ At(c, "idle")
    /\ row[r].state = "ready"
    /\ call' = [call EXCEPT ![c] = [Idle EXCEPT !.pc = "stored", !.arg = route,
                  !.row = row[r], !.key = producer[row[r].body.key]]]
    /\ UNCHANGED <<tables, diverged>>

ReadBlobs(c) ==
    /\ At(c, "stored")
    /\ blob.ready
    /\ Fresh(call[c].row.body)
    /\ call' = [call EXCEPT ![c].pc = "trust", ![c].inc = blob.inc]
    /\ UNCHANGED <<tables, diverged>>

AuthorizeGet(c) ==
    /\ At(c, "trust")
    /\ Current(head) /\ Authorizes(head, call[c].row.body)
    /\ ~call[c].key.revoked
    /\ call' = [call EXCEPT ![c].trust = head,
                   ![c].pc = IF call[c].arg = "bundle" THEN "objects" ELSE "fence"]
    /\ UNCHANGED <<tables, diverged>>

\* getLookupBundle: the objects of the incarnations that were read, which R2
\* may still hold after the row has gone
ReadObjects(c) ==
    /\ At(c, "objects")
    /\ Goto(c, "reauthorize")
    /\ UNCHANGED <<tables, diverged>>

\* authorizeBundleCandidate
Reauthorize(c) ==
    /\ At(c, "reauthorize")
    /\ Current(head) /\ Authorizes(head, call[c].row.body)
    /\ call' = [call EXCEPT ![c].pc = "verify", ![c].trust = head]
    /\ UNCHANGED <<tables, diverged>>

\* requireVerifiedTrustHeadForBundle
VerifyHead(c) ==
    /\ At(c, "verify")
    /\ Current(call[c].trust)
    /\ Goto(c, "fence")
    /\ UNCHANGED <<tables, diverged>>

\* Slip: the last join asks for a fresh head, not for the one that was verified.
Releasable_Fresh(c) ==
    LET m == call[c].row.body
    IN  /\ row[m.request].body = m /\ row[m.request].state = "ready" /\ Fresh(m)
        /\ Active(m.key, call[c].key.public)
        /\ blob.ready
        /\ call[c].arg = "bundle" =>
             row[m.request].trust = call[c].row.trust /\ blob.inc = call[c].inc
        /\ Current(head)

\* The last join: everything that was read is still as it was read.
Releasable(c) ==
    LET m == call[c].row.body
    IN  /\ row[m.request].body = m /\ row[m.request].state = "ready" /\ Fresh(m)
        /\ Active(m.key, call[c].key.public)
        /\ blob.ready
        /\ call[c].arg = "bundle" =>
             row[m.request].trust = call[c].row.trust /\ blob.inc = call[c].inc
        /\ Current(call[c].trust)

Release(c) ==
    /\ At(c, "fence")
    /\ Releasable(c)
    /\ Goto(c, "released")
    /\ UNCHANGED <<tables, diverged>>

\* getTrustBundle
GetTrust(c) ==
    /\ At(c, "idle")
    /\ Current(head)
    /\ call' = [call EXCEPT ![c].pc = "current", ![c].trust = head]
    /\ UNCHANGED <<tables, diverged>>

ReleaseTrust(c) ==
    /\ At(c, "current")
    /\ Current(call[c].trust)
    /\ Return(c)
    /\ UNCHANGED <<tables, diverged>>

Next ==
    \/ \E c \in Trusters : \/ \E b \in Bundles : BeginTrust(c, b)
                           \/ ReadRoot(c) \/ ReadPrevious(c) \/ CommitTrust(c) \/ AckTrust(c)
    \/ \E m \in Manifests : PutProducer(m.key, m.public)
    \/ \E k \in KeyIds : RevokeProducer(k)
    \/ \E c \in Putters : \/ \E m \in Manifests : BeginPut(c, m)
                          \/ AuthorizePut(c) \/ CheckBlobs(c) \/ FindExisting(c)
                          \/ FindRecord(c) \/ CommitPut(c) \/ AckPut(c) \/ Quarantine(c)
    \/ \E c \in Getters : \/ \E r \in Requests, route \in {"manifest", "bundle"} :
                               BeginGet(c, r, route)
                          \/ ReadBlobs(c) \/ AuthorizeGet(c) \/ ReadObjects(c)
                          \/ Reauthorize(c) \/ VerifyHead(c) \/ Release(c)
                          \/ GetTrust(c) \/ ReleaseTrust(c)
    \/ \E c \in Calls : GiveUp(c)
    \/ \E r \in Requests : DeleteManifest(r) \/ CleanupManifests(r)
    \/ DisableRoot \/ ChangeBlob
    \/ \E x \in Mortal : Expire(x)

Spec == Init /\ [][Next]_vars

-----------------------------------------------------------------------------
\* Revocations and bindings are for good: whatever order bundles arrive in
\* and whatever they dropped in between, the head revokes all that any head
\* before it revoked, and a key id never means two public keys.
TrustIsCumulative ==
    /\ \A x, y \in history : x[1] = y[1] => x = y
    /\ head # Nothing =>
         /\ revoked.keys \subseteq head.revoked /\ revoked.records \subseteq head.records
         /\ KeysOf(head) \cap revoked.keys = {}

\* Every stored manifest was authorized by the bundle it names, and that
\* bundle was the head: its key is bound to the public key that signed it.
RowsWereTrusted ==
    \A r \in Requests : row[r] # NoRow =>
      LET m == row[r].body
      IN  /\ Authorizes(row[r].trust, m) /\ row[r].trust.epoch <= head.epoch
          /\ <<m.key, m.public>> \in history /\ producer[m.key].public = m.public

\* Divergence picks no winner: a body reported to conflict while it was stored
\* is not served again before its row is cleaned up, whoever deleted it, put
\* it again or found it by its record in the meantime.
DivergenceCloses ==
    \A d \in diverged : ~(row[d[1]].state = "ready" /\ row[d[1]].body = d[2])

TrustIsSound == TrustIsCumulative /\ RowsWereTrusted /\ DivergenceCloses

\* The head moves to later epochs only, and an epoch has one body.
EpochStep == head # Nothing => head' = head \/ (head' # Nothing /\ head.epoch < head'.epoch)

\* A manifest enters the table only if the head of that moment authorizes it
\* and its key is active, although both were read many awaits before.
AdmissionStep ==
    \A r \in Requests : row[r] = NoRow /\ row'[r] # NoRow =>
      LET m == row'[r].body
      IN  Current(head) /\ Authorizes(head, m) /\ Active(m.key, m.public)

\* What is released is, at that moment, ready, signed by an active key and
\* authorized by a current head, nothing of it was ever revoked, and the bytes
\* are those of the incarnation the row holds.
ReleaseStep ==
    \A c \in Getters : ~At(c, "released") /\ call'[c].pc = "released" =>
      LET m == call[c].row.body
      IN  /\ row[m.request].body = m /\ row[m.request].state = "ready" /\ Fresh(m)
          /\ Current(head) /\ Authorizes(head, m)
          /\ m.key \notin revoked.keys /\ m.record \notin revoked.records
          /\ Active(m.key, m.public)
          /\ blob.ready /\ (call[c].arg = "bundle" => blob.inc = call[c].inc)

TrustStep == EpochStep /\ AdmissionStep /\ ReleaseStep

\* Trust is checked when it matters: whatever order bundles arrive in, what
\* was revoked stays revoked and a key id keeps its key; a manifest is stored,
\* and its bytes are released, only under the head of that very moment; and a
\* body that a conflict was reported for is not served.
ReleasesAreTrusted == []TrustIsSound /\ [][TrustStep]_vars
=============================================================================
