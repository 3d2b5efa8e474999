------------------------- MODULE TeamServiceProofs -------------------------
(***************************************************************************)
(* ReleasesAreTrusted of TeamTrust, for any calls, bundles and manifests,  *)
(* GenerationsAreApart of TeamRepository, and BlobsAreSafe of TeamBlobs.   *)
(*                                                                         *)
(* ReleasesAreTrusted.                                                     *)
(* What a call carries from one await to the next is enough by itself:     *)
(* CallInv says that the bundle it holds authorizes the manifest it holds, *)
(* which no other call can undo.  What the tables hold is TablesInv: the   *)
(* head is cumulative, rows were authorized by a head, and a divergent     *)
(* body is closed until its row is gone.  At the commit and at the release *)
(* the fences compare the bundle with the head, and the two meet.          *)
(***************************************************************************)
EXTENDS TeamTrust, TeamRepository, TeamBlobs, FiniteSetTheorems, WellFoundedInduction, TLAPS

Publics == {m.public : m \in Manifests}
States == {"ready", "quarantined", "deleted"}
KeyRow == [public : Publics \cup {Nothing}, revoked : BOOLEAN]
ManifestRow == [body : Manifests, state : States, trust : Bundles] \cup {NoRow}

TrustPlaces == {"root", "previous", "commit", "acknowledge"}
Authorized == {"blobs", "request", "record", "raced", "racedRecord", "commit",
               "acknowledge", "quarantine"}
Cleared == {"objects", "reauthorize", "verify", "fence", "released"}

TrusterInv(k) ==
    /\ k.pc \in {"idle"} \cup TrustPlaces
    /\ k.pc # "idle" => k.arg \in Bundles

PutterInv(k) ==
    /\ k.pc \in {"idle", "authorize"} \cup Authorized
    /\ k.pc # "idle" => k.arg \in Manifests
    /\ k.pc \in Authorized => k.trust \in Bundles /\ Authorizes(k.trust, k.arg)
    /\ k.pc = "quarantine" => k.row.body \in Manifests

GetterInv(k) ==
    /\ k.pc \in {"idle", "stored", "trust", "current"} \cup Cleared
    /\ k.pc \in {"stored", "trust"} \cup Cleared => k.row.body \in Manifests
    /\ k.pc \in Cleared => k.trust \in Bundles /\ Authorizes(k.trust, k.row.body)

CallRow == [pc : {"idle", "authorize", "stored", "trust", "current"} \cup TrustPlaces
                   \cup Authorized \cup Cleared,
            arg : Bundles \cup Manifests \cup {"manifest", "bundle", Nothing},
            key : KeyRow, row : ManifestRow, trust : Bundles \cup {Nothing}, inc : Nat]

\* What a call holds, whatever the tables hold
CallInv ==
    /\ call \in [Calls -> CallRow]
    /\ \A c \in Trusters : TrusterInv(call[c])
    /\ \A c \in Putters : PutterInv(call[c])
    /\ \A c \in Getters : GetterInv(call[c])

\* The head says all that any head before it said
HeadInv(h, H, R) ==
    /\ h \in Bundles \cup {Nothing}
    /\ \A x, y \in H : x[1] = y[1] => x = y
    /\ h # Nothing =>
         /\ h.active \subseteq H
         /\ R.keys \subseteq h.revoked /\ R.records \subseteq h.records
         /\ KeysOf(h) \cap R.keys = {}

\* A row of the table was authorized by a head, and its key is bound
RowInv(r, x, h, H, P) ==
    x # NoRow =>
      /\ x.body.request = r
      /\ h # Nothing /\ x.trust.epoch <= h.epoch
      /\ Authorizes(x.trust, x.body)
      /\ <<x.body.key, x.body.public>> \in H
      /\ P[x.body.key].public = x.body.public

\* A divergent body has a row, which does not serve it
Closed(d, T) ==
    /\ T[d[1]] # NoRow
    /\ ~(T[d[1]].state = "ready" /\ T[d[1]].body = d[2])

TablesInv ==
    /\ root \in BOOLEAN /\ blob \in [inc : Nat, ready : BOOLEAN]
    /\ producer \in [KeyIds -> KeyRow]
    /\ row \in [Requests -> ManifestRow]
    /\ diverged \subseteq Requests \X Manifests
    /\ HeadInv(head, history, revoked)
    /\ \A r \in Requests : RowInv(r, row[r], head, history, producer)
    /\ \A d \in diverged : Closed(d, row)

TrustInv == CallInv /\ TablesInv

-----------------------------------------------------------------------------
\* A call keeps to its own route
CallFits(c, k) ==
    /\ k \in CallRow
    /\ c \in Trusters => TrusterInv(k)
    /\ c \in Putters => PutterInv(k)
    /\ c \in Getters => GetterInv(k)

LEMMA EmptyRows == NoRow.state = "none" /\ NoRow.body = Nothing /\ NoKey.public = Nothing
BY DEF NoRow, NoKey

LEMMA InitInv == Init => TrustInv
<1> SUFFICES ASSUME Init PROVE TrustInv OBVIOUS
<1>1. Idle \in CallRow BY DEF Idle, CallRow, KeyRow, ManifestRow, NoKey, NoRow
<1>2. call \in [Calls -> CallRow] BY <1>1 DEF Init
<1>3. \A c \in Calls : call[c].pc = "idle" BY DEF Init, Idle
<1>4. CallInv
  BY <1>2, <1>3 DEF CallInv, Calls, TrusterInv, PutterInv, GetterInv, TrustPlaces, Authorized, Cleared
<1>5. HeadInv(head, history, revoked) BY DEF Init, HeadInv
<1>6. TablesInv BY <1>5 DEF Init, TablesInv, RowInv, Closed, KeyRow, ManifestRow, NoKey
<1> QED BY <1>4, <1>6 DEF TrustInv

\* One call moves, and not to the release
LEMMA OneCall ==
  ASSUME CallInv, NEW c \in Calls, NEW k, CallFits(c, k), k.pc # "released",
         call' = [call EXCEPT ![c] = k]
  PROVE  CallInv' /\ ReleaseStep
<1>1. call' \in [Calls -> CallRow] BY DEF CallInv, CallFits
<1>2. \A d \in Calls : call'[d] = IF d = c THEN k ELSE call[d] BY DEF CallInv
<1>3. \A d \in Trusters : TrusterInv(call'[d]) BY <1>2 DEF CallInv, CallFits, Calls
<1>4. \A d \in Putters : PutterInv(call'[d]) BY <1>2 DEF CallInv, CallFits, Calls
<1>5. \A d \in Getters : GetterInv(call'[d]) BY <1>2 DEF CallInv, CallFits, Calls
<1>6. ReleaseStep BY <1>2 DEF ReleaseStep, At, Calls
<1> QED BY <1>1, <1>3, <1>4, <1>5, <1>6 DEF CallInv

LEMMA QuietCalls ==
  ASSUME CallInv, UNCHANGED call
  PROVE  CallInv' /\ ReleaseStep
BY DEF CallInv, ReleaseStep, At

LEMMA QuietTables ==
  ASSUME TablesInv, UNCHANGED <<tables, diverged>>
  PROVE  TablesInv' /\ EpochStep /\ AdmissionStep
BY DEF TablesInv, tables, EpochStep, AdmissionStep

\* A call returns, or gives up
LEMMA ReturnFits == \A c \in Calls : CallFits(c, Idle) /\ Idle.pc # "released"
BY TrustAssumption DEF CallFits, Idle, CallRow, KeyRow, ManifestRow, NoKey, NoRow, TrusterInv, PutterInv,
   GetterInv, TrustPlaces, Authorized, Cleared

-----------------------------------------------------------------------------
(* Steps that change no table.                                             *)

\* What a step of a call needs to keep both invariants
LEMMA CallStep ==
  ASSUME TrustInv, NEW c \in Calls, NEW k, CallFits(c, k), k.pc # "released",
         call' = [call EXCEPT ![c] = k], UNCHANGED <<tables, diverged>>
  PROVE  TrustInv' /\ TrustStep
BY OneCall, QuietTables DEF TrustInv, TrustStep

LEMMA TrusterSteps ==
  ASSUME TrustInv, NEW c \in Trusters,
         (\E b \in Bundles : BeginTrust(c, b)) \/ ReadRoot(c) \/ ReadPrevious(c) \/ AckTrust(c)
  PROVE  TrustInv' /\ TrustStep
<1>0. /\ c \in Calls /\ c \notin Putters /\ c \notin Getters
      /\ call \in [Calls -> CallRow] /\ call[c] \in CallRow /\ TrusterInv(call[c])
  BY TrustAssumption DEF TrustBounds, Calls, TrustInv, CallInv
<1>1. CASE \E b \in Bundles : BeginTrust(c, b)
  <2> PICK b \in Bundles : BeginTrust(c, b) BY <1>1
  <2> DEFINE k == [call[c] EXCEPT !.pc = "root", !.arg = b]
  <2>1. call' = [call EXCEPT ![c] = k] BY <1>0 DEF BeginTrust
  <2>2. k \in CallRow /\ k.pc = "root" /\ k.arg = b BY <1>0 DEF CallRow, TrustPlaces
  <2>3. CallFits(c, k) BY <1>0, <2>2 DEF CallFits, TrusterInv, TrustPlaces
  <2> HIDE DEF k
  <2> QED BY <1>0, <2>1, <2>2, <2>3, CallStep DEF BeginTrust
<1>2. ASSUME NEW p \in TrustPlaces, Goto(c, p), call[c].pc # "idle", UNCHANGED <<tables, diverged>>
      PROVE  TrustInv' /\ TrustStep
  <2> DEFINE k == [call[c] EXCEPT !.pc = p]
  <2>1. call' = [call EXCEPT ![c] = k] BY <1>0, <1>2 DEF Goto
  <2>2. k \in CallRow /\ k.pc = p /\ k.arg = call[c].arg BY <1>0, <1>2 DEF CallRow
  <2>3. CallFits(c, k) /\ k.pc # "released" BY <1>0, <1>2, <2>2 DEF CallFits, TrusterInv, TrustPlaces
  <2> HIDE DEF k
  <2> QED BY <1>0, <1>2, <2>1, <2>3, CallStep
<1>3. CASE ReadRoot(c) BY <1>2, <1>3 DEF ReadRoot, At, TrustPlaces
<1>4. CASE ReadPrevious(c) BY <1>2, <1>4 DEF ReadPrevious, At, TrustPlaces
<1>5. CASE AckTrust(c) BY <1>0, <1>5, CallStep, ReturnFits DEF AckTrust, Return
<1> QED BY <1>1, <1>3, <1>4, <1>5

LEMMA GiveUpStep ==
  ASSUME TrustInv, NEW c \in Calls, GiveUp(c)
  PROVE  TrustInv' /\ TrustStep
BY CallStep, ReturnFits DEF GiveUp, Return

LEMMA PutterSteps ==
  ASSUME TrustInv, NEW c \in Putters,
         \/ \E m \in Manifests : BeginPut(c, m)
         \/ AuthorizePut(c) \/ CheckBlobs(c) \/ FindExisting(c) \/ FindRecord(c) \/ AckPut(c)
  PROVE  TrustInv' /\ TrustStep
<1>0. /\ c \in Calls /\ c \notin Trusters /\ c \notin Getters
      /\ call \in [Calls -> CallRow] /\ call[c] \in CallRow /\ PutterInv(call[c])
  BY TrustAssumption DEF TrustBounds, Calls, TrustInv, CallInv
<1>t. /\ head \in Bundles \cup {Nothing} /\ producer \in [KeyIds -> KeyRow]
      /\ row \in [Requests -> ManifestRow] /\ Nothing \notin Bundles \cup Manifests
  BY TrustAssumption DEF TrustBounds, TrustInv, TablesInv, HeadInv
<1>n. \A r \in Requests : row[r] # NoRow => row[r].body \in Manifests
  BY <1>t DEF ManifestRow
<1>1. CASE \E m \in Manifests : BeginPut(c, m)
  <2> PICK m \in Manifests : BeginPut(c, m) BY <1>1
  <2> DEFINE k == [Idle EXCEPT !.pc = "authorize", !.arg = m, !.key = producer[m.key]]
  <2>1. call' = [call EXCEPT ![c] = k] BY DEF BeginPut
  <2>2. producer[m.key] \in KeyRow BY <1>t DEF KeyIds
  <2>3. k \in CallRow /\ k.pc = "authorize" /\ k.arg = m
    BY <2>2 DEF CallRow, Idle, KeyRow, ManifestRow, NoRow, NoKey
  <2>4. CallFits(c, k) BY <1>0, <2>3 DEF CallFits, PutterInv, Authorized
  <2> HIDE DEF k
  <2> QED BY <1>0, <2>1, <2>3, <2>4, CallStep DEF BeginPut
<1>2. CASE AuthorizePut(c)
  <2> DEFINE k == [call[c] EXCEPT !.pc = "blobs", !.trust = head]
  <2>1. call' = [call EXCEPT ![c] = k] BY <1>0, <1>2 DEF AuthorizePut
  <2>2. k \in CallRow /\ k.pc = "blobs" /\ k.arg = call[c].arg /\ k.trust = head
    BY <1>0, <1>t DEF CallRow, Authorized
  <2>3. head \in Bundles /\ Authorizes(head, call[c].arg) /\ call[c].arg \in Manifests
    BY <1>0, <1>t, <1>2 DEF AuthorizePut, Current, At, PutterInv
  <2>4. CallFits(c, k) BY <1>0, <2>2, <2>3 DEF CallFits, PutterInv, Authorized
  <2> HIDE DEF k
  <2> QED BY <1>0, <1>2, <2>1, <2>2, <2>4, CallStep DEF AuthorizePut
<1>3. ASSUME NEW p \in Authorized \ {"quarantine"}, Goto(c, p), call[c].pc \in Authorized,
             UNCHANGED <<tables, diverged>>
      PROVE  TrustInv' /\ TrustStep
  <2> DEFINE k == [call[c] EXCEPT !.pc = p]
  <2>1. call' = [call EXCEPT ![c] = k] BY <1>0, <1>3 DEF Goto
  <2>2. k \in CallRow /\ k.pc = p /\ k.arg = call[c].arg /\ k.trust = call[c].trust
    BY <1>0, <1>3 DEF CallRow
  <2>3. CallFits(c, k) /\ k.pc # "released"
    BY <1>0, <1>3, <2>2 DEF CallFits, PutterInv, Authorized
  <2> HIDE DEF k
  <2> QED BY <1>0, <1>3, <2>1, <2>3, CallStep
<1>4. CASE CheckBlobs(c) BY <1>3, <1>4 DEF CheckBlobs, At, Authorized
<1>5. CASE FindExisting(c)
  <2> DEFINE m == call[c].arg
  <2>1. call[c].pc \in Authorized /\ m \in Manifests /\ UNCHANGED <<tables, diverged>>
    BY <1>0, <1>5 DEF FindExisting, At, Authorized, PutterInv
  <2>2. CASE row[m.request] # NoRow /\ HandleExisting(c, row[m.request])
    <3> DEFINE found == row[m.request]
               p == IF found.body = m THEN "acknowledge" ELSE "quarantine"
               k == [call[c] EXCEPT !.row = found, !.key = producer[found.body.key], !.pc = p]
    <3>1. found \in ManifestRow /\ found.body \in Manifests BY <1>t, <1>n, <2>1, <2>2 DEF Requests
    <3>2. producer[found.body.key] \in KeyRow BY <1>t, <3>1 DEF KeyIds
    <3>3. call' = [call EXCEPT ![c] = k] BY <1>0, <2>2 DEF HandleExisting
    <3>4. k \in CallRow /\ k.pc = p /\ k.arg = m /\ k.trust = call[c].trust /\ k.row = found
      BY <1>0, <3>1, <3>2 DEF CallRow, Authorized
    <3>5. CallFits(c, k) /\ k.pc # "released"
      BY <1>0, <2>1, <3>1, <3>4 DEF CallFits, PutterInv, Authorized
    <3> HIDE DEF k
    <3> QED BY <1>0, <2>1, <3>3, <3>5, CallStep
  <2>3. CASE Goto(c, IF At(c, "request") THEN "record" ELSE "racedRecord")
    BY <1>3, <2>1, <2>3 DEF Authorized
  <2> QED BY <1>5, <2>2, <2>3 DEF FindExisting
<1>6. CASE FindRecord(c)
  <2> DEFINE m == call[c].arg
  <2>1. call[c].pc \in Authorized /\ m \in Manifests /\ UNCHANGED <<tables, diverged>>
    BY <1>0, <1>6 DEF FindRecord, At, Authorized, PutterInv
  <2>2. ASSUME NEW r \in SameRecord(m), call' = [call EXCEPT ![c].pc = "quarantine", ![c].row = row[r]]
        PROVE  TrustInv' /\ TrustStep
    <3> DEFINE k == [call[c] EXCEPT !.pc = "quarantine", !.row = row[r]]
    <3>1. row[r] \in ManifestRow /\ row[r].body \in Manifests BY <1>t, <1>n DEF SameRecord
    <3>2. call' = [call EXCEPT ![c] = k] BY <1>0, <2>2
    <3>3. k \in CallRow /\ k.pc = "quarantine" /\ k.arg = m /\ k.trust = call[c].trust /\ k.row = row[r]
      BY <1>0, <3>1 DEF CallRow, Authorized
    <3>4. CallFits(c, k) BY <1>0, <2>1, <3>1, <3>3 DEF CallFits, PutterInv, Authorized
    <3> HIDE DEF k
    <3> QED BY <1>0, <2>1, <3>2, <3>3, <3>4, CallStep
  <2>3. CASE Goto(c, "commit") BY <1>3, <2>1, <2>3 DEF Authorized
  <2> QED BY <1>6, <2>2, <2>3 DEF FindRecord
<1>7. CASE AckPut(c) BY <1>0, <1>7, CallStep, ReturnFits DEF AckPut, Return
<1> QED BY <1>1, <1>2, <1>4, <1>5, <1>6, <1>7

\* A getter takes the head for the bundle it relies on
TakeHead(c, p) == call' = [call EXCEPT ![c].pc = p, ![c].trust = head]

LEMMA GetterSteps ==
  ASSUME TrustInv, NEW c \in Getters,
         \/ \E r \in Requests, route \in {"manifest", "bundle"} : BeginGet(c, r, route)
         \/ ReadBlobs(c) \/ AuthorizeGet(c) \/ ReadObjects(c) \/ Reauthorize(c)
         \/ VerifyHead(c) \/ GetTrust(c) \/ ReleaseTrust(c)
  PROVE  TrustInv' /\ TrustStep
<1>0. /\ c \in Calls /\ c \notin Trusters /\ c \notin Putters
      /\ call \in [Calls -> CallRow] /\ call[c] \in CallRow /\ GetterInv(call[c])
  BY TrustAssumption DEF TrustBounds, Calls, TrustInv, CallInv
<1>t. /\ head \in Bundles \cup {Nothing} /\ producer \in [KeyIds -> KeyRow]
      /\ row \in [Requests -> ManifestRow] /\ Nothing \notin Bundles \cup Manifests
      /\ blob.inc \in Nat
  BY TrustAssumption DEF TrustBounds, TrustInv, TablesInv, HeadInv
<1>1. CASE \E r \in Requests, route \in {"manifest", "bundle"} : BeginGet(c, r, route)
  <2> PICK r \in Requests, route \in {"manifest", "bundle"} : BeginGet(c, r, route) BY <1>1
  <2> DEFINE k == [Idle EXCEPT !.pc = "stored", !.arg = route,
                               !.row = row[r], !.key = producer[row[r].body.key]]
  <2>1. call' = [call EXCEPT ![c] = k] BY DEF BeginGet
  <2>a. row[r].state = "ready" /\ row[r] # NoRow BY EmptyRows DEF BeginGet
  <2>2. row[r] \in ManifestRow /\ row[r].body \in Manifests BY <1>t, <2>a DEF ManifestRow
  <2>3. producer[row[r].body.key] \in KeyRow BY <1>t, <2>2 DEF KeyIds
  <2>4. k \in CallRow /\ k.pc = "stored" /\ k.row = row[r]
    BY <2>2, <2>3 DEF CallRow, Idle
  <2>5. CallFits(c, k) BY <1>0, <2>2, <2>4 DEF CallFits, GetterInv, Cleared
  <2> HIDE DEF k
  <2> QED BY <1>0, <2>1, <2>4, <2>5, CallStep DEF BeginGet
<1>2. CASE ReadBlobs(c)
  <2> DEFINE k == [call[c] EXCEPT !.pc = "trust", !.inc = blob.inc]
  <2>1. call' = [call EXCEPT ![c] = k] BY <1>0, <1>2 DEF ReadBlobs
  <2>2. k \in CallRow /\ k.pc = "trust" /\ k.row = call[c].row BY <1>0, <1>t DEF CallRow
  <2>3. CallFits(c, k) BY <1>0, <1>2, <2>2 DEF CallFits, GetterInv, Cleared, ReadBlobs, At
  <2> HIDE DEF k
  <2> QED BY <1>0, <1>2, <2>1, <2>2, <2>3, CallStep DEF ReadBlobs
<1>3. ASSUME NEW p \in Cleared \ {"released"}, call[c].pc \in {"trust"} \cup Cleared,
             TakeHead(c, p), Current(head), Authorizes(head, call[c].row.body), UNCHANGED <<tables, diverged>>
      PROVE  TrustInv' /\ TrustStep
  <2> DEFINE k == [call[c] EXCEPT !.pc = p, !.trust = head]
  <2>1. call' = [call EXCEPT ![c] = k] BY <1>0, <1>3 DEF TakeHead
  <2>2. k \in CallRow /\ k.pc = p /\ k.row = call[c].row /\ k.trust = head
    BY <1>0, <1>t, <1>3 DEF CallRow
  <2>3. CallFits(c, k) /\ k.pc # "released"
    BY <1>0, <1>t, <1>3, <2>2 DEF CallFits, GetterInv, Cleared, Current
  <2> HIDE DEF k
  <2> QED BY <1>0, <1>3, <2>1, <2>3, CallStep
<1>4. CASE AuthorizeGet(c)
  <2> DEFINE p == IF call[c].arg = "bundle" THEN "objects" ELSE "fence"
  <2>1. TakeHead(c, p) BY <1>0, <1>4 DEF AuthorizeGet, TakeHead
  <2>2. p \in Cleared \ {"released"} BY DEF Cleared
  <2>3. /\ call[c].pc \in {"trust"} \cup Cleared /\ Current(head)
        /\ Authorizes(head, call[c].row.body) /\ UNCHANGED <<tables, diverged>>
    BY <1>4 DEF AuthorizeGet, At
  <2> HIDE DEF p
  <2> QED BY <1>3, <2>1, <2>2, <2>3
<1>5. CASE Reauthorize(c)
  <2>1. TakeHead(c, "verify") BY <1>5 DEF Reauthorize, TakeHead
  <2>2. "verify" \in Cleared \ {"released"} BY DEF Cleared
  <2>3. /\ call[c].pc \in {"trust"} \cup Cleared /\ Current(head)
        /\ Authorizes(head, call[c].row.body) /\ UNCHANGED <<tables, diverged>>
    BY <1>5 DEF Reauthorize, At, Cleared
  <2> QED BY <1>3, <2>1, <2>2, <2>3
<1>6. ASSUME NEW p \in Cleared \ {"released"}, Goto(c, p), call[c].pc \in Cleared,
             UNCHANGED <<tables, diverged>>
      PROVE  TrustInv' /\ TrustStep
  <2> DEFINE k == [call[c] EXCEPT !.pc = p]
  <2>1. call' = [call EXCEPT ![c] = k] BY <1>0, <1>6 DEF Goto
  <2>2. k \in CallRow /\ k.pc = p /\ k.row = call[c].row /\ k.trust = call[c].trust
    BY <1>0, <1>6 DEF CallRow
  <2>3. CallFits(c, k) /\ k.pc # "released" BY <1>0, <1>6, <2>2 DEF CallFits, GetterInv, Cleared
  <2> HIDE DEF k
  <2> QED BY <1>0, <1>6, <2>1, <2>3, CallStep
<1>7. CASE ReadObjects(c) BY <1>6, <1>7 DEF ReadObjects, At, Cleared
<1>8. CASE VerifyHead(c) BY <1>6, <1>8 DEF VerifyHead, At, Cleared
<1>9. CASE GetTrust(c)
  <2> DEFINE k == [call[c] EXCEPT !.pc = "current", !.trust = head]
  <2>1. call' = [call EXCEPT ![c] = k] BY <1>0, <1>9 DEF GetTrust
  <2>2. k \in CallRow /\ k.pc = "current" BY <1>0, <1>t DEF CallRow
  <2>3. CallFits(c, k) BY <1>0, <2>2 DEF CallFits, GetterInv, Cleared
  <2> HIDE DEF k
  <2> QED BY <1>0, <1>9, <2>1, <2>2, <2>3, CallStep DEF GetTrust
<1>10. CASE ReleaseTrust(c) BY <1>0, <1>10, CallStep, ReturnFits DEF ReleaseTrust, Return
<1> QED BY <1>1, <1>2, <1>4, <1>5, <1>7, <1>8, <1>9, <1>10

\* The release: what the fence compares is the head that authorized the call
LEMMA ReleaseSteps ==
  ASSUME TrustInv, NEW c \in Getters, Release(c)
  PROVE  TrustInv' /\ TrustStep
<1>0. /\ c \in Calls /\ c \notin Trusters /\ c \notin Putters
      /\ call \in [Calls -> CallRow] /\ call[c] \in CallRow /\ GetterInv(call[c])
  BY TrustAssumption DEF TrustBounds, Calls, TrustInv, CallInv
<1>1. call[c].pc = "fence" /\ UNCHANGED <<tables, diverged>> BY DEF Release, At
<1> DEFINE k == [call[c] EXCEPT !.pc = "released"]
           m == call[c].row.body
<1>2. call' = [call EXCEPT ![c] = k] BY <1>0 DEF Release, Goto
<1>3. k \in CallRow /\ k.pc = "released" /\ k.row = call[c].row /\ k.trust = call[c].trust
  BY <1>0 DEF CallRow, Cleared
<1>4. GetterInv(k) BY <1>0, <1>1, <1>3 DEF GetterInv, Cleared
<1>5. m \in Manifests /\ call[c].trust \in Bundles /\ Authorizes(call[c].trust, m)
  BY <1>0, <1>1 DEF GetterInv, Cleared
<1> HIDE DEF k
<1>6. \A d \in Calls : call'[d] = IF d = c THEN k ELSE call[d] BY <1>0, <1>2
<1>7. CallInv'
  <2>1. call' \in [Calls -> CallRow] BY <1>0, <1>2, <1>3
  <2>2. \A d \in Trusters : TrusterInv(call'[d]) BY <1>0, <1>6 DEF TrustInv, CallInv, Calls
  <2>3. \A d \in Putters : PutterInv(call'[d]) BY <1>0, <1>6 DEF TrustInv, CallInv, Calls
  <2>4. \A d \in Getters : GetterInv(call'[d]) BY <1>4, <1>6 DEF TrustInv, CallInv, Calls
  <2> QED BY <2>1, <2>2, <2>3, <2>4 DEF CallInv
<1>8. TablesInv' /\ EpochStep /\ AdmissionStep BY <1>1, QuietTables DEF TrustInv
<1>9. /\ row[m.request].body = m /\ row[m.request].state = "ready" /\ Fresh(m)
      /\ Active(m.key, call[c].key.public) /\ blob.ready
      /\ (call[c].arg = "bundle" => blob.inc = call[c].inc)
      /\ Current(call[c].trust)
  BY DEF Release, Releasable
<1>10. m.request \in Requests /\ row[m.request] # NoRow
  BY <1>5, <1>9 DEF Requests, NoRow
<1>11. producer[m.key].public = m.public
  BY <1>9, <1>10 DEF TrustInv, TablesInv, RowInv
<1>12. Active(m.key, m.public)
  <2>1. producer[m.key].public = call[c].key.public BY <1>9 DEF Active
  <2> QED BY <1>9, <1>11, <2>1
<1>13. head = call[c].trust /\ Current(head) /\ Authorizes(head, m) BY <1>5, <1>9 DEF Current
<1>14. m.key \in KeysOf(head) BY <1>13 DEF Authorizes, KeysOf
<1>15. m.key \notin revoked.keys /\ m.record \notin revoked.records
  BY <1>13, <1>14 DEF TrustInv, TablesInv, HeadInv, Authorizes, Current
<1>16. ReleaseStep
  <2> SUFFICES ASSUME NEW d \in Getters, ~At(d, "released"), call'[d].pc = "released"
               PROVE  d = c
    BY <1>9, <1>12, <1>13, <1>15 DEF ReleaseStep
  <2> QED BY <1>6 DEF At, Calls
<1> QED BY <1>7, <1>8, <1>16 DEF TrustInv, TrustStep

-----------------------------------------------------------------------------
(* Steps that change a table.                                              *)

LEMMA CommitTrustStep ==
  ASSUME TrustInv, NEW c \in Trusters, CommitTrust(c)
  PROVE  TrustInv' /\ TrustStep
<1> DEFINE b == call[c].arg
<1>0. c \in Calls BY DEF Calls
<1>1. b \in Bundles /\ Nothing \notin Bundles
  BY TrustAssumption DEF TrustBounds, TrustInv, CallInv, TrusterInv, CommitTrust, At
<1>2. /\ head' = b /\ history' = history \cup b.active
      /\ revoked'.keys = revoked.keys \cup b.revoked
      /\ revoked'.records = revoked.records \cup b.records
      /\ Admits(b) /\ call' = [call EXCEPT ![c] = Idle]
      /\ UNCHANGED <<root, producer, row, blob, expired, diverged>>
  BY DEF CommitTrust, Return
<1>3. CallInv' /\ ReleaseStep BY <1>0, <1>2, OneCall, ReturnFits DEF TrustInv
<1>4. /\ b.epoch \in Nat /\ \A x, y \in b.active : x[1] = y[1] => x = y
      /\ KeysOf(b) \cap b.revoked = {}
  BY <1>1, TrustAssumption DEF TrustBounds
<1>5. HeadInv(head, history, revoked) BY DEF TrustInv, TablesInv
<1>6. HeadInv(head', history', revoked')
  <2>1. \A x, y \in history' : x[1] = y[1] => x = y BY <1>2, <1>4, <1>5 DEF Admits, HeadInv
  <2>2. /\ b.active \subseteq history' /\ revoked'.keys \subseteq b.revoked
        /\ revoked'.records \subseteq b.records /\ KeysOf(b) \cap revoked'.keys = {}
    BY <1>2, <1>4 DEF Admits
  <2> QED BY <1>1, <1>2, <2>1, <2>2 DEF HeadInv
<1>7. head # Nothing => head \in Bundles /\ head.epoch \in Nat /\ head.epoch <= b.epoch
                        /\ (head.epoch = b.epoch => head = b)
  BY <1>2, <1>5, TrustAssumption DEF TrustBounds, HeadInv, Admits
<1>8. \A r \in Requests : row[r] # NoRow => row[r].trust \in Bundles
  BY DEF TrustInv, TablesInv, ManifestRow
<1>9. \A r \in Requests : row[r] # NoRow => row[r].trust.epoch \in Nat
  BY <1>8, TrustAssumption DEF TrustBounds
<1>10. \A r \in Requests : RowInv(r, row'[r], head', history', producer')
  <2> SUFFICES ASSUME NEW r \in Requests, row[r] # NoRow
               PROVE  RowInv(r, row[r], b, history', producer)
    BY <1>2 DEF RowInv
  <2>1. RowInv(r, row[r], head, history, producer) BY DEF TrustInv, TablesInv
  <2>2. head # Nothing /\ row[r].trust.epoch <= head.epoch BY <2>1 DEF RowInv
  <2>3. row[r].trust.epoch <= b.epoch BY <1>4, <1>7, <1>9, <2>2
  <2> QED BY <1>1, <1>2, <2>1, <2>3 DEF RowInv
<1>11. TablesInv' BY <1>2, <1>6, <1>10 DEF TrustInv, TablesInv
<1>12. EpochStep BY <1>1, <1>2, <1>4, <1>7 DEF EpochStep
<1>13. AdmissionStep BY <1>2 DEF AdmissionStep
<1> QED BY <1>3, <1>11, <1>12, <1>13 DEF TrustInv, TrustStep

LEMMA ProducerSteps ==
  ASSUME TrustInv,
         \/ \E m \in Manifests : PutProducer(m.key, m.public)
         \/ \E k \in KeyIds : RevokeProducer(k)
  PROVE  TrustInv' /\ TrustStep
<1>1. UNCHANGED <<root, head, history, revoked, row, blob, expired, call, diverged>>
  BY DEF PutProducer, RevokeProducer
<1>2. CallInv' /\ ReleaseStep BY <1>1, QuietCalls DEF TrustInv
<1>3. EpochStep /\ AdmissionStep BY <1>1 DEF EpochStep, AdmissionStep
<1>4. producer \in [KeyIds -> KeyRow] BY DEF TrustInv, TablesInv
<1>5. /\ producer' \in [KeyIds -> KeyRow]
      /\ \A k \in KeyIds : producer[k].public # Nothing => producer'[k].public = producer[k].public
  <2>1. CASE \E m \in Manifests : PutProducer(m.key, m.public)
    <3> PICK m \in Manifests : PutProducer(m.key, m.public) BY <2>1
    <3>1. m.key \in KeyIds /\ m.public \in Publics BY DEF KeyIds, Publics
    <3> DEFINE n == [producer[m.key] EXCEPT !.public = m.public]
    <3>2. producer' = [producer EXCEPT ![m.key] = n] BY <1>4, <3>1 DEF PutProducer
    <3>3. n \in KeyRow BY <1>4, <3>1 DEF KeyRow
    <3>4. producer[m.key].public = Nothing BY EmptyRows DEF PutProducer
    <3> HIDE DEF n
    <3> QED BY <1>4, <3>1, <3>2, <3>3, <3>4
  <2>2. CASE \E k \in KeyIds : RevokeProducer(k)
    <3> PICK k \in KeyIds : RevokeProducer(k) BY <2>2
    <3> DEFINE n == [producer[k] EXCEPT !.revoked = TRUE]
    <3>1. producer' = [producer EXCEPT ![k] = n] BY <1>4 DEF RevokeProducer
    <3>2. n \in KeyRow /\ n.public = producer[k].public BY <1>4 DEF KeyRow
    <3> HIDE DEF n
    <3> QED BY <1>4, <3>1, <3>2
  <2> QED BY <2>1, <2>2
<1>6. \A r \in Requests : RowInv(r, row'[r], head', history', producer')
  <2> SUFFICES ASSUME NEW r \in Requests, row[r] # NoRow
               PROVE  RowInv(r, row[r], head, history, producer')
    BY <1>1 DEF RowInv
  <2>1. RowInv(r, row[r], head, history, producer) BY DEF TrustInv, TablesInv
  <2>2. row[r].body \in Manifests BY DEF TrustInv, TablesInv, ManifestRow
  <2>3. row[r].body.key \in KeyIds /\ row[r].body.public # Nothing
    BY <2>2, TrustAssumption DEF KeyIds, TrustBounds
  <2> QED BY <1>5, <2>1, <2>3 DEF RowInv
<1>7. TablesInv' BY <1>1, <1>5, <1>6 DEF TrustInv, TablesInv
<1> QED BY <1>2, <1>3, <1>7 DEF TrustInv, TrustStep

\* One row of the manifests changes, with what is reported of it
LEMMA OneRow ==
  ASSUME TablesInv, NEW r \in Requests, NEW x \in ManifestRow,
         row' = [row EXCEPT ![r] = x],
         UNCHANGED <<root, head, history, revoked, producer, blob>>,
         RowInv(r, x, head, history, producer),
         diverged' \subseteq Requests \X Manifests,
         \A d \in diverged' : d[1] = r => x # NoRow /\ ~(x.state = "ready" /\ x.body = d[2]),
         \A d \in diverged' : d[1] # r => d \in diverged
  PROVE  TablesInv' /\ EpochStep
<1>1. row' \in [Requests -> ManifestRow] BY DEF TablesInv
<1>2. \A q \in Requests : row'[q] = IF q = r THEN x ELSE row[q] BY DEF TablesInv
<1>3. \A q \in Requests : RowInv(q, row'[q], head, history, producer) BY <1>2 DEF TablesInv
<1>4. \A d \in diverged' : Closed(d, row')
  <2> SUFFICES ASSUME NEW d \in diverged' PROVE Closed(d, row') OBVIOUS
  <2>1. d[1] \in Requests OBVIOUS
  <2>2. CASE d[1] = r BY <1>2, <2>2 DEF Closed
  <2>3. CASE d[1] # r BY <1>2, <2>1, <2>3 DEF TablesInv, Closed
  <2> QED BY <2>2, <2>3
<1>5. EpochStep BY DEF EpochStep
<1> QED BY <1>1, <1>3, <1>4, <1>5 DEF TablesInv

\* A row that had a body keeps it: no manifest enters the table
LEMMA NothingAdmitted ==
  ASSUME TablesInv, NEW r \in Requests, NEW x, row' = [row EXCEPT ![r] = x],
         row[r] = NoRow => x = NoRow
  PROVE  AdmissionStep
<1>1. \A q \in Requests : row'[q] = IF q = r THEN x ELSE row[q] BY DEF TablesInv
<1> QED BY <1>1 DEF AdmissionStep

LEMMA CommitPutStep ==
  ASSUME TrustInv, NEW c \in Putters, CommitPut(c)
  PROVE  TrustInv' /\ TrustStep
<1> DEFINE m == call[c].arg
           b == call[c].trust
           x == [body |-> m, state |-> "ready", trust |-> b]
<1>0. /\ c \in Calls /\ c \notin Trusters /\ c \notin Getters
      /\ call \in [Calls -> CallRow] /\ call[c] \in CallRow /\ PutterInv(call[c])
  BY TrustAssumption DEF TrustBounds, Calls, TrustInv, CallInv
<1>1. call[c].pc = "commit" /\ m \in Manifests /\ b \in Bundles /\ Authorizes(b, m)
  BY <1>0 DEF CommitPut, At, PutterInv, Authorized
<1>2. UNCHANGED <<root, head, history, revoked, producer, blob, expired, diverged>>
  BY DEF CommitPut
<1> DEFINE k == [call[c] EXCEPT !.pc = "raced"]
<1>3. k \in CallRow /\ k.pc = "raced" /\ k.arg = m /\ k.trust = b
  BY <1>0 DEF CallRow, Authorized
<1>4. CallFits(c, k) BY <1>0, <1>1, <1>3 DEF CallFits, PutterInv, Authorized
<1>5. CASE /\ Insertable(m, b) /\ row[m.request] = NoRow /\ SameRecord(m) = {}
           /\ row' = [row EXCEPT ![m.request] = x] /\ (Return(c) \/ Goto(c, "raced"))
  <2>1. row' = [row EXCEPT ![m.request] = x] /\ call' \in {[call EXCEPT ![c] = Idle], [call EXCEPT ![c] = k]}
    BY <1>0, <1>5 DEF Return, Goto
  <2>2. CallInv' /\ ReleaseStep
    <3> HIDE DEF k
    <3> QED BY <1>0, <1>3, <1>4, <2>1, OneCall, ReturnFits DEF TrustInv
  <2>3. m.request \in Requests /\ x \in ManifestRow
    BY <1>1 DEF Requests, ManifestRow, States
  <2>4. x.body = m /\ x.trust = b /\ x.state = "ready" OBVIOUS
  <2>5. head = b /\ b # Nothing /\ producer[m.key].public = m.public
        /\ Current(head) /\ Active(m.key, m.public)
    BY <1>5 DEF Insertable, Current, Active
  <2>6. <<m.key, m.public>> \in history
    BY <1>1, <2>5 DEF Authorizes, TrustInv, TablesInv, HeadInv
  <2>7. b.epoch \in Nat BY <1>1, TrustAssumption DEF TrustBounds
  <2> HIDE DEF x
  <2>8. RowInv(m.request, x, head, history, producer)
    BY <1>1, <2>4, <2>5, <2>6, <2>7 DEF RowInv
  <2>9. \A d \in diverged : d[1] # m.request BY <1>5 DEF TrustInv, TablesInv, Closed
  <2>10. TablesInv' /\ EpochStep
    BY <1>2, <2>1, <2>3, <2>8, <2>9, OneRow DEF TrustInv, TablesInv
  <2>11. \A q \in Requests : row'[q] = IF q = m.request THEN x ELSE row[q]
    BY <2>1 DEF TrustInv, TablesInv
  <2>12. AdmissionStep BY <1>1, <2>4, <2>5, <2>11 DEF AdmissionStep
  <2> QED BY <2>2, <2>10, <2>12 DEF TrustInv, TrustStep
<1>6. CASE Goto(c, "raced") /\ UNCHANGED row
  <2>1. call' = [call EXCEPT ![c] = k] /\ UNCHANGED <<tables, diverged>>
    BY <1>0, <1>2, <1>6 DEF Goto, tables
  <2> HIDE DEF k
  <2> QED BY <1>0, <1>3, <1>4, <2>1, CallStep
<1> QED BY <1>5, <1>6 DEF CommitPut

LEMMA QuarantineStep ==
  ASSUME TrustInv, NEW c \in Putters, Quarantine(c)
  PROVE  TrustInv' /\ TrustStep
<1> DEFINE body == call[c].row.body
           r == body.request
           x == IF Conflicting(r, call[c].row) THEN [row[r] EXCEPT !.state = "quarantined"] ELSE row[r]
<1>0. c \in Calls /\ PutterInv(call[c]) BY DEF Calls, TrustInv, CallInv
<1>1. body \in Manifests BY <1>0 DEF Quarantine, At, PutterInv
<1>2. r \in Requests BY <1>1 DEF Requests
<1>t. row \in [Requests -> ManifestRow] BY DEF TrustInv, TablesInv
<1>3. /\ UNCHANGED <<root, head, history, revoked, producer, blob>>
      /\ call' = [call EXCEPT ![c] = Idle]
      /\ diverged' = IF row[r].body = body THEN diverged \cup {<<r, row[r].body>>} ELSE diverged
  BY DEF Quarantine, Return
<1>4. CallInv' /\ ReleaseStep BY <1>0, <1>3, OneCall, ReturnFits DEF TrustInv
<1>5. row' = [row EXCEPT ![r] = x] BY <1>2, <1>t DEF Quarantine
<1>6. row[r] \in ManifestRow BY <1>2, <1>t
<1>7. row[r] # NoRow => row[r] \in [body : Manifests, state : States, trust : Bundles]
  BY <1>6 DEF ManifestRow
<1>8. Conflicting(r, call[c].row) <=> row[r].state = "ready" /\ row[r].body = body BY DEF Conflicting
<1>9. row[r].state = "ready" => row[r] # NoRow BY EmptyRows
<1>10. /\ x \in ManifestRow /\ (x = NoRow <=> row[r] = NoRow)
       /\ x.body = row[r].body /\ x.trust = row[r].trust
       /\ ~(x.state = "ready" /\ x.body = body)
       /\ (x.state = "ready" => row[r].state = "ready")
  <2>1. CASE row[r].state = "ready" /\ row[r].body = body
    <3>1. x = [row[r] EXCEPT !.state = "quarantined"] BY <1>8, <2>1
    <3>2. row[r] \in [body : Manifests, state : States, trust : Bundles] BY <1>7, <1>9, <2>1
    <3>3. /\ x \in [body : Manifests, state : States, trust : Bundles]
          /\ x.state = "quarantined" /\ x.body = row[r].body /\ x.trust = row[r].trust
      BY <3>1, <3>2 DEF States
    <3> HIDE DEF x
    <3>4. x # NoRow BY <3>3, EmptyRows
    <3> QED BY <1>9, <2>1, <3>3, <3>4 DEF ManifestRow
  <2>2. CASE ~(row[r].state = "ready" /\ row[r].body = body) BY <1>6, <1>8, <2>2
  <2> QED BY <2>1, <2>2
<1> HIDE DEF x
<1>11. RowInv(r, row[r], head, history, producer) BY <1>2 DEF TrustInv, TablesInv
<1>12. RowInv(r, x, head, history, producer) BY <1>10, <1>11 DEF RowInv
<1>13. row[r].body = body => row[r] # NoRow
  BY <1>1, EmptyRows, TrustAssumption DEF TrustBounds
<1>14. diverged \subseteq Requests \X Manifests /\ diverged' \subseteq Requests \X Manifests
  BY <1>1, <1>2, <1>3 DEF TrustInv, TablesInv
<1>15. \A d \in diverged : d[1] = r => row[r] # NoRow /\ ~(row[r].state = "ready" /\ row[r].body = d[2])
  BY DEF TrustInv, TablesInv, Closed
<1>16. \A d \in diverged' : d[1] = r => x # NoRow /\ ~(x.state = "ready" /\ x.body = d[2])
  <2> SUFFICES ASSUME NEW d \in diverged', d[1] = r
               PROVE  x # NoRow /\ ~(x.state = "ready" /\ x.body = d[2]) OBVIOUS
  <2>1. CASE d \in diverged BY <1>10, <1>15, <2>1
  <2>2. CASE row[r].body = body /\ d = <<r, row[r].body>> BY <1>10, <1>13, <2>2
  <2> QED BY <1>3, <2>1, <2>2
<1>17. \A d \in diverged' : d[1] # r => d \in diverged BY <1>3
<1>18. TablesInv' /\ EpochStep
  BY <1>2, <1>3, <1>5, <1>10, <1>12, <1>14, <1>16, <1>17, OneRow DEF TrustInv
<1>19. AdmissionStep BY <1>2, <1>5, <1>10, NothingAdmitted DEF TrustInv
<1> QED BY <1>4, <1>18, <1>19 DEF TrustInv, TrustStep

LEMMA ManifestSteps ==
  ASSUME TrustInv, NEW r \in Requests, DeleteManifest(r) \/ CleanupManifests(r)
  PROVE  TrustInv' /\ TrustStep
<1>0. /\ UNCHANGED <<root, head, history, revoked, producer, blob, call>>
      /\ row \in [Requests -> ManifestRow] /\ row[r] \in ManifestRow
      /\ RowInv(r, row[r], head, history, producer)
      /\ diverged \subseteq Requests \X Manifests
  BY DEF DeleteManifest, CleanupManifests, TrustInv, TablesInv
<1>1. CallInv' /\ ReleaseStep BY <1>0, QuietCalls DEF TrustInv
<1>2. CASE DeleteManifest(r)
  <2> DEFINE x == [row[r] EXCEPT !.state = "deleted"]
  <2>1. row' = [row EXCEPT ![r] = x] /\ diverged' = diverged BY <1>0, <1>2 DEF DeleteManifest
  <2>2. row[r] # NoRow BY <1>2, EmptyRows DEF DeleteManifest
  <2>3. row[r] \in [body : Manifests, state : States, trust : Bundles] BY <1>0, <2>2 DEF ManifestRow
  <2>4. /\ x \in [body : Manifests, state : States, trust : Bundles]
        /\ x.state = "deleted" /\ x.body = row[r].body /\ x.trust = row[r].trust
    BY <2>3 DEF States
  <2> HIDE DEF x
  <2>5. x \in ManifestRow /\ x # NoRow BY <2>4, EmptyRows DEF ManifestRow
  <2>6. RowInv(r, x, head, history, producer) BY <1>0, <2>2, <2>4 DEF RowInv
  <2>7. TablesInv' /\ EpochStep BY <1>0, <2>1, <2>4, <2>5, <2>6, OneRow DEF TrustInv
  <2>8. AdmissionStep BY <2>1, <2>2, NothingAdmitted DEF TrustInv
  <2> QED BY <1>1, <2>7, <2>8 DEF TrustInv, TrustStep
<1>3. CASE CleanupManifests(r)
  <2>1. row' = [row EXCEPT ![r] = NoRow] /\ diverged' = {d \in diverged : d[1] # r}
    BY <1>3 DEF CleanupManifests
  <2>2. NoRow \in ManifestRow /\ RowInv(r, NoRow, head, history, producer) BY DEF ManifestRow, RowInv
  <2>3. TablesInv' /\ EpochStep BY <1>0, <2>1, <2>2, OneRow DEF TrustInv
  <2>4. AdmissionStep BY <2>1, NothingAdmitted DEF TrustInv
  <2> QED BY <1>1, <2>3, <2>4 DEF TrustInv, TrustStep
<1> QED BY <1>2, <1>3

LEMMA WorldSteps ==
  ASSUME TrustInv, DisableRoot \/ ChangeBlob \/ \E x \in Mortal : Expire(x)
  PROVE  TrustInv' /\ TrustStep
<1>1. UNCHANGED <<head, history, revoked, producer, row, call, diverged>>
  BY DEF DisableRoot, ChangeBlob, Expire
<1>2. root' \in BOOLEAN /\ blob' \in [inc : Nat, ready : BOOLEAN]
  <2>0. root \in BOOLEAN /\ blob \in [inc : Nat, ready : BOOLEAN] BY DEF TrustInv, TablesInv
  <2>1. CASE DisableRoot BY <2>0, <2>1 DEF DisableRoot
  <2>2. CASE ChangeBlob
    <3>1. \/ blob' = [blob EXCEPT !.ready = FALSE]
          \/ blob' = [inc |-> blob.inc + 1, ready |-> TRUE]
      BY <2>2 DEF ChangeBlob
    <3>2. root' \in BOOLEAN BY <2>0, <2>2 DEF ChangeBlob
    <3>3. blob.inc \in Nat /\ blob.inc + 1 \in Nat BY <2>0
    <3>4. CASE blob' = [blob EXCEPT !.ready = FALSE] BY <2>0, <3>2, <3>4
    <3>5. CASE blob' = [inc |-> blob.inc + 1, ready |-> TRUE] BY <3>2, <3>3, <3>5
    <3> QED BY <3>1, <3>4, <3>5
  <2>3. CASE \E x \in Mortal : Expire(x) BY <2>0, <2>3 DEF Expire
  <2> QED BY <2>1, <2>2, <2>3
<1>3. CallInv' /\ ReleaseStep BY <1>1, QuietCalls DEF TrustInv
<1>4. TablesInv' BY <1>1, <1>2 DEF TrustInv, TablesInv
<1>5. EpochStep /\ AdmissionStep BY <1>1 DEF EpochStep, AdmissionStep
<1> QED BY <1>3, <1>4, <1>5 DEF TrustInv, TrustStep

-----------------------------------------------------------------------------
LEMMA NextInv == TrustInv /\ [Next]_vars => TrustInv' /\ [TrustStep]_vars
<1> SUFFICES ASSUME TrustInv, [Next]_vars PROVE TrustInv' /\ [TrustStep]_vars OBVIOUS
<1>1. CASE UNCHANGED vars
  <2>1. UNCHANGED <<tables, diverged, call>> BY <1>1 DEF vars
  <2> QED BY <1>1, <2>1, QuietCalls, QuietTables DEF TrustInv
<1>2. CASE Next
  BY <1>2, TrusterSteps, CommitTrustStep, ProducerSteps, PutterSteps, CommitPutStep, QuarantineStep,
     GetterSteps, ReleaseSteps, GiveUpStep, ManifestSteps, WorldSteps DEF Next
<1> QED BY <1>1, <1>2

LEMMA InvIsSound == TrustInv => TrustIsSound
<1> SUFFICES ASSUME TrustInv PROVE TrustIsSound OBVIOUS
<1>1. TrustIsCumulative BY DEF TrustInv, TablesInv, HeadInv, TrustIsCumulative
<1>2. RowsWereTrusted BY DEF TrustInv, TablesInv, RowInv, RowsWereTrusted
<1>3. DivergenceCloses BY DEF TrustInv, TablesInv, Closed, DivergenceCloses
<1> QED BY <1>1, <1>2, <1>3 DEF TrustIsSound

\* Whatever order bundles, manifests and lookups arrive in, and whatever was read
\* many awaits before: the head of the service is cumulative, a manifest is
\* stored and its bytes are released only under the head of that moment, and a
\* body that a conflict was reported for is not served.
THEOREM ReleasesTrusted == Spec => ReleasesAreTrusted
<1>1. Spec => []TrustInv /\ [][TrustStep]_vars BY InitInv, NextInv, PTL DEF Spec
<1>2. []TrustInv => []TrustIsSound BY InvIsSound, PTL
<1> QED BY <1>1, <1>2, PTL DEF ReleasesAreTrusted

-----------------------------------------------------------------------------
(* GenerationsAreApart of TeamRepository.  What carries the argument is     *)
(* that the receipt of a generation tells whether it can come to life      *)
(* again: once it is not "none", a generation without leases gets none,    *)
(* and one without objects gets only late ones (Onward).  So what a pass   *)
(* found out stays true however long it stands still, whoever has taken    *)
(* over its job, and the phases of the job only have to be entered on such *)
(* findings.                                                               *)

\* Where requests and passes stand; in SafePc the leases have been drained
WritePc == {"acquire", "row", "send", "put", "release", "tombstone", "audit"}
SafePc == {"list", "erase", "progress", "confirm"}
PassPc == SafePc \cup {"drain", "chunk", "yield"}
LatePhases == Tables \cup {"finalize"}
Phases == LatePhases \cup {"none", "r2"}
WorkerRow == [pc : {"idle"} \cup WritePc \cup PassPc, gen : 0..MaxGen, phase : Phases, conf : 0..2,
              cursor : Writers \cup {Absent}, keys : SUBSET Writers, left : 0..ChunksPerLease]
JobRow == [gen : 0..MaxGen, phase : Phases, conf : 0..2, cursor : Writers \cup {Absent},
           lease : CronPasses \cup {Absent}, due : BOOLEAN]
RowRow == [table : Tables, gen : Gens, id : Workers]
RepoRow == [gen : 0..MaxGen, deleted : BOOLEAN]

\* Types of the tables
RepositoryTypes ==
    /\ repo \in RepoRow /\ nextGen \in 0..MaxGen /\ repo.gen <= nextGen
    /\ repo.gen = Absent => repo = NoRepo
    /\ receipt \in [Gens -> {"none", "requested", "completed"}]
    /\ leases \subseteq [writer : Writers, gen : Gens, expired : BOOLEAN]
    /\ rows \subseteq RowRow /\ IsFiniteSet(rows)
    /\ objects \in [Gens -> SUBSET Writers]
    /\ writes \subseteq [writer : Writers, gen : Gens] /\ late \subseteq Gens

\* Every lease and every row is of the generation that is there
OfPresent == /\ \A l \in leases : l.gen = repo.gen
             /\ \A r \in rows : r.gen = repo.gen

\* Nothing is stored for a generation, but what came late; nothing is leased
Erased(g) == g \in late \/ objects[g] = {}
Unleased(g) == \A l \in leases : l.gen # g

\* The receipt of a generation tells where it stands
GenFits(g) ==
    /\ receipt[g] # "none" => g <= nextGen
    /\ LiveGen(g) => receipt[g] = "none"
    /\ receipt[g] = "requested" <=> Tombstoned(g)
    /\ receipt[g] = "completed" => Erased(g)
    /\ objects[g] # {} \/ (\E x \in writes : x.gen = g) => g = repo.gen \/ receipt[g] = "completed"

\* The job is of the tombstoned generation, and each of its phases leaves the
\* tables before it empty
JobFits ==
    /\ job \in JobRow
    /\ IF repo.deleted THEN job.gen = repo.gen /\ job.phase # "none" ELSE job = NoJob
    /\ job.phase \in LatePhases => Unleased(job.gen) /\ Erased(job.gen)
    /\ job.phase \in {"audit", "finalize"} => \A r \in rows : r.table # "blobs"
    /\ job.phase = "finalize" => rows = {}

\* What a request or a pass holds
WorkFits(k) ==
    /\ k \in WorkerRow
    /\ k.pc # "idle" => k.gen \in Gens
    /\ k.pc \in PassPc => receipt[k.gen] # "none"
    /\ k.pc \in SafePc => Unleased(k.gen)
    /\ k.pc = "confirm" => Erased(k.gen)
    /\ k.pc = "chunk" => k.phase \in LatePhases /\ k.left # 0

\* What all of them hold
WorkInv == worker \in [Workers -> WorkerRow] /\ \A p \in Workers : WorkFits(worker[p])

\* The inductive invariant
RepositoryInv ==
    /\ RepositoryTypes /\ OfPresent /\ JobFits
    /\ \A g \in Gens : GenFits(g)
    /\ WorkInv

-----------------------------------------------------------------------------
\* What the bounds say of each constant
LEMMA RepositoryConstants ==
  ASSUME RepositoryBounds
  PROVE  /\ Writers \subseteq Nat /\ 0 \notin Writers /\ MaxGen \in Nat /\ ChunksPerLease \in Nat
         /\ ChunksPerLease # 0 /\ Absent = 0 /\ Absent \notin CronPasses
BY DEF RepositoryBounds, Absent

\* A page that is not empty has a first key
LEMMA FirstOf ==
  ASSUME RepositoryBounds, NEW S \in SUBSET Writers, S # {}
  PROVE  First(S) \in S
<1> DEFINE R == OpToRel(<, Nat)
<1>1. S \subseteq Nat BY RepositoryConstants
<1>2. IsWellFoundedOn(R, Nat) BY NatLessThanWellFounded, Zenon
<1> HIDE DEF R
<1>3. PICK z \in S : \A y \in S : ~(<<y, z>> \in R) BY <1>1, <1>2, WFMin
<1>4. \A y \in S : ~(y < z) BY <1>1, <1>3 DEF R, OpToRel
<1>5. \A y \in S : z <= y BY <1>1, <1>4
<1> QED BY <1>5 DEF First

\* Who does nothing holds nothing that could be wrong
LEMMA NoWorkFits ==
  ASSUME RepositoryBounds
  PROVE  /\ NoWork \in WorkerRow /\ NoWork.pc = "idle" /\ WorkFits(NoWork)
         /\ NoWork.phase = "none" /\ NoWork.conf = 0 /\ NoWork.cursor = Absent
         /\ NoWork.keys = {} /\ NoWork.left = 0
<1>1. NoWork \in WorkerRow BY RepositoryConstants DEF NoWork, WorkerRow, Phases, LatePhases
<1>2. /\ NoWork.pc = "idle" /\ NoWork.phase = "none" /\ NoWork.conf = 0 /\ NoWork.cursor = Absent
      /\ NoWork.keys = {} /\ NoWork.left = 0 BY DEF NoWork
<1> QED BY <1>1, <1>2 DEF WorkFits, PassPc, SafePc

\* What held of a generation that is not live goes on to hold
Onward ==
    \A g \in Gens : receipt[g] # "none" =>
        /\ receipt'[g] # "none"
        /\ Unleased(g) => Unleased(g)'
        /\ Unleased(g) /\ Erased(g) => Erased(g)'

\* One worker takes a step, and what the others hold goes on to fit
LEMMA WorkGoesOn ==
  ASSUME WorkInv, Onward, NEW p \in Workers, NEW k, WorkFits(k)', worker' = [worker EXCEPT ![p] = k]
  PROVE  WorkInv'
<1>1. k \in WorkerRow BY DEF WorkFits
<1>2. worker' \in [Workers -> WorkerRow] BY <1>1 DEF WorkInv
<1>3. ASSUME NEW q \in Workers PROVE WorkFits(worker[q])'
  <2>1. CASE q = p
    <3>1. worker'[q] = k BY <2>1 DEF WorkInv
    <3> QED BY <3>1 DEF WorkFits, Unleased, Erased
  <2>2. CASE q # p
    <3>1. worker'[q] = worker[q] BY <2>2 DEF WorkInv
    <3>2. WorkFits(worker[q]) BY DEF WorkInv
    <3>3. worker[q].pc \in PassPc => worker[q].gen \in Gens BY <3>2 DEF WorkFits, PassPc, SafePc
    <3> QED BY <3>1, <3>2, <3>3 DEF WorkFits, Onward, PassPc, SafePc
  <2> QED BY <2>1, <2>2
<1> QED BY <1>2, <1>3 DEF WorkInv

\* No worker takes a step
LEMMA WorkStays ==
  ASSUME WorkInv, Onward, UNCHANGED worker
  PROVE  WorkInv'
<1>1. ASSUME NEW q \in Workers PROVE WorkFits(worker[q])'
  <2>1. WorkFits(worker[q]) BY DEF WorkInv
  <2>2. worker[q].pc \in PassPc => worker[q].gen \in Gens BY <2>1 DEF WorkFits, PassPc, SafePc
  <2> QED BY <2>1, <2>2 DEF WorkFits, Onward, PassPc, SafePc
<1> QED BY <1>1 DEF WorkInv

\* The next thing a request or a pass holds, as far as it is not its own
LEMMA WorkMoves ==
  ASSUME RepositoryBounds, WorkInv, NEW p \in Workers, NEW k, k \in WorkerRow,
         k.pc # "idle" => k.gen \in Gens,
         k.pc \in PassPc => receipt[k.gen] # "none",
         k.pc \in SafePc => Unleased(k.gen),
         k.pc = "confirm" => Erased(k.gen),
         k.pc = "chunk" => k.phase \in LatePhases /\ k.left # 0,
         Onward, worker' = [worker EXCEPT ![p] = k]
  PROVE  WorkInv'
<1>1. k.pc \in PassPc => k.gen \in Gens BY DEF PassPc, SafePc
<1>2. WorkFits(k)' BY <1>1 DEF WorkFits, Onward, PassPc, SafePc
<1> QED BY <1>2, WorkGoesOn

\* A worker puts its work down
LEMMA WorkEnds ==
  ASSUME RepositoryBounds, WorkInv, NEW p \in Workers, Onward, Leaves(p)
  PROVE  WorkInv'
<1>1. PICK k \in WorkerRow : k = NoWork /\ k.pc = "idle" BY NoWorkFits
<1>2. worker' = [worker EXCEPT ![p] = k] BY <1>1 DEF Leaves
<1> QED BY <1>1, <1>2, WorkMoves DEF PassPc, SafePc

\* What a worker holds, with another place
LEMMA WorkAt ==
  ASSUME RepositoryBounds, WorkInv, NEW p \in Workers, NEW pc \in WritePc \cup PassPc, GoesTo(p, pc)
  PROVE  \E k \in WorkerRow :
           /\ worker' = [worker EXCEPT ![p] = k] /\ k.pc = pc
           /\ k.gen = worker[p].gen /\ k.phase = worker[p].phase /\ k.left = worker[p].left
           /\ k.conf = worker[p].conf /\ k.cursor = worker[p].cursor /\ k.keys = worker[p].keys
<1> DEFINE k == [worker[p] EXCEPT !.pc = pc]
<1>1. worker[p] \in WorkerRow BY DEF WorkInv
<1>2. /\ k \in WorkerRow /\ k.pc = pc
      /\ k.gen = worker[p].gen /\ k.phase = worker[p].phase /\ k.left = worker[p].left
      /\ k.conf = worker[p].conf /\ k.cursor = worker[p].cursor /\ k.keys = worker[p].keys
  BY <1>1 DEF WorkerRow
<1>3. worker' = [worker EXCEPT ![p] = k] BY DEF GoesTo, WorkInv
<1> HIDE DEF k
<1> QED BY <1>2, <1>3

\* A request goes on to another of its places
LEMMA RequestGoes ==
  ASSUME RepositoryBounds, WorkInv, Onward, NEW p \in Workers, NEW pc \in WritePc, GoesTo(p, pc),
         worker[p].pc # "idle"
  PROVE  WorkInv'
<1>1. PICK k \in WorkerRow :
           /\ worker' = [worker EXCEPT ![p] = k] /\ k.pc = pc /\ k.gen = worker[p].gen
  BY WorkAt
<1>2. k.gen \in Gens BY <1>1 DEF WorkInv, WorkFits
<1>3. k.pc \notin PassPc BY <1>1 DEF WritePc, PassPc, SafePc
<1> QED BY <1>1, <1>2, <1>3, WorkMoves DEF PassPc, SafePc

\* Nothing moved that a worker relies on
LEMMA NothingMoved ==
  ASSUME UNCHANGED <<receipt, leases, objects, late>>
  PROVE  Onward
BY DEF Onward, Unleased, Erased

-----------------------------------------------------------------------------
(* Steps that move only requests, passes and the job.                      *)

\* Tables, objects and leases stay as they are
LEMMA JobMoves ==
  ASSUME RepositoryInv, UNCHANGED <<repo, nextGen, receipt, leases, rows, objects, writes, late>>,
         JobFits', WorkInv'
  PROVE  RepositoryInv' /\ LiveIsKept
<1>1. RepositoryTypes' /\ OfPresent' BY DEF RepositoryInv, RepositoryTypes, OfPresent
<1>2. \A g \in Gens : GenFits(g)' BY DEF RepositoryInv, GenFits, LiveGen, Tombstoned, Erased
<1>3. LiveIsKept BY DEF LiveIsKept
<1> QED BY <1>1, <1>2, <1>3 DEF RepositoryInv

\* Only a worker moves
LEMMA WorkersMove ==
  ASSUME RepositoryInv, UNCHANGED <<repo, nextGen, job, receipt, leases, rows, objects, writes, late>>,
         WorkInv'
  PROVE  RepositoryInv' /\ LiveIsKept
<1>1. JobFits' BY DEF RepositoryInv, JobFits, Unleased, Erased
<1> QED BY <1>1, JobMoves

\* Requests begin, fail and are killed
LEMMA RequestSteps ==
  ASSUME RepositoryBounds, RepositoryInv,
         \/ \E d \in Removers, g \in Gens : DeleteRequest(d, g)
         \/ \E w \in Writers : WriteBegin(w) \/ WriteFails(w)
         \/ \E p \in Workers : KillWorker(p)
  PROVE  RepositoryInv' /\ LiveIsKept
<1>0. WorkInv BY DEF RepositoryInv
<1>1. ASSUME NEW p \in Workers, NEW g \in Gens, NEW pc \in WritePc,
             worker' = [worker EXCEPT ![p] = [NoWork EXCEPT !.pc = pc, !.gen = g]],
             UNCHANGED <<repo, nextGen, job, receipt, leases, rows, objects, writes, late>>
      PROVE  RepositoryInv' /\ LiveIsKept
  <2>1. PICK n \in WorkerRow : n = NoWork BY NoWorkFits
  <2> DEFINE y == [n EXCEPT !.pc = pc, !.gen = g]
  <2>2. y \in WorkerRow /\ y.pc = pc /\ y.gen = g
    <3>1. g \in 0..MaxGen BY RepositoryConstants DEF Gens
    <3> QED BY <3>1 DEF WorkerRow
  <2>3. worker' = [worker EXCEPT ![p] = y] BY <1>1, <2>1
  <2> HIDE DEF y
  <2>6. PICK k \in WorkerRow : k.pc = pc /\ k.gen = g /\ worker' = [worker EXCEPT ![p] = k]
    BY <2>2, <2>3
  <2>4. k.pc \notin PassPc BY <2>6 DEF WritePc, PassPc, SafePc
  <2>5. WorkInv' BY <1>0, <1>1, <2>6, <2>4, WorkMoves, NothingMoved DEF PassPc, SafePc
  <2> QED BY <1>1, <2>5, WorkersMove
<1>2. ASSUME NEW d \in Removers, NEW g \in Gens, DeleteRequest(d, g)
      PROVE  RepositoryInv' /\ LiveIsKept
  BY <1>1, <1>2 DEF DeleteRequest, Workers, WritePc
<1>3. ASSUME NEW w \in Writers, WriteBegin(w)
      PROVE  RepositoryInv' /\ LiveIsKept
  <2>1. repo.gen \in Gens
    BY <1>3, RepositoryConstants DEF WriteBegin, RepositoryInv, RepositoryTypes, RepoRow, Gens
  <2> QED BY <1>1, <1>3, <2>1 DEF WriteBegin, Workers, WritePc
<1>4. ASSUME NEW w \in Writers, WriteFails(w)
      PROVE  RepositoryInv' /\ LiveIsKept
  <2>1. w \in Workers /\ "release" \in WritePc BY DEF Workers, WritePc
  <2>2. GoesTo(w, "release") /\ worker[w].pc # "idle" BY <1>4 DEF WriteFails, Stands
  <2>3. WorkInv' BY <1>0, <1>4, <2>1, <2>2, RequestGoes, NothingMoved DEF WriteFails
  <2> QED BY <1>4, <2>3, WorkersMove DEF WriteFails
<1>5. ASSUME NEW p \in Workers, KillWorker(p)
      PROVE  RepositoryInv' /\ LiveIsKept
  <2>1. WorkInv' BY <1>0, <1>5, WorkEnds, NothingMoved DEF KillWorker
  <2> QED BY <1>5, <2>1, WorkersMove DEF KillWorker
<1> QED BY <1>2, <1>3, <1>4, <1>5

\* A page is listed; an empty one counts only from the beginning
LEMMA ListStep ==
  ASSUME RepositoryBounds, RepositoryInv, NEW p \in CronPasses, List(p)
  PROVE  RepositoryInv' /\ LiveIsKept
<1> DEFINE g == worker[p].gen
           page == After(g, worker[p].cursor)
           pc == CASE page # {} -> "erase"
                   [] page = {} /\ ~Confirming(p) -> "progress"
                   [] OTHER -> "confirm"
           keys == IF page = {} THEN {} ELSE {First(page)}
           cursor == IF Cardinality(page) > 1 THEN First(page) ELSE Absent
           k == [worker[p] EXCEPT !.keys = keys, !.pc = pc,
                                 !.cursor = IF page = {} THEN Absent ELSE cursor]
<1>0. WorkInv /\ p \in Workers /\ worker[p] \in WorkerRow /\ WorkFits(worker[p])
  BY DEF RepositoryInv, WorkInv, Workers
<1>1. /\ worker[p].pc = "list" /\ g \in Gens /\ receipt[g] # "none" /\ Unleased(g)
  BY <1>0 DEF List, Stands, WorkFits, PassPc, SafePc
<1>2. objects[g] \in SUBSET Writers BY <1>1 DEF RepositoryInv, RepositoryTypes
<1>3. page \in SUBSET Writers BY <1>2 DEF After
<1>4. page # {} => First(page) \in Writers BY <1>3, FirstOf
<1>5. Cardinality({}) = 0 BY FS_EmptySet
<1>6. page = {} => cursor = Absent
  <2> SUFFICES ASSUME page = {} PROVE cursor = Absent OBVIOUS
  <2>1. Cardinality(page) = 0 BY <1>5
  <2> HIDE DEF page
  <2> QED BY <2>1
<1>7. worker' = [worker EXCEPT ![p] = k]
  <2>1. worker' = [worker EXCEPT ![p].keys = keys, ![p].cursor = cursor, ![p].pc = pc] BY DEF List
  <2> HIDE DEF keys, cursor, pc, page
  <2> QED BY <1>0, <1>6, <2>1 DEF WorkInv
<1>8. pc \in {"erase", "progress", "confirm"} OBVIOUS
<1>9. pc = "confirm" => objects[g] = {}
  <2> SUFFICES ASSUME pc = "confirm" PROVE objects[g] = {} OBVIOUS
  <2>1. page = {} /\ worker[p].cursor = Absent BY DEF Confirming
  <2>2. \A w \in objects[g] : w > 0 BY <1>2, RepositoryConstants
  <2> QED BY <2>1, <2>2 DEF After, Absent
<1>10. keys \in SUBSET Writers /\ (IF page = {} THEN Absent ELSE cursor) \in Writers \cup {Absent}
  BY <1>4
<1> HIDE DEF page, pc, keys, cursor
<1>11. k \in WorkerRow /\ k.pc = pc /\ k.gen = g
  BY <1>0, <1>8, <1>10 DEF WorkerRow, PassPc, SafePc
<1>12. PICK h \in WorkerRow : h = k BY <1>11
<1>13. WorkInv'
  <2>1. /\ h.gen \in Gens /\ receipt[h.gen] # "none" /\ Unleased(h.gen) /\ h.pc # "chunk"
        /\ h.pc = "confirm" => Erased(h.gen)
    BY <1>1, <1>8, <1>9, <1>11, <1>12 DEF Erased
  <2>2. worker' = [worker EXCEPT ![p] = h] BY <1>7, <1>12
  <2>3. Onward BY NothingMoved DEF List
  <2> QED BY <1>0, <2>1, <2>2, <2>3, WorkMoves
<1> QED BY <1>13, WorkersMove DEF List

\* A sweep starts on a generation that is gone, which has no lease
LEMMA SweepGraveStep ==
  ASSUME RepositoryBounds, RepositoryInv, NEW s \in GraveSweepers, NEW g \in Gens, SweepGrave(s, g)
  PROVE  RepositoryInv' /\ LiveIsKept
<1>0. WorkInv /\ s \in Workers BY DEF RepositoryInv, Workers
<1>1. After(g, Absent) \in SUBSET Writers /\ After(g, Absent) # {}
  BY DEF SweepGrave, After, RepositoryInv, RepositoryTypes
<1>2. First(After(g, Absent)) \in Writers BY <1>1, FirstOf
<1>3. PICK n \in WorkerRow : n = NoWork BY NoWorkFits
<1> DEFINE K == {First(After(g, Absent))}
           k == [n EXCEPT !.pc = "erase", !.gen = g, !.keys = K]
<1>4. k \in WorkerRow /\ k.pc = "erase" /\ k.gen = g
  <2>1. g \in 0..MaxGen BY RepositoryConstants DEF Gens
  <2>2. K \in SUBSET Writers BY <1>2
  <2> HIDE DEF K
  <2> QED BY <2>1, <2>2 DEF WorkerRow, PassPc, SafePc
<1>9. worker' = [worker EXCEPT ![s] = k] BY <1>3 DEF SweepGrave
<1>5. receipt[g] # "none" /\ Unleased(g)
  <2>1. receipt[g] = "completed" /\ GenFits(g) BY DEF SweepGrave, Graveyard, RepositoryInv
  <2>2. repo.gen # g BY <2>1 DEF GenFits, LiveGen, Tombstoned
  <2> QED BY <2>1, <2>2 DEF RepositoryInv, OfPresent, Unleased
<1> HIDE DEF k
<1>6. PICK h \in WorkerRow : h = k BY <1>4
<1>7. Onward BY NothingMoved DEF SweepGrave
<1>8. WorkInv'
  <2>1. h.pc = "erase" /\ h.gen = g /\ worker' = [worker EXCEPT ![s] = h] BY <1>4, <1>6, <1>9
  <2> QED BY <1>0, <1>5, <1>7, <2>1, WorkMoves
<1> QED BY <1>8, WorkersMove DEF SweepGrave

-----------------------------------------------------------------------------
(* The job.                                                                *)

\* A job is there for the tombstoned generation
LEMMA JobThere ==
  ASSUME RepositoryBounds, RepositoryInv, job # NoJob
  PROVE  repo.deleted /\ job.gen = repo.gen /\ repo.gen \in Gens /\ receipt[job.gen] = "requested"
<1>1. repo.deleted /\ job.gen = repo.gen BY DEF RepositoryInv, JobFits
<1>2. repo.gen \in Gens
  <2>1. repo.gen \in 0..MaxGen /\ (repo.gen = Absent => repo = NoRepo)
    BY DEF RepositoryInv, RepositoryTypes, RepoRow
  <2>2. repo.gen # 0 BY <1>1, <2>1 DEF NoRepo, Absent
  <2> QED BY <2>1, <2>2, RepositoryConstants DEF Gens
<1>3. receipt[repo.gen] = "requested" BY <1>1, <1>2 DEF RepositoryInv, GenFits, Tombstoned
<1> QED BY <1>1, <1>2, <1>3

\* The job stays in its phase, with what was emptied before it
LEMMA JobStays ==
  ASSUME RepositoryBounds, RepositoryInv, Onward, UNCHANGED repo, rows' \subseteq rows,
         \/ UNCHANGED job
         \/ job # NoJob /\ job' \in JobRow /\ job'.gen = job.gen /\ job'.phase = job.phase
  PROVE  JobFits'
<1>1. CASE job # NoJob
  <2>1. repo.deleted /\ job.gen = repo.gen /\ job.gen \in Gens /\ receipt[job.gen] # "none"
    BY <1>1, JobThere
  <2>2. job' \in JobRow /\ job'.gen = job.gen /\ job'.phase = job.phase BY DEF RepositoryInv, JobFits
  <2>3. /\ Unleased(job.gen) => Unleased(job.gen)'
        /\ Unleased(job.gen) /\ Erased(job.gen) => Erased(job.gen)'
    BY <2>1, <2>2 DEF Onward, Unleased, Erased
  <2>4. job.phase \in LatePhases => Unleased(job.gen) /\ Erased(job.gen) BY DEF RepositoryInv, JobFits
  <2> QED BY <2>1, <2>2, <2>3, <2>4 DEF RepositoryInv, JobFits
<1>2. CASE job = NoJob
  <2>1. job' = NoJob /\ ~repo.deleted
    BY <1>2 DEF RepositoryInv, JobFits, RepositoryTypes, NoRepo, NoJob, Absent
  <2> QED BY <1>2, <2>1 DEF RepositoryInv, JobFits, NoJob, LatePhases, Tables
<1> QED BY <1>1, <1>2

\* A pass that owns the job finds it there
LEMMA OwnedJob ==
  ASSUME RepositoryBounds, RepositoryInv, NEW p \in CronPasses, OwnsJob(p)
  PROVE  job # NoJob /\ job \in JobRow
<1>1. job # NoJob BY RepositoryConstants DEF OwnsJob, NoJob
<1> QED BY <1>1 DEF RepositoryInv, JobFits

\* Time passes for the job
LEMMA ElapseStep ==
  ASSUME RepositoryBounds, RepositoryInv, Elapse
  PROVE  RepositoryInv' /\ LiveIsKept
<1>1. job \in JobRow BY DEF RepositoryInv, JobFits
<1>2. job' \in JobRow /\ job'.gen = job.gen /\ job'.phase = job.phase BY <1>1 DEF Elapse, JobRow
<1>3. JobFits' BY <1>2, JobStays, NothingMoved DEF Elapse
<1>4. WorkInv' BY NothingMoved, WorkStays DEF RepositoryInv, Elapse
<1> QED BY <1>3, <1>4, JobMoves DEF Elapse

\* A pass starts on the job as it is
LEMMA PassLeaseStep ==
  ASSUME RepositoryBounds, RepositoryInv, NEW p \in CronPasses, PassLease(p)
  PROVE  RepositoryInv' /\ LiveIsKept
<1> DEFINE pc == IF job.phase = "r2" THEN "drain" ELSE "chunk"
           K(n) == [n EXCEPT !.gen = job.gen, !.phase = job.phase, !.conf = job.conf,
                               !.cursor = job.cursor, !.left = ChunksPerLease, !.pc = pc]
<1>0. /\ WorkInv /\ p \in Workers /\ job \in JobRow /\ job # NoJob
      /\ job.phase # "none" /\ job.gen \in Gens /\ receipt[job.gen] = "requested"
  BY JobThere DEF RepositoryInv, Workers, PassLease, JobFits
<1>1. job' \in JobRow /\ job'.gen = job.gen /\ job'.phase = job.phase BY <1>0 DEF PassLease, JobRow
<1>2. JobFits' BY <1>0, <1>1, JobStays, NothingMoved DEF PassLease
<1>8. PICK n \in WorkerRow : n = NoWork BY NoWorkFits
<1> DEFINE k == K(n)
<1>3. worker' = [worker EXCEPT ![p] = k] BY <1>8 DEF PassLease
<1>4. /\ k \in WorkerRow /\ k.pc = pc /\ k.gen = job.gen /\ k.phase = job.phase
      /\ k.left = ChunksPerLease
  <2>1. /\ job.phase \in Phases /\ job.conf \in 0..2 /\ job.cursor \in Writers \cup {Absent}
        /\ job.gen \in 0..MaxGen BY <1>0 DEF JobRow
  <2>2. pc \in {"idle"} \cup WritePc \cup PassPc BY DEF PassPc
  <2>3. ChunksPerLease \in 0..ChunksPerLease BY RepositoryConstants
  <2> HIDE DEF pc
  <2> QED BY <2>1, <2>2, <2>3 DEF WorkerRow
<1>5. pc \in {"drain", "chunk"} /\ (pc = "chunk" => job.phase \in LatePhases)
  BY <1>0 DEF JobRow, Phases
<1> HIDE DEF k, pc
<1>6. PICK h \in WorkerRow : h = k BY <1>4
<1>7. WorkInv'
  <2>1. /\ worker' = [worker EXCEPT ![p] = h] /\ h.gen \in Gens /\ receipt[h.gen] # "none"
        /\ h.pc \notin SafePc /\ (h.pc = "chunk" => h.phase \in LatePhases /\ h.left # 0)
    BY <1>0, <1>3, <1>4, <1>5, <1>6, RepositoryConstants DEF SafePc
  <2>2. Onward BY NothingMoved DEF PassLease
  <2> QED BY <1>0, <2>1, <2>2, WorkMoves DEF SafePc
<1> QED BY <1>2, <1>7, JobMoves DEF PassLease

\* A pass that puts its job down, or finds that it is not its own
LEMMA PutDown ==
  ASSUME RepositoryBounds, RepositoryInv, NEW p \in CronPasses, Leaves(p),
         \/ UNCHANGED job
         \/ job # NoJob /\ job' \in JobRow /\ job'.gen = job.gen /\ job'.phase = job.phase,
         UNCHANGED <<repo, nextGen, receipt, leases, rows, objects, writes, late>>
  PROVE  RepositoryInv' /\ LiveIsKept
<1>1. JobFits' BY JobStays, NothingMoved
<1>2. WorkInv' BY NothingMoved, WorkEnds DEF RepositoryInv, Workers
<1> QED BY <1>1, <1>2, JobMoves

\* Confirmations start again
LEMMA Restarting ==
  ASSUME RepositoryBounds, RepositoryInv, NEW p \in CronPasses, OwnsJob(p)
  PROVE  /\ job # NoJob
         /\ Restarted \in JobRow /\ Restarted.gen = job.gen /\ Restarted.phase = job.phase
<1>1. job # NoJob /\ job \in JobRow BY OwnedJob
<1>2. 0 \in 0..2 OBVIOUS
<1>3. Restarted \in JobRow BY <1>1, <1>2 DEF Restarted, JobRow
<1>4. Restarted.gen = job.gen /\ Restarted.phase = job.phase BY <1>1 DEF Restarted, JobRow
<1> QED BY <1>1, <1>3, <1>4

\* A failed pass leaves the phase as it is
LEMMA Deferring ==
  ASSUME RepositoryBounds, RepositoryInv, NEW p \in CronPasses
  PROVE  \/ Deferred(p) = job
         \/ job # NoJob /\ Deferred(p) \in JobRow /\ Deferred(p).gen = job.gen
            /\ Deferred(p).phase = job.phase
<1>1. CASE OwnsR2(p)
  <2>1. OwnsJob(p) /\ Deferred(p) = Restarted BY <1>1 DEF OwnsR2, Deferred
  <2> QED BY <2>1, Restarting
<1>2. CASE ~OwnsR2(p) /\ OwnsJob(p)
  <2>1. job # NoJob /\ job \in JobRow BY <1>2, OwnedJob
  <2>2. Deferred(p) = [job EXCEPT !.lease = Absent, !.due = FALSE] BY <1>2 DEF OwnsR2, Deferred
  <2> QED BY <2>1, <2>2 DEF JobRow
<1>3. CASE ~OwnsJob(p) BY <1>3 DEF OwnsR2, Deferred
<1> QED BY <1>1, <1>2, <1>3

\* A pass saves its progress, yields or fails
LEMMA PutDownSteps ==
  ASSUME RepositoryBounds, RepositoryInv, NEW p \in CronPasses, Progress(p) \/ Yield(p) \/ PassFails(p)
  PROVE  RepositoryInv' /\ LiveIsKept
<1>1. CASE Progress(p)
  <2>1. worker[p].cursor \in Writers \cup {Absent} BY DEF RepositoryInv, WorkInv, WorkerRow, Workers
  <2>2. CASE OwnsR2(p)
    <3>1. job # NoJob /\ job \in JobRow BY <2>2, OwnedJob DEF OwnsR2
    <3>2. job' \in JobRow /\ job'.gen = job.gen /\ job'.phase = job.phase
      <4>1. PICK u \in Writers \cup {Absent} : u = worker[p].cursor BY <2>1
      <4>2. job' = [job EXCEPT !.cursor = u, !.conf = 0, !.lease = Absent, !.due = TRUE]
        BY <1>1, <2>2, <4>1 DEF Progress
      <4>3. 0 \in 0..2 OBVIOUS
      <4> QED BY <3>1, <4>2, <4>3 DEF JobRow
    <3> QED BY <1>1, <3>1, <3>2, PutDown DEF Progress
  <2>3. CASE ~OwnsR2(p) BY <1>1, <2>3, PutDown DEF Progress
  <2> QED BY <2>2, <2>3
<1>2. CASE Yield(p)
  <2>1. CASE OwnsJob(p)
    <3>1. job # NoJob /\ job \in JobRow BY <2>1, OwnedJob
    <3>2. job' \in JobRow /\ job'.gen = job.gen /\ job'.phase = job.phase
      BY <1>2, <2>1, <3>1 DEF Yield, JobRow
    <3> QED BY <1>2, <3>1, <3>2, PutDown DEF Yield
  <2>2. CASE ~OwnsJob(p) BY <1>2, <2>2, PutDown DEF Yield
  <2> QED BY <2>1, <2>2
<1>3. CASE PassFails(p) BY <1>3, Deferring, PutDown DEF PassFails
<1> QED BY <1>1, <1>2, <1>3

\* The tables are opened once nothing is leased and nothing is left to erase
LEMMA ConfirmStep ==
  ASSUME RepositoryBounds, RepositoryInv, NEW p \in CronPasses, Confirm(p)
  PROVE  RepositoryInv' /\ LiveIsKept
<1>0. WorkInv /\ p \in Workers /\ WorkFits(worker[p]) BY DEF RepositoryInv, WorkInv, Workers
<1>1. CASE OwnsR2(p) /\ worker[p].conf # 0
  <2>1. job # NoJob /\ job \in JobRow /\ job.gen = worker[p].gen BY <1>1, OwnedJob DEF OwnsR2, OwnsJob
  <2>2. job' \in JobRow /\ job'.gen = job.gen /\ job'.phase = "blobs"
    <3>1. job' = [job EXCEPT !.cursor = Absent, !.conf = 2, !.lease = Absent, !.due = TRUE,
                             !.phase = "blobs"]
      BY <1>1 DEF Confirm
    <3>2. 2 \in 0..2 /\ "blobs" \in Phases BY DEF Phases, LatePhases, Tables
    <3> QED BY <2>1, <3>1, <3>2 DEF JobRow
  <2>3. Unleased(job.gen) /\ Erased(job.gen) BY <1>0, <2>1 DEF Confirm, Stands, WorkFits, SafePc
  <2>4. repo.deleted /\ job.gen = repo.gen BY <2>1, JobThere
  <2>5. JobFits' BY <2>2, <2>3, <2>4 DEF Confirm, JobFits, Unleased, Erased
  <2>6. WorkInv' BY <1>0, NothingMoved, WorkEnds DEF Confirm
  <2> QED BY <2>5, <2>6, JobMoves DEF Confirm
<1>2. CASE OwnsR2(p) /\ worker[p].conf = 0
  <2>1. job # NoJob /\ job \in JobRow BY <1>2, OwnedJob DEF OwnsR2
  <2>2. job' \in JobRow /\ job'.gen = job.gen /\ job'.phase = job.phase 
    <3>1. job' = [job EXCEPT !.cursor = Absent, !.conf = 1, !.lease = Absent, !.due = FALSE]
      BY <1>2 DEF Confirm
    <3>2. 1 \in 0..2 OBVIOUS
    <3> QED BY <2>1, <3>1, <3>2 DEF JobRow
  <2> QED BY <2>1, <2>2, PutDown DEF Confirm
<1>3. CASE ~OwnsR2(p) BY <1>3, PutDown DEF Confirm
<1> QED BY <1>1, <1>2, <1>3

-----------------------------------------------------------------------------
(* Steps on leases, rows and objects.                                      *)

\* What a step leaves as it is of the generations
LEMMA GensStay ==
  ASSUME RepositoryInv, Onward, UNCHANGED <<repo, nextGen, receipt>>,
         \A g \in Gens : objects'[g] # {} \/ (\E x \in writes' : x.gen = g)
                          => objects[g] # {} \/ (\E x \in writes : x.gen = g) \/ g = repo.gen
  PROVE  \A g \in Gens : GenFits(g)'
<1> SUFFICES ASSUME NEW g \in Gens PROVE GenFits(g)' OBVIOUS
<1>1. GenFits(g) BY DEF RepositoryInv
<1>2. receipt[g] = "completed" => Erased(g)'
  <2> SUFFICES ASSUME receipt[g] = "completed" PROVE Erased(g)' OBVIOUS
  <2>1. repo.gen # g BY <1>1 DEF GenFits, LiveGen, Tombstoned
  <2>2. Unleased(g) BY <2>1 DEF RepositoryInv, OfPresent, Unleased
  <2>3. Erased(g) BY <1>1 DEF GenFits
  <2> QED BY <2>2, <2>3 DEF Onward
<1> QED BY <1>1, <1>2 DEF GenFits, LiveGen, Tombstoned

\* Leases only go, or expire
LEMMA LeasesGo ==
  ASSUME RepositoryInv, leases' \subseteq [writer : Writers, gen : Gens, expired : BOOLEAN],
         \A l \in leases' : \E m \in leases : m.gen = l.gen,
         UNCHANGED <<repo, nextGen, receipt, rows, objects, writes, late>>
  PROVE  /\ Onward /\ LiveIsKept
         /\ JobFits' /\ WorkInv' => RepositoryInv'
<1>1. Onward BY DEF Onward, Unleased, Erased
<1>2. RepositoryTypes' /\ OfPresent' BY DEF RepositoryInv, RepositoryTypes, OfPresent
<1>3. \A g \in Gens : GenFits(g)' BY <1>1, GensStay
<1>4. LiveIsKept BY DEF LiveIsKept
<1> QED BY <1>1, <1>2, <1>3, <1>4 DEF RepositoryInv

\* Leases expire, are released and are cleaned up
LEMMA LeaseSteps ==
  ASSUME RepositoryBounds, RepositoryInv,
         \/ CleanLeases
         \/ \E l \in leases : ExpireLease(l)
         \/ \E w \in Writers : ReleaseLease(w)
  PROVE  RepositoryInv' /\ LiveIsKept
<1>0. leases \subseteq [writer : Writers, gen : Gens, expired : BOOLEAN] /\ WorkInv
  BY DEF RepositoryInv, RepositoryTypes
<1>1. CASE CleanLeases
  <2>1. leases' \subseteq leases BY <1>1 DEF CleanLeases
  <2>2. Onward /\ LiveIsKept /\ (JobFits' /\ WorkInv' => RepositoryInv')
    BY <1>0, <1>1, <2>1, LeasesGo DEF CleanLeases
  <2>3. JobFits' /\ WorkInv' BY <1>0, <1>1, <2>2, JobStays, WorkStays DEF CleanLeases
  <2> QED BY <2>2, <2>3
<1>2. ASSUME NEW l \in leases, ExpireLease(l) PROVE RepositoryInv' /\ LiveIsKept
  <2>0. l \in [writer : Writers, gen : Gens, expired : BOOLEAN] BY <1>0
  <2>1. PICK m : m = [l EXCEPT !.expired = TRUE] OBVIOUS
  <2>2. m \in [writer : Writers, gen : Gens, expired : BOOLEAN] /\ m.gen = l.gen BY <2>0, <2>1
  <2>3. leases' = (leases \ {l}) \cup {m} BY <1>2, <2>1 DEF ExpireLease
  <2>4. /\ leases' \subseteq [writer : Writers, gen : Gens, expired : BOOLEAN]
        /\ \A x \in leases' : \E y \in leases : y.gen = x.gen
    BY <1>0, <2>2, <2>3
  <2>5. Onward /\ LiveIsKept /\ (JobFits' /\ WorkInv' => RepositoryInv')
    BY <1>2, <2>4, LeasesGo DEF ExpireLease
  <2>6. JobFits' /\ WorkInv' BY <1>0, <1>2, <2>5, JobStays, WorkStays DEF ExpireLease
  <2> QED BY <2>5, <2>6
<1>3. ASSUME NEW w \in Writers, ReleaseLease(w) PROVE RepositoryInv' /\ LiveIsKept
  <2>1. leases' \subseteq leases /\ w \in Workers BY <1>3 DEF ReleaseLease, Workers
  <2>2. Onward /\ LiveIsKept /\ (JobFits' /\ WorkInv' => RepositoryInv')
    BY <1>0, <1>3, <2>1, LeasesGo DEF ReleaseLease
  <2>3. JobFits' /\ WorkInv' BY <1>0, <1>3, <2>1, <2>2, JobStays, WorkEnds DEF ReleaseLease
  <2> QED BY <2>2, <2>3
<1> QED BY <1>1, <1>2, <1>3

\* A lease of the generation that lives
LEMMA AcquireStep ==
  ASSUME RepositoryBounds, RepositoryInv, NEW w \in Writers, Acquire(w)
  PROVE  RepositoryInv' /\ LiveIsKept
<1> DEFINE g == worker[w].gen
<1>0. WorkInv /\ w \in Workers /\ worker[w].pc = "acquire" /\ g \in Gens
  BY DEF RepositoryInv, Workers, Acquire, Stands, WorkInv, WorkFits
<1>1. CASE LiveGen(g)
  <2>1. PICK l \in [writer : Writers, gen : Gens, expired : BOOLEAN] :
           l.gen = g /\ leases' = leases \cup {l}
    <3>1. [writer |-> w, gen |-> g, expired |-> FALSE]
            \in [writer : Writers, gen : Gens, expired : BOOLEAN]
      BY <1>0
    <3> QED BY <1>1, <3>1 DEF Acquire, Admitted
  <2>2. receipt[g] = "none" /\ repo.gen = g BY <1>0, <1>1 DEF RepositoryInv, GenFits, LiveGen
  <2>3. Onward BY <2>1, <2>2 DEF Acquire, Onward, Unleased, Erased
  <2>4. RepositoryTypes' /\ OfPresent'
    BY <2>1, <2>2 DEF Acquire, RepositoryInv, RepositoryTypes, OfPresent
  <2>5. \A h \in Gens : GenFits(h)' BY <2>3, GensStay DEF Acquire
  <2>6. JobFits' BY <2>3, JobStays DEF Acquire
  <2>7. GoesTo(w, "row") /\ "row" \in WritePc BY <1>1 DEF Acquire, Admitted, WritePc
  <2>8. WorkInv' BY <1>0, <2>3, <2>7, RequestGoes
  <2>9. LiveIsKept BY DEF Acquire, LiveIsKept
  <2> QED BY <2>4, <2>5, <2>6, <2>8, <2>9 DEF RepositoryInv
<1>2. CASE ~LiveGen(g)
  <2>1. UNCHANGED leases /\ Leaves(w) BY <1>2 DEF Acquire, Admitted
  <2>2. WorkInv' BY <1>0, <2>1, WorkEnds, NothingMoved DEF Acquire
  <2> QED BY <2>1, <2>2, WorkersMove DEF Acquire
<1> QED BY <1>1, <1>2

\* Only a pass that leaves no lease goes on to list
LEMMA DrainStep ==
  ASSUME RepositoryBounds, RepositoryInv, NEW p \in CronPasses, Drain(p)
  PROVE  RepositoryInv' /\ LiveIsKept
<1> DEFINE g == worker[p].gen
<1>0. /\ WorkInv /\ p \in Workers /\ worker[p].pc = "drain" /\ g \in Gens /\ receipt[g] # "none"
      /\ leases \subseteq [writer : Writers, gen : Gens, expired : BOOLEAN]
  BY DEF RepositoryInv, RepositoryTypes, Workers, Drain, Stands, WorkInv, WorkFits, PassPc
<1>1. leases' = {l \in leases : ~(l.gen = g /\ l.expired)} BY DEF Drain
<1>2. Onward /\ LiveIsKept /\ (JobFits' /\ WorkInv' => RepositoryInv')
  BY <1>0, <1>1, LeasesGo DEF Drain
<1>3. CASE Drained(g)
  <2>1. UNCHANGED job /\ GoesTo(p, "list") /\ "list" \in WritePc \cup PassPc
    BY <1>3 DEF Drain, PassPc, SafePc
  <2>2. PICK k \in WorkerRow : worker' = [worker EXCEPT ![p] = k] /\ k.pc = "list" /\ k.gen = g
    BY <1>0, <2>1, WorkAt
  <2>3. \A l \in leases' : l.gen # g BY <1>1, <1>3 DEF Drained
  <2>4. WorkFits(k)'
    <3>1. Unleased(k.gen)' BY <2>2, <2>3 DEF Unleased
    <3>2. receipt'[k.gen] # "none" BY <1>0, <2>2 DEF Drain
    <3> QED BY <1>0, <2>2, <3>1, <3>2 DEF WorkFits
  <2>5. WorkInv' BY <1>0, <1>2, <2>2, <2>4, WorkGoesOn
  <2>6. JobFits' BY <1>2, <2>1, JobStays DEF Drain
  <2> QED BY <1>2, <2>5, <2>6
<1>4. CASE ~Drained(g)
  <2>1. Leaves(p) /\ job' = IF OwnsJob(p) THEN Restarted ELSE job BY <1>4 DEF Drain
  <2>2. WorkInv' BY <1>0, <1>2, <2>1, WorkEnds
  <2>3. JobFits' BY <1>2, <2>1, Restarting, JobStays DEF Drain
  <2> QED BY <1>2, <2>2, <2>3
<1> QED BY <1>3, <1>4

\* A row more, of the generation that is there
LEMMA RowComes ==
  ASSUME RepositoryBounds, RepositoryInv, NEW r \in RowRow, r.gen = repo.gen, rows' = rows \cup {r},
         UNCHANGED <<repo, nextGen, receipt, leases, objects, writes, late>>, JobFits', WorkInv'
  PROVE  RepositoryInv' /\ LiveIsKept
<1>1. IsFiniteSet(rows') BY FS_AddElement DEF RepositoryInv, RepositoryTypes
<1>2. RepositoryTypes' /\ OfPresent' BY <1>1 DEF RepositoryInv, RepositoryTypes, OfPresent
<1>3. \A g \in Gens : GenFits(g)' BY NothingMoved, GensStay
<1>4. LiveIsKept BY DEF LiveIsKept
<1> QED BY <1>2, <1>3, <1>4 DEF RepositoryInv

\* A row is written for the generation that lives only
LEMMA WriteRowStep ==
  ASSUME RepositoryBounds, RepositoryInv, NEW w \in Writers, WriteRow(w)
  PROVE  RepositoryInv' /\ LiveIsKept
<1> DEFINE g == worker[w].gen
<1>0. WorkInv /\ w \in Workers /\ worker[w].pc = "row" /\ g \in Gens
  BY DEF RepositoryInv, Workers, WriteRow, Stands, WorkInv, WorkFits
<1>1. Onward BY NothingMoved DEF WriteRow
<1>2. WorkInv'
  <2>1. PICK pc \in WritePc : GoesTo(w, pc) BY DEF WriteRow, WritePc
  <2> QED BY <1>0, <1>1, <2>1, RequestGoes
<1>3. CASE LiveGen(g)
  <2>1. PICK r \in RowRow : r.gen = g /\ rows' = rows \cup {r}
    <3>1. [table |-> "blobs", gen |-> g, id |-> w] \in RowRow BY <1>0 DEF RowRow, Tables
    <3> QED BY <1>3, <3>1 DEF WriteRow, Writable
  <2>2. job = NoJob /\ ~repo.deleted /\ repo.gen = g BY <1>3 DEF LiveGen, RepositoryInv, JobFits
  <2>3. JobFits' BY <2>2 DEF WriteRow, RepositoryInv, JobFits, NoJob, LatePhases, Tables
  <2> QED BY <1>2, <2>1, <2>2, <2>3, RowComes DEF WriteRow
<1>4. CASE ~LiveGen(g)
  <2>1. UNCHANGED rows BY <1>4 DEF WriteRow, Writable
  <2> QED BY <1>2, <2>1, WorkersMove DEF WriteRow
<1> QED BY <1>3, <1>4

\* The event of the deletion is admitted before the last phase only
LEMMA DeleteAuditStep ==
  ASSUME RepositoryBounds, RepositoryInv, NEW d \in Removers, DeleteAudit(d)
  PROVE  RepositoryInv' /\ LiveIsKept
<1> DEFINE g == worker[d].gen
<1>0. WorkInv /\ d \in Workers /\ worker[d].pc = "audit" /\ g \in Gens
  BY DEF RepositoryInv, Workers, DeleteAudit, Stands, WorkInv, WorkFits
<1>2. WorkInv' BY <1>0, NothingMoved, WorkEnds DEF DeleteAudit
<1>3. CASE AuditAdmitted(g) /\ rows' = rows \cup {[table |-> "audit", gen |-> g, id |-> d]}
  <2>1. PICK r \in RowRow : r.gen = g /\ r.table = "audit" /\ rows' = rows \cup {r}
    <3>1. [table |-> "audit", gen |-> g, id |-> d] \in RowRow BY <1>0 DEF RowRow, Tables
    <3> QED BY <1>3, <3>1
  <2>2. repo.deleted /\ repo.gen = g /\ job.phase # "finalize" BY <1>3 DEF AuditAdmitted, Tombstoned
  <2>3. JobFits' BY <2>1, <2>2 DEF DeleteAudit, RepositoryInv, JobFits, Unleased, Erased
  <2> QED BY <1>2, <2>1, <2>2, <2>3, RowComes DEF DeleteAudit
<1>4. CASE rows' = rows BY <1>2, <1>4, WorkersMove DEF DeleteAudit
<1> QED BY <1>3, <1>4 DEF DeleteAudit

-----------------------------------------------------------------------------
\* A PUT is sent for the generation that lives
LEMMA SendStep ==
  ASSUME RepositoryBounds, RepositoryInv, NEW w \in Writers, Send(w)
  PROVE  RepositoryInv' /\ LiveIsKept
<1> DEFINE g == worker[w].gen
<1>0. WorkInv /\ w \in Workers /\ worker[w].pc = "send" /\ g \in Gens
  BY DEF RepositoryInv, Workers, Send, Stands, WorkInv, WorkFits
<1>1. Onward BY NothingMoved DEF Send
<1>2. WorkInv'
  <2>1. PICK pc \in WritePc : GoesTo(w, pc) BY DEF Send, WritePc
  <2> QED BY <1>0, <1>1, <2>1, RequestGoes
<1>3. CASE Renewable(w)
  <2>1. PICK x \in [writer : Writers, gen : Gens] : x.gen = g /\ writes' = writes \cup {x}
    <3>1. [writer |-> w, gen |-> g] \in [writer : Writers, gen : Gens] BY <1>0
    <3> QED BY <1>3, <3>1 DEF Send
  <2>2. repo.gen = g BY <1>3 DEF Renewable, LiveGen
  <2>3. RepositoryTypes' /\ OfPresent' BY <2>1 DEF Send, RepositoryInv, RepositoryTypes, OfPresent
  <2>4. \A h \in Gens : GenFits(h)' BY <1>1, <2>1, <2>2, GensStay DEF Send
  <2>5. JobFits' BY <1>1, JobStays DEF Send
  <2>6. LiveIsKept BY DEF Send, LiveIsKept
  <2> QED BY <1>2, <2>3, <2>4, <2>5, <2>6 DEF RepositoryInv
<1>4. CASE ~Renewable(w)
  <2>1. UNCHANGED writes BY <1>4 DEF Send
  <2> QED BY <1>2, <2>1, WorkersMove DEF Send
<1> QED BY <1>3, <1>4

\* A PUT that is carried out without its lease is late, and only such a one
\* reaches a generation that has been erased
LEMMA WriteLandsStep ==
  ASSUME RepositoryBounds, RepositoryInv, NEW x \in writes, WriteLands(x)
  PROVE  RepositoryInv' /\ LiveIsKept
<1>0. /\ WorkInv /\ x \in [writer : Writers, gen : Gens] /\ x.gen \in Gens /\ x.writer \in Writers
      /\ objects \in [Gens -> SUBSET Writers] /\ late \subseteq Gens
  BY DEF RepositoryInv, RepositoryTypes
<1>1. /\ objects' = [objects EXCEPT ![x.gen] = @ \cup {x.writer}]
      /\ late' = IF \E l \in leases : l.writer = x.writer /\ l.gen = x.gen
                   THEN late ELSE late \cup {x.gen}
      /\ writes' = writes \ {x}
      /\ UNCHANGED <<repo, nextGen, job, receipt, leases, rows>>
  BY DEF WriteLands
<1>2. /\ objects' \in [Gens -> SUBSET Writers] /\ late \subseteq late' /\ late' \subseteq Gens
      /\ objects'[x.gen] = objects[x.gen] \cup {x.writer}
      /\ \A g \in Gens : g # x.gen => objects'[g] = objects[g]
  BY <1>0, <1>1
<1>3. Onward
  <2> SUFFICES ASSUME NEW g \in Gens, Unleased(g), Erased(g) PROVE Erased(g)'
    BY <1>1 DEF Onward, Unleased
  <2>1. g = x.gen => x.gen \in late' BY <1>1 DEF Unleased
  <2> QED BY <1>2, <2>1 DEF Erased
<1>4. RepositoryTypes' /\ OfPresent'
  BY <1>1, <1>2 DEF RepositoryInv, RepositoryTypes, OfPresent
<1>5. \A g \in Gens : GenFits(g)' BY <1>1, <1>2, <1>3, GensStay
<1>6. JobFits' BY <1>1, <1>3, JobStays
<1>7. LiveIsKept
  <2>1. \A g \in Gens : objects[g] \subseteq objects'[g] BY <1>2
  <2> QED BY <1>1, <2>1 DEF LiveIsKept
<1>8. WorkInv'
  <2>1. CASE Stands(x.writer, "put") /\ worker[x.writer].gen = x.gen
    <3>1. x.writer \in Workers /\ "release" \in WritePc /\ worker[x.writer].pc # "idle"
      BY <1>0, <2>1 DEF Workers, WritePc, Stands
    <3>2. GoesTo(x.writer, "release") BY <2>1 DEF WriteLands, GoesTo
    <3> QED BY <1>0, <1>3, <3>1, <3>2, RequestGoes
  <2>2. CASE ~(Stands(x.writer, "put") /\ worker[x.writer].gen = x.gen)
    <3>1. UNCHANGED worker BY <2>2 DEF WriteLands
    <3> QED BY <1>0, <1>3, <3>1, WorkStays
  <2> QED BY <2>1, <2>2
<1> QED BY <1>4, <1>5, <1>6, <1>7, <1>8 DEF RepositoryInv

\* Only objects of a generation that is not live are erased
LEMMA EraseKeysStep ==
  ASSUME RepositoryBounds, RepositoryInv, NEW p \in Workers, EraseKeys(p)
  PROVE  RepositoryInv' /\ LiveIsKept
<1> DEFINE g == worker[p].gen
<1>0. /\ WorkInv /\ worker[p].pc = "erase" /\ g \in Gens /\ receipt[g] # "none" /\ Unleased(g)
      /\ objects \in [Gens -> SUBSET Writers]
  BY DEF RepositoryInv, RepositoryTypes, EraseKeys, Stands, WorkInv, WorkFits, PassPc, SafePc
<1>1. UNCHANGED <<repo, nextGen, job, receipt, leases, rows, writes, late>> BY DEF EraseKeys
<1>2. /\ objects' \in [Gens -> SUBSET Writers]
      /\ \A h \in Gens : objects'[h] \subseteq objects[h] /\ (h # g => objects'[h] = objects[h])
  BY <1>0 DEF EraseKeys
<1>3. Onward BY <1>1, <1>2 DEF Onward, Unleased, Erased
<1>4. RepositoryTypes' /\ OfPresent' BY <1>1, <1>2 DEF RepositoryInv, RepositoryTypes, OfPresent
<1>5. \A h \in Gens : GenFits(h)' BY <1>1, <1>2, <1>3, GensStay
<1>6. JobFits' BY <1>1, <1>3, JobStays
<1>7. LiveIsKept
  <2>1. ASSUME NEW h \in Gens, LiveGen(h) PROVE h # g BY <1>0, <2>1 DEF RepositoryInv, GenFits
  <2> QED BY <1>1, <1>2, <2>1 DEF LiveIsKept
<1>8. WorkInv'
  <2>1. CASE Leaves(p) BY <1>0, <1>3, <2>1, WorkEnds
  <2>2. CASE GoesTo(p, "progress")
    <3>1. PICK k \in WorkerRow : worker' = [worker EXCEPT ![p] = k] /\ k.pc = "progress" /\ k.gen = g
      BY <1>0, <2>2, WorkAt DEF PassPc, SafePc
    <3> QED BY <1>0, <1>3, <3>1, WorkMoves
  <2> QED BY <2>1, <2>2 DEF EraseKeys
<1> QED BY <1>4, <1>5, <1>6, <1>7, <1>8 DEF RepositoryInv

-----------------------------------------------------------------------------
\* A chunk takes rows of a tombstoned generation only, and the phase advances
\* when its table has none left
LEMMA ChunkStep ==
  ASSUME RepositoryBounds, RepositoryInv, NEW p \in CronPasses, Chunk(p)
  PROVE  RepositoryInv' /\ LiveIsKept
<1> DEFINE t == worker[p].phase
           gone == IF Erasable(p) THEN RowsOf(t) ELSE {}
           over == PassCurrent(p) /\ Cardinality(gone) <= 1
           ph == IF over THEN NextPhase(t) ELSE t
           pc == IF worker[p].left = 1 THEN "yield" ELSE "chunk"
           y == [worker[p] EXCEPT !.left = @ - 1, !.phase = ph, !.pc = pc]
<1>0. /\ WorkInv /\ p \in Workers /\ worker[p] \in WorkerRow /\ worker[p].pc = "chunk"
      /\ worker[p].gen \in Gens /\ receipt[worker[p].gen] # "none"
      /\ t \in Tables /\ worker[p].left # 0
      /\ rows \subseteq RowRow /\ IsFiniteSet(rows)
  BY DEF RepositoryInv, RepositoryTypes, Workers, Chunk, Stands, WorkInv, WorkFits, PassPc, LatePhases
<1>1. UNCHANGED <<repo, nextGen, receipt, leases, objects, writes, late>> BY DEF Chunk
<1>2. gone \subseteq rows /\ IsFiniteSet(gone) BY <1>0, FS_Subset DEF RowsOf
<1>3. \/ gone = {} /\ rows' = rows
      \/ \E r \in gone : rows' = rows \ {r}
  BY DEF Chunk
<1>4. job' = IF over THEN [job EXCEPT !.phase = NextPhase(t)] ELSE job BY DEF Chunk
<1>5. worker' = [worker EXCEPT ![p] = y]
  <2>1. worker' = [worker EXCEPT ![p].left = @ - 1, ![p].phase = ph, ![p].pc = pc] BY DEF Chunk
  <2> HIDE DEF ph, pc, t
  <2> QED BY <1>0, <2>1 DEF WorkInv
<1>6. rows' \subseteq rows /\ IsFiniteSet(rows') BY <1>0, <1>2, <1>3, FS_Subset
<1>7. rows' # rows => repo.deleted
  BY <1>3 DEF Erasable, PassCurrent, Tombstoned
<1>8. NextPhase(t) \in {"audit", "finalize"} /\ ph \in LatePhases
  BY <1>0 DEF NextPhase, LatePhases, Tables
<1>9. over => \A r \in rows' : r.table # t
  <2> SUFFICES ASSUME over, NEW r \in rows', r.table = t PROVE FALSE OBVIOUS
  <2>1. gone = RowsOf(t) /\ r \in gone BY <1>6 DEF Erasable, RowsOf
  <2> HIDE DEF gone, t
  <2>2. PICK q \in gone : rows' = rows \ {q} BY <1>3, <2>1
  <2>3. r # q BY <2>2
  <2>4. Cardinality(gone) <= 1 OBVIOUS
  <2>5. /\ Cardinality(gone) \in Nat /\ IsFiniteSet(gone \ {q})
        /\ Cardinality(gone \ {q}) = Cardinality(gone) - 1
    BY <1>2, FS_CardinalityType, FS_RemoveElement
  <2>6. Cardinality(gone \ {q}) \in Nat BY <2>5, FS_CardinalityType
  <2>7. Cardinality(gone \ {q}) = 0 BY <2>4, <2>5, <2>6
  <2>8. gone \ {q} = {} BY <2>5, <2>7, FS_EmptySet
  <2> QED BY <2>1, <2>3, <2>8
<1>10. Onward BY <1>1, NothingMoved
<1>11. JobFits'
  <2>1. CASE over
    <3>1. job.phase = t /\ repo.deleted /\ job.lease = p
      BY <2>1 DEF PassCurrent, OwnsJob, Tombstoned
    <3>2. job # NoJob /\ job \in JobRow BY <2>1, OwnedJob DEF PassCurrent
    <3>3. PICK n \in {"audit", "finalize"} : n = NextPhase(t) BY <1>8
    <3>4. job' = [job EXCEPT !.phase = n] BY <1>4, <2>1, <3>3
    <3>5. job' \in JobRow /\ job'.gen = job.gen /\ job'.phase = n
      BY <3>2, <3>4 DEF JobRow, Phases, LatePhases, Tables
    <3>6. Unleased(job.gen) /\ Erased(job.gen) /\ job.gen = repo.gen
      BY <1>0, <3>1, <3>2 DEF RepositoryInv, JobFits, LatePhases
    <3>7. (Unleased(job.gen) /\ Erased(job.gen))' BY <1>1, <3>5, <3>6 DEF Unleased, Erased
    <3>8. \A r \in rows' : r.table # "blobs"
      <4>1. CASE t = "blobs" BY <1>9, <2>1, <4>1
      <4>2. CASE t = "audit" BY <1>6, <3>1, <4>2 DEF RepositoryInv, JobFits
      <4> QED BY <1>0, <4>1, <4>2 DEF Tables
    <3>9. n = "finalize" => rows' = {}
      <4> SUFFICES ASSUME n = "finalize", NEW r \in rows' PROVE FALSE OBVIOUS
      <4>1. t = "audit" BY <1>0, <3>3 DEF NextPhase, Tables
      <4>2. r.table \in Tables BY <1>0, <1>6 DEF RowRow
      <4> QED BY <1>9, <2>1, <3>8, <4>1, <4>2 DEF Tables
    <3> QED BY <1>1, <3>1, <3>5, <3>6, <3>7, <3>8, <3>9 DEF JobFits
  <2>2. CASE ~over
    <3>1. UNCHANGED job BY <1>4, <2>2
    <3> QED BY <1>1, <1>6, <1>10, <3>1, JobStays
  <2> QED BY <2>1, <2>2
<1>12. WorkInv'
  <2> HIDE DEF t, ph
  <2>1. /\ worker[p].left - 1 \in 0..ChunksPerLease /\ (pc = "chunk" => worker[p].left - 1 # 0)
    BY <1>0, RepositoryConstants DEF WorkerRow
  <2>2. pc \in {"yield", "chunk"} OBVIOUS
  <2> HIDE DEF pc
  <2>3. /\ y \in WorkerRow /\ y.pc = pc /\ y.gen = worker[p].gen /\ y.phase = ph
        /\ y.left = worker[p].left - 1
    BY <1>0, <1>8, <2>1, <2>2 DEF WorkerRow, PassPc, Phases
  <2> HIDE DEF y
  <2>4. PICK k \in WorkerRow : k = y BY <2>3
  <2>5. /\ worker' = [worker EXCEPT ![p] = k] /\ k.gen \in Gens /\ receipt[k.gen] # "none"
        /\ k.pc \in {"yield", "chunk"} /\ (k.pc = "chunk" => k.phase \in LatePhases /\ k.left # 0)
    BY <1>0, <1>5, <1>8, <2>1, <2>2, <2>3, <2>4
  <2> QED BY <1>0, <1>10, <2>5, WorkMoves DEF SafePc
<1>13. RepositoryTypes' /\ OfPresent'
  BY <1>1, <1>6 DEF RepositoryInv, RepositoryTypes, OfPresent
<1>14. \A g \in Gens : GenFits(g)' BY <1>1, <1>10, GensStay
<1>15. LiveIsKept BY <1>1, <1>7 DEF LiveIsKept, LiveGen
<1> QED BY <1>11, <1>12, <1>13, <1>14, <1>15 DEF RepositoryInv

-----------------------------------------------------------------------------
(* The repository's row.                                                   *)

\* A generation that nothing names yet
LEMMA CreateStep ==
  ASSUME RepositoryBounds, RepositoryInv, Create
  PROVE  RepositoryInv' /\ LiveIsKept
<1>0. /\ nextGen \in Nat /\ nextGen + 1 \in Gens /\ nextGen' = nextGen + 1 /\ repo = NoRepo
      /\ repo' = [gen |-> nextGen + 1, deleted |-> FALSE] /\ WorkInv
      /\ UNCHANGED <<job, receipt, leases, rows, objects, writes, late, worker>>
  BY RepositoryConstants DEF Create, RepositoryInv, RepositoryTypes, Gens
<1>1. repo.gen = 0 /\ ~repo.deleted /\ repo'.gen = nextGen + 1 /\ ~repo'.deleted
  BY <1>0 DEF NoRepo, Absent
<1>2. 0 \notin Gens BY RepositoryConstants DEF Gens
<1>3. leases = {} /\ rows = {}
  <2>1. \A l \in leases : l.gen \in Gens BY DEF RepositoryInv, RepositoryTypes
  <2>2. \A r \in rows : r.gen \in Gens BY DEF RepositoryInv, RepositoryTypes, RowRow
  <2> QED BY <1>1, <1>2, <2>1, <2>2 DEF RepositoryInv, OfPresent
<1>4. RepositoryTypes'
  <2>1. repo' \in RepoRow /\ nextGen' \in 0..MaxGen /\ repo'.gen <= nextGen' /\ repo'.gen # Absent
    BY <1>0, <1>1, RepositoryConstants DEF RepoRow, Gens
  <2> QED BY <1>0, <2>1 DEF RepositoryInv, RepositoryTypes
<1>5. OfPresent' BY <1>0, <1>3 DEF OfPresent
<1>6. JobFits'
  <2>1. job = NoJob BY <1>1 DEF RepositoryInv, JobFits
  <2> QED BY <1>0, <1>1, <2>1 DEF RepositoryInv, JobFits, NoJob, LatePhases, Tables
<1>7. ASSUME NEW g \in Gens PROVE GenFits(g)'
  <2>1. GenFits(g) /\ ~Tombstoned(g) /\ g # repo.gen /\ g \in Nat
    BY <1>1, <1>2, RepositoryConstants DEF RepositoryInv, Tombstoned, Gens
  <2>2. receipt[g] # "none" => g <= nextGen BY <2>1 DEF GenFits
  <2>3. g = nextGen + 1 => receipt[g] = "none" BY <1>0, <2>1, <2>2
  <2>4. receipt[g] # "none" => g <= nextGen' BY <1>0, <2>1, <2>2
  <2> QED BY <1>0, <1>1, <2>1, <2>3, <2>4 DEF GenFits, LiveGen, Tombstoned, Erased
<1>8. WorkInv' BY <1>0, NothingMoved, WorkStays
<1>9. LiveIsKept BY <1>0 DEF LiveIsKept
<1> QED BY <1>4, <1>5, <1>6, <1>7, <1>8, <1>9 DEF RepositoryInv

\* The tombstone comes with the job and the receipt
LEMMA TombstoneStep ==
  ASSUME RepositoryBounds, RepositoryInv, NEW d \in Removers, Tombstone(d)
  PROVE  RepositoryInv' /\ LiveIsKept
<1> DEFINE h == worker[d].gen
<1>0. WorkInv /\ d \in Workers /\ worker[d].pc = "tombstone" /\ h \in Gens
  BY DEF RepositoryInv, Workers, Tombstone, Stands, WorkInv, WorkFits
<1>1. UNCHANGED <<nextGen, leases, rows, objects, writes, late>> BY DEF Tombstone
<1>2. CASE LiveGen(h)
  <2>0. /\ repo.gen = h /\ ~repo.deleted /\ repo \in RepoRow
        /\ receipt \in [Gens -> {"none", "requested", "completed"}]
    BY <1>2 DEF LiveGen, RepositoryInv, RepositoryTypes
  <2>1. /\ repo' = [repo EXCEPT !.deleted = TRUE]
        /\ job' = [NoJob EXCEPT !.gen = repo.gen, !.phase = "r2", !.due = TRUE]
        /\ receipt' = [receipt EXCEPT ![repo.gen] = "requested"]
        /\ GoesTo(d, "audit")
    BY <1>2 DEF Tombstone
  <2>2. repo' \in RepoRow /\ repo'.gen = repo.gen /\ repo'.deleted BY <2>0, <2>1 DEF RepoRow
  <2>3. /\ receipt' \in [Gens -> {"none", "requested", "completed"}] /\ receipt'[repo.gen] = "requested"
        /\ \A g \in Gens : g # repo.gen => receipt'[g] = receipt[g]
    BY <1>0, <2>0, <2>1
  <2>4. Onward BY <1>1, <2>0, <2>3 DEF Onward, Unleased, Erased
  <2>5. RepositoryTypes' /\ OfPresent'
    BY <1>0, <1>1, <2>0, <2>2, <2>3, RepositoryConstants
         DEF RepositoryInv, RepositoryTypes, OfPresent, Gens
  <2>6. JobFits'
    <3>1. PICK n \in JobRow : n = NoJob BY <2>0 DEF RepositoryInv, JobFits
    <3>2. job' = [n EXCEPT !.gen = repo.gen, !.phase = "r2", !.due = TRUE] BY <2>1, <3>1
    <3>3. repo.gen \in 0..MaxGen /\ "r2" \in Phases BY <2>0 DEF RepoRow, Phases
    <3>4. job' \in JobRow /\ job'.gen = repo.gen /\ job'.phase = "r2" BY <3>2, <3>3 DEF JobRow
    <3> QED BY <2>2, <3>4 DEF JobFits, LatePhases, Tables
  <2>7. ASSUME NEW g \in Gens PROVE GenFits(g)'
    <3>1. GenFits(g) BY DEF RepositoryInv
    <3>2. CASE g = repo.gen
      <4>1. receipt'[g] = "requested" /\ g <= nextGen'
        BY <1>1, <2>3, <3>2 DEF RepositoryInv, RepositoryTypes
      <4> QED BY <2>2, <3>2, <4>1 DEF GenFits, LiveGen, Tombstoned
    <3>3. CASE g # repo.gen
      BY <1>1, <2>2, <2>3, <3>1, <3>3 DEF GenFits, LiveGen, Tombstoned, Erased
    <3> QED BY <3>2, <3>3
  <2>8. WorkInv' BY <1>0, <2>1, <2>4, RequestGoes DEF WritePc
  <2>9. LiveIsKept BY <1>1 DEF LiveIsKept
  <2> QED BY <2>5, <2>6, <2>7, <2>8, <2>9 DEF RepositoryInv
<1>3. CASE ~LiveGen(h)
  <2>1. UNCHANGED <<repo, job, receipt>> /\ Leaves(d) BY <1>3 DEF Tombstone
  <2>2. WorkInv' BY <1>0, <1>1, <2>1, NothingMoved, WorkEnds
  <2> QED BY <1>1, <2>1, <2>2, WorkersMove
<1> QED BY <1>2, <1>3

\* The last statement finds nothing left of the generation, which is erased
LEMMA FinalizeStep ==
  ASSUME RepositoryBounds, RepositoryInv, NEW p \in CronPasses, Finalize(p)
  PROVE  RepositoryInv' /\ LiveIsKept
<1> DEFINE h == worker[p].gen
<1>0. /\ WorkInv /\ p \in Workers /\ h \in Gens /\ receipt[h] # "none" /\ Leaves(p)
      /\ receipt \in [Gens -> {"none", "requested", "completed"}]
      /\ UNCHANGED <<nextGen, rows, objects, writes, late>>
  BY DEF RepositoryInv, RepositoryTypes, Workers, Finalize, Stands, WorkInv, WorkFits, PassPc
<1>1. receipt' = IF repo' = NoRepo THEN [receipt EXCEPT ![h] = "completed"] ELSE receipt
  BY <1>0 DEF Finalize
<1>2. CASE Final(p)
  <2>1. repo' = NoRepo /\ job' = NoJob /\ leases' = {} BY <1>2 DEF Finalize
  <2>2. repo.gen = h /\ repo.deleted /\ job.gen = h /\ job.phase = "finalize" /\ rows = {}
    BY <1>2 DEF Final, Tombstoned, OwnsJob
  <2>3. /\ receipt' \in [Gens -> {"none", "requested", "completed"}] /\ receipt'[h] = "completed"
        /\ \A g \in Gens : g # h => receipt'[g] = receipt[g]
    BY <1>0, <1>1, <2>1
  <2>4. Onward BY <1>0, <2>1, <2>3 DEF Onward, Unleased, Erased
  <2>5. Erased(job.gen) BY <2>2 DEF RepositoryInv, JobFits, LatePhases
  <2>6. repo'.gen = 0 /\ ~repo'.deleted /\ repo' \in RepoRow /\ 0 \notin Gens
    BY <2>1, RepositoryConstants DEF NoRepo, Absent, RepoRow, Gens
  <2>7. RepositoryTypes'
    <3>1. nextGen \in 0..MaxGen BY DEF RepositoryInv, RepositoryTypes
    <3>2. repo'.gen <= nextGen' BY <1>0, <2>6, <3>1, RepositoryConstants
    <3> QED BY <1>0, <2>1, <2>3, <2>6, <3>2 DEF RepositoryInv, RepositoryTypes
  <2>8. OfPresent' BY <1>0, <2>1, <2>2 DEF OfPresent
  <2>9. JobFits'
    <3>1. NoJob \in JobRow
      <4>1. 0 \in 0..MaxGen /\ 0 \in 0..2 /\ "none" \in Phases BY RepositoryConstants DEF Phases
      <4>2. FALSE \in BOOLEAN OBVIOUS
      <4> QED BY <4>1, <4>2 DEF NoJob, JobRow, Absent
    <3> QED BY <2>1, <2>6, <3>1 DEF JobFits, NoJob, LatePhases, Tables
  <2>10. ASSUME NEW g \in Gens PROVE GenFits(g)'
    <3>1. GenFits(g) BY DEF RepositoryInv
    <3>2. CASE g = h
      <4>1. g <= nextGen BY <2>2, <3>2 DEF RepositoryInv, RepositoryTypes
      <4>2. Erased(g)' BY <1>0, <2>2, <2>5, <3>2 DEF Erased
      <4> QED BY <1>0, <2>3, <2>6, <3>2, <4>1, <4>2 DEF GenFits, LiveGen, Tombstoned
    <3>3. CASE g # h
      <4>1. g # repo.gen /\ ~Tombstoned(g) BY <2>2, <3>3 DEF Tombstoned
      <4> QED BY <1>0, <2>3, <2>6, <3>1, <3>3, <4>1 DEF GenFits, LiveGen, Tombstoned, Erased
    <3> QED BY <3>2, <3>3
  <2>11. WorkInv' BY <1>0, <2>4, WorkEnds
  <2>12. LiveIsKept BY <2>2 DEF LiveIsKept, LiveGen
  <2> QED BY <2>7, <2>8, <2>9, <2>10, <2>11, <2>12 DEF RepositoryInv
<1>3. CASE ~Final(p)
  <2>1. UNCHANGED <<repo, leases>> /\ job' = IF repo # NoRepo THEN Deferred(p) ELSE job
    BY <1>3 DEF Finalize
  <2>2. UNCHANGED receipt
    <3>1. CASE repo = NoRepo
      <4>1. ~Tombstoned(h) BY <3>1 DEF NoRepo, Tombstoned
      <4>2. receipt[h] = "completed" BY <1>0, <4>1 DEF RepositoryInv, GenFits
      <4> QED BY <1>0, <1>1, <2>1, <3>1, <4>2
    <3>2. CASE repo # NoRepo BY <1>1, <2>1, <3>2
    <3> QED BY <3>1, <3>2
  <2> QED BY <1>0, <2>1, <2>2, Deferring, PutDown
<1> QED BY <1>2, <1>3

-----------------------------------------------------------------------------
\* The invariant holds at first
LEMMA RepositoryInitInv ==
  ASSUME RepositoryBounds, RepositoryInit
  PROVE  RepositoryInv
<1>0. repo.gen = 0 /\ ~repo.deleted /\ repo \in RepoRow /\ 0 \notin Gens
  BY RepositoryConstants DEF RepositoryInit, NoRepo, Absent, RepoRow, Gens
<1>1. RepositoryTypes
  <2>1. nextGen \in 0..MaxGen /\ repo.gen <= nextGen BY <1>0, RepositoryConstants DEF RepositoryInit
  <2>2. IsFiniteSet(rows) BY FS_EmptySet DEF RepositoryInit
  <2> QED BY <1>0, <2>1, <2>2 DEF RepositoryInit, RepositoryTypes
<1>2. OfPresent BY DEF RepositoryInit, OfPresent
<1>3. JobFits
  <2>1. NoJob \in JobRow
    <3>1. 0 \in 0..MaxGen /\ 0 \in 0..2 /\ "none" \in Phases BY RepositoryConstants DEF Phases
    <3>2. FALSE \in BOOLEAN OBVIOUS
    <3> QED BY <3>1, <3>2 DEF NoJob, JobRow, Absent
  <2> QED BY <1>0, <2>1 DEF RepositoryInit, JobFits, NoJob, LatePhases, Tables
<1>4. ASSUME NEW g \in Gens PROVE GenFits(g)
  BY <1>0 DEF RepositoryInit, GenFits, LiveGen, Tombstoned
<1>5. WorkInv BY NoWorkFits DEF RepositoryInit, WorkInv
<1> QED BY <1>1, <1>2, <1>3, <1>4, <1>5 DEF RepositoryInv

\* Every step keeps the invariant, and what the live generation stored
LEMMA RepositoryNextInv ==
  ASSUME RepositoryBounds, RepositoryInv, [RepositoryNext]_repositoryVars
  PROVE  RepositoryInv' /\ [LiveIsKept]_repositoryVars
<1>1. CASE UNCHANGED repositoryVars
  <2>1. UNCHANGED <<repo, nextGen, job, receipt, leases, rows, objects, writes, late, worker>>
    BY <1>1 DEF repositoryVars
  <2>2. WorkInv' BY <2>1, NothingMoved, WorkStays DEF RepositoryInv
  <2> QED BY <1>1, <2>1, <2>2, WorkersMove
<1>2. ASSUME NEW d \in Removers, (\E g \in Gens : DeleteRequest(d, g)) \/ Tombstone(d) \/ DeleteAudit(d)
      PROVE  RepositoryInv' /\ LiveIsKept
  BY <1>2, RequestSteps, TombstoneStep, DeleteAuditStep
<1>3. ASSUME NEW w \in Writers, Write(w) PROVE RepositoryInv' /\ LiveIsKept
  BY <1>3, RequestSteps, AcquireStep, WriteRowStep, SendStep, LeaseSteps DEF Write
<1>4. ASSUME NEW p \in CronPasses, PassLease(p) \/ PassWork(p) \/ PassFails(p)
      PROVE  RepositoryInv' /\ LiveIsKept
  <2>1. p \in Workers BY DEF Workers
  <2> QED BY <1>4, <2>1, PassLeaseStep, DrainStep, ListStep, EraseKeysStep, PutDownSteps,
             ConfirmStep, ChunkStep, FinalizeStep DEF PassWork
<1>5. ASSUME NEW s \in GraveSweepers, EraseKeys(s) \/ \E g \in Gens : SweepGrave(s, g)
      PROVE  RepositoryInv' /\ LiveIsKept
  <2>1. s \in Workers BY DEF Workers
  <2> QED BY <1>5, <2>1, EraseKeysStep, SweepGraveStep
<1>6. CASE RepositoryNext
  BY <1>2, <1>3, <1>4, <1>5, <1>6, CreateStep, WriteLandsStep, LeaseSteps, ElapseStep, RequestSteps
       DEF RepositoryNext
<1> QED BY <1>1, <1>6

\* The invariant implies what the service promises
LEMMA RepositoryInvIsSound ==
  ASSUME RepositoryBounds, RepositoryInv
  PROVE  /\ RepositoryTypeOK /\ RowsAreCurrent /\ ErasedWhenCompleted
         /\ ObjectsAreCovered /\ LastPhaseIsClear
<1>1. RowsAreCurrent BY DEF RepositoryInv, OfPresent, RowsAreCurrent
<1>2. ErasedWhenCompleted BY DEF RepositoryInv, GenFits, Erased, ErasedWhenCompleted
<1>3. ObjectsAreCovered BY DEF RepositoryInv, GenFits, ObjectsAreCovered
<1>4. LastPhaseIsClear BY DEF RepositoryInv, JobFits, LatePhases, Unleased, LastPhaseIsClear
<1>5. RepositoryTypeOK
  <2>1. /\ repo.gen \in 0..nextGen /\ nextGen \in 0..MaxGen
    BY RepositoryConstants DEF RepositoryInv, RepositoryTypes, RepoRow
  <2>2. \/ job = NoJob
        \/ /\ Tombstoned(job.gen) /\ job.phase \in {"r2", "finalize"} \cup Tables
           /\ job.conf \in 0..2 /\ job.lease \in CronPasses \cup {Absent}
    BY DEF RepositoryInv, JobFits, JobRow, Tombstoned, Phases, LatePhases
  <2>3. repo.deleted => job # NoJob BY DEF RepositoryInv, JobFits, NoJob
  <2>4. worker \in [Workers -> WorkerRow] BY DEF RepositoryInv, WorkInv
  <2> QED BY <2>1, <2>2, <2>3, <2>4
           DEF RepositoryTypeOK, RepositoryInv, RepositoryTypes, WorkerRow, WritePc, PassPc,
             SafePc, Phases, LatePhases
<1> QED BY <1>1, <1>2, <1>3, <1>4, <1>5

\* Deleting a repository and creating it again mixes nothing up, for any number
\* of requests, passes, sweeps and generations: the triggers and the guards of
\* processRepositoryDeletions leave no row and no leased write behind when
\* finalizeRepositoryDeletion removes the repository, what R2 wrote without a
\* lease is in the graveyard, and nothing of a live generation is ever taken.
THEOREM GenerationsApart ==
  ASSUME RepositoryBounds
  PROVE  RepositorySpec => GenerationsAreApart
<1>1. RepositoryInit => RepositoryInv BY RepositoryInitInv
<1>2. RepositoryInv /\ [RepositoryNext]_repositoryVars => RepositoryInv' /\ [LiveIsKept]_repositoryVars
  BY RepositoryNextInv
<1>3. RepositoryInv =>
        /\ RepositoryTypeOK /\ RowsAreCurrent /\ ErasedWhenCompleted
        /\ ObjectsAreCovered /\ LastPhaseIsClear
  BY RepositoryInvIsSound
<1> QED BY <1>1, <1>2, <1>3, PTL DEF RepositorySpec, GenerationsAreApart

-----------------------------------------------------------------------------
(* BlobsAreSafe of TeamBlobs.  An incarnation that is on its way out or     *)
(* gone stays so (Gone), because no incarnation is drawn twice and a row    *)
(* that is being deleted only ever leaves.  Whoever takes an object away    *)
(* has seen that of its incarnation, so what a handler has read of any      *)
(* other one is still there (Kept), however long it stood still (Ahead).    *)

BlobStates == {"pending", "ready", "quarantined", "deleting"}
BlobRecord == [state : BlobStates \cup {"none"}, inc : 0..MaxIncarnations, ident : 0..MaxOps,
               fresh : BOOLEAN, due : BOOLEAN, grace : BOOLEAN, snap : SUBSET Passes]
Early == {"idle", "reserve", "adopt"}
LatePc == {"verify", "promote", "disown", "erase", "retire"}
HandlerPc ==
    Early \cup LatePc \cup
      {"check", "ack", "quarantine", "repair", "lease", "register", "put", "cancel", "unsend", "condemn",
       "wipe", "head", "drop", "inspect", "settle", "defer", "collect", "dequeue", "reconsider", "sweep",
       "read"}
HandlerRow == [pc : HandlerPc,
               inc : 0..MaxIncarnations, ident : 0..MaxOps, op : 0..MaxOps, done : BOOLEAN]
PutRecord == [inc : 0..MaxIncarnations, sent : BOOLEAN, landed : BOOLEAN]
QueueRecord == [present : BOOLEAN, same : BOOLEAN]
ManifestStates == {"none", "ready", "quarantined", "expired", "deleted"}

\* Types of what only some steps change
BlobTypes ==
    /\ nextInc \in 0..MaxIncarnations
    /\ object \in [Incs -> 0..MaxOps]
    /\ manifest \in [Keys -> ManifestStates] /\ losses \in 0..MaxLoss

\* The incarnation is on its way out, or gone
Gone(i) == ~Owns(i) \/ blobRow.state = "deleting"

\* The object that was read there is there, as long as the incarnation stays
Kept(i, o) == losses = 0 => Gone(i) \/ object[i] = o

\* A PUT that was sent, and one that was carried out
Sent(o) == o \in Ops /\ puts[o].inc # 0
Landed(o) == Sent(o) /\ puts[o].landed

\* What R2 may still carry out is registered
PutsFit ==
    /\ puts \in [Ops -> PutRecord] /\ cands \subseteq Ops
    /\ \A o \in Ops :
         /\ puts[o].inc <= nextInc
         /\ puts[o].sent \/ puts[o].landed \/ o \in cands => puts[o].inc # 0
         /\ puts[o].sent /\ ~puts[o].landed => o \in cands

\* The row with its object, its manifests and its entry in the queue
RowFits ==
    /\ blobRow \in BlobRecord /\ queue \in QueueRecord /\ blobRow.inc <= nextInc
    /\ IF blobRow.state = "none" THEN blobRow = NoBlob /\ ~queue.present ELSE blobRow.inc # 0
    /\ blobRow.state = "ready" => blobRow.ident # 0 /\ (losses = 0 => object[blobRow.inc] = blobRow.ident)
    /\ losses = 0 /\ (\E k \in Keys : manifest[k] = "ready") => blobRow.state = "ready"
    /\ blobRow.state \in {"pending", "ready", "quarantined"} /\ (\A k \in Keys : manifest[k] \in {"none", "deleted"})
         => queue.present

\* What a handler has found out
HandlerFits(k) ==
    /\ k \in HandlerRow /\ k.inc <= nextInc
    /\ k.pc \notin Early => k.inc # 0
    /\ k.pc \in {"unsend", "wipe", "dequeue"} => Gone(k.inc)
    /\ k.pc \in {"erase", "sweep"} => ~Owns(k.inc)
    /\ k.pc \in {"promote", "settle", "check", "read"} => k.ident # 0 /\ Kept(k.inc, k.ident)
    /\ k.pc \in {"repair", "quarantine"} /\ losses = 0 => Gone(k.inc)
    /\ k.pc = "put" => Sent(k.op)
    /\ k.pc \in {"verify", "promote"} \/ k.done => Landed(k.op)
    /\ (k.pc = "retire" => k.done) /\ (k.done => k.pc \in LatePc)

HandlerInv == proc \in [Procs -> HandlerRow] /\ \A p \in Procs : HandlerFits(proc[p])

BlobInv == BlobTypes /\ PutsFit /\ RowFits /\ HandlerInv

-----------------------------------------------------------------------------
\* What the bounds say of each constant
LEMMA BlobConstants ==
  ASSUME BlobBounds
  PROVE  /\ MaxIncarnations \in Nat /\ MaxOps \in Nat /\ MaxLoss \in Nat /\ None = 0
         /\ Incs = 1..MaxIncarnations /\ Ops = 1..MaxOps
BY DEF BlobBounds, None, Incs, Ops

\* A handler that does not run holds nothing that could be wrong
LEMMA RestingFits ==
  ASSUME BlobBounds, BlobTypes
  PROVE  /\ Resting \in HandlerRow /\ HandlerFits(Resting) /\ Resting.pc = "idle" /\ Resting.inc = 0
         /\ Resting.ident = 0 /\ Resting.op = 0 /\ Resting.done = FALSE
<1>1. Resting \in HandlerRow BY BlobConstants DEF Resting, HandlerRow, HandlerPc, Early, LatePc
<1>2. /\ Resting.pc = "idle" /\ Resting.inc = 0 /\ Resting.ident = 0 /\ Resting.op = 0
      /\ Resting.done = FALSE
  BY BlobConstants DEF Resting
<1> QED BY <1>1, <1>2, BlobConstants DEF HandlerFits, Early, LatePc, BlobTypes

\* What a handler has found out stays so
Ahead ==
    /\ nextInc <= nextInc'
    /\ \A i \in 1..nextInc : (Gone(i) => Gone(i)') /\ (~Owns(i) => ~Owns(i)')
    /\ losses' = 0 =>
         losses = 0 /\ \A i \in Incs : Gone(i)' \/ object[i] = 0 \/ object'[i] = object[i]
    /\ \A o \in Ops : (Sent(o) => Sent(o)') /\ (Landed(o) => Landed(o)')

\* A handler that stands still
LEMMA HandlerStays ==
  ASSUME BlobBounds, BlobTypes, BlobTypes', Ahead, NEW k, HandlerFits(k)
  PROVE  HandlerFits(k)'
<1>1. k \in HandlerRow /\ k.inc <= nextInc /\ k.inc \in Nat /\ nextInc \in Nat /\ nextInc' \in Nat
      /\ nextInc <= MaxIncarnations
  BY BlobConstants DEF HandlerFits, HandlerRow, BlobTypes
<1>2. k.pc \notin Early => k.inc \in 1..nextInc /\ k.inc \in Incs BY <1>1, BlobConstants DEF HandlerFits
<1>3. k.inc <= nextInc' BY <1>1 DEF Ahead
<1>4. k.pc \in {"unsend", "wipe", "dequeue"} => Gone(k.inc)' BY <1>2 DEF HandlerFits, Ahead, Early
<1>5. k.pc \in {"erase", "sweep"} => ~Owns(k.inc)' BY <1>2 DEF HandlerFits, Ahead, Early
<1>6. k.pc \in {"promote", "settle", "check", "read"} => k.ident # 0 /\ Kept(k.inc, k.ident)'
  BY <1>2 DEF HandlerFits, Ahead, Early, Kept
<1>7. k.pc \in {"repair", "quarantine"} /\ losses' = 0 => Gone(k.inc)'
  BY <1>2 DEF HandlerFits, Ahead, Early
<1>8. k.pc = "put" => Sent(k.op)' BY DEF HandlerFits, Ahead, Sent
<1>9. k.pc \in {"verify", "promote"} \/ k.done => Landed(k.op)' BY DEF HandlerFits, Ahead, Landed, Sent
<1>10. (k.pc = "retire" => k.done) /\ (k.done => k.pc \in LatePc) /\ (k.pc \notin Early => k.inc # 0)
  BY DEF HandlerFits
<1> QED BY <1>1, <1>3, <1>4, <1>5, <1>6, <1>7, <1>8, <1>9, <1>10 DEF HandlerFits

\* No handler moves
LEMMA HandlersStay ==
  ASSUME BlobBounds, BlobTypes, BlobTypes', HandlerInv, Ahead, UNCHANGED proc
  PROVE  HandlerInv'
<1>1. ASSUME NEW q \in Procs PROVE HandlerFits(proc[q])'
  <2>1. PICK k : k = proc[q] OBVIOUS
  <2>2. HandlerFits(k)' BY <2>1, HandlerStays DEF HandlerInv
  <2>3. proc'[q] = k BY <2>1
  <2> QED BY <2>2, <2>3 DEF HandlerFits, Kept, Gone, Owns, Landed, Sent
<1> QED BY <1>1 DEF HandlerInv

\* One handler moves
LEMMA HandlerMoves ==
  ASSUME BlobBounds, BlobTypes, BlobTypes', HandlerInv, Ahead, NEW p \in Procs, NEW k, HandlerFits(k)',
         proc' = [proc EXCEPT ![p] = k]
  PROVE  HandlerInv'
<1>1. k \in HandlerRow BY DEF HandlerFits
<1>2. proc' \in [Procs -> HandlerRow] BY <1>1 DEF HandlerInv
<1>3. ASSUME NEW q \in Procs PROVE HandlerFits(proc[q])'
  <2>1. PICK h : h = IF q = p THEN k ELSE proc[q] OBVIOUS
  <2>2. HandlerFits(h)'
    <3>1. CASE q = p BY <2>1, <3>1
    <3>2. CASE q # p
      <4>1. HandlerFits(h) BY <2>1, <3>2 DEF HandlerInv
      <4> QED BY <4>1, HandlerStays
    <3> QED BY <3>1, <3>2
  <2>3. proc'[q] = h BY <2>1 DEF HandlerInv
  <2> QED BY <2>2, <2>3 DEF HandlerFits, Kept, Gone, Owns, Landed, Sent
<1> QED BY <1>2, <1>3 DEF HandlerInv

\* A handler goes on to another of its places
LEMMA HandlerAt ==
  ASSUME HandlerInv, NEW p \in Procs, NEW pc \in HandlerPc, MoveTo(p, pc)
  PROVE  \E k \in HandlerRow :
           /\ proc' = [proc EXCEPT ![p] = k] /\ k.pc = pc
           /\ k.inc = proc[p].inc /\ k.ident = proc[p].ident /\ k.op = proc[p].op /\ k.done = proc[p].done
<1> DEFINE k == [proc[p] EXCEPT !.pc = pc]
<1>1. proc[p] \in HandlerRow BY DEF HandlerInv
<1>2. /\ k \in HandlerRow /\ k.pc = pc
      /\ k.inc = proc[p].inc /\ k.ident = proc[p].ident /\ k.op = proc[p].op /\ k.done = proc[p].done
  BY <1>1 DEF HandlerRow
<1>3. proc' = [proc EXCEPT ![p] = k] BY DEF MoveTo, HandlerInv
<1> HIDE DEF k
<1> QED BY <1>2, <1>3

\* A handler ends
LEMMA HandlerEnds ==
  ASSUME BlobBounds, BlobTypes, BlobTypes', HandlerInv, Ahead, NEW p \in Procs, Finish(p)
  PROVE  HandlerInv'
<1>1. PICK k : k = Resting OBVIOUS
<1>2. HandlerFits(k) BY <1>1, RestingFits
<1>3. HandlerFits(k)' BY <1>2, HandlerStays
<1>4. proc' = [proc EXCEPT ![p] = k] BY <1>1 DEF Finish
<1> QED BY <1>3, <1>4, HandlerMoves

\* Nothing moves but a handler
LEMMA Calm ==
  ASSUME BlobBounds, BlobInv,
         UNCHANGED <<blobRow, nextInc, object, puts, cands, queue, manifest, losses>>
  PROVE  BlobTypes' /\ PutsFit' /\ RowFits' /\ Ahead /\ CondemnedStays
<1>1. BlobTypes' BY DEF BlobInv, BlobTypes
<1>2. PutsFit' BY DEF BlobInv, PutsFit
<1>3. RowFits' BY DEF BlobInv, RowFits
<1>4. nextInc \in Nat BY BlobConstants DEF BlobInv, BlobTypes
<1>5. Ahead BY <1>4 DEF Ahead, Gone, Owns, Sent, Landed
<1>6. CondemnedStays BY DEF CondemnedStays, Is, Owns
<1> QED BY <1>1, <1>2, <1>3, <1>5, <1>6

\* One handler moves and nothing else
LEMMA CalmMove ==
  ASSUME BlobBounds, BlobInv, NEW p \in Procs, NEW k, HandlerFits(k), proc' = [proc EXCEPT ![p] = k],
         UNCHANGED <<blobRow, nextInc, object, puts, cands, queue, manifest, losses>>
  PROVE  BlobInv' /\ CondemnedStays
<1>1. BlobTypes' /\ PutsFit' /\ RowFits' /\ Ahead /\ CondemnedStays BY Calm
<1>2. BlobTypes /\ HandlerInv BY DEF BlobInv
<1>3. HandlerFits(k)' BY <1>1, <1>2, HandlerStays
<1>4. HandlerInv' BY <1>1, <1>2, <1>3, HandlerMoves
<1> QED BY <1>1, <1>4 DEF BlobInv

LEMMA CalmEnd ==
  ASSUME BlobBounds, BlobInv, NEW p \in Procs, Finish(p),
         UNCHANGED <<blobRow, nextInc, object, puts, cands, queue, manifest, losses>>
  PROVE  BlobInv' /\ CondemnedStays
<1>1. PICK k : k = Resting OBVIOUS
<1>2. HandlerFits(k) BY <1>1, RestingFits DEF BlobInv
<1>3. proc' = [proc EXCEPT ![p] = k] BY <1>1 DEF Finish
<1> QED BY <1>2, <1>3, CalmMove

\* A handler goes on to another of its places, nothing else moves
LEMMA CalmGo ==
  ASSUME BlobBounds, BlobInv, NEW p \in Procs, NEW pc \in HandlerPc, MoveTo(p, pc),
         UNCHANGED <<blobRow, nextInc, object, puts, cands, queue, manifest, losses>>,
         ASSUME NEW k \in HandlerRow, k.pc = pc, k.inc = proc[p].inc, k.ident = proc[p].ident,
                k.op = proc[p].op, k.done = proc[p].done
         PROVE  HandlerFits(k)
  PROVE  BlobInv' /\ CondemnedStays
<1>1. PICK k \in HandlerRow :
           /\ proc' = [proc EXCEPT ![p] = k] /\ k.pc = pc
           /\ k.inc = proc[p].inc /\ k.ident = proc[p].ident /\ k.op = proc[p].op /\ k.done = proc[p].done
  BY HandlerAt DEF BlobInv
<1>2. HandlerFits(k) BY <1>1
<1> QED BY <1>1, <1>2, CalmMove

\* What the row says when it is ready, and what it never says
LEMMA RowFacts ==
  ASSUME BlobBounds, BlobInv
  PROVE  /\ blobRow \in BlobRecord /\ blobRow.inc \in 0..MaxIncarnations /\ blobRow.inc <= nextInc
         /\ blobRow.ident \in 0..MaxOps
         /\ blobRow.state \in BlobStates \cup {"none"}
         /\ blobRow.state = "none" <=> blobRow = NoBlob
         /\ blobRow.state # "none" => blobRow.inc # 0 /\ blobRow.inc \in Incs /\ Owns(blobRow.inc)
         /\ blobRow.state = "ready" => blobRow.ident # 0 /\ Kept(blobRow.inc, blobRow.ident)
         /\ blobRow.state = "deleting" => Gone(blobRow.inc)
<1>1. RowFits BY DEF BlobInv
<1>2. blobRow \in BlobRecord BY <1>1 DEF RowFits
<1>3. NoBlob.state = "none" BY DEF NoBlob
<1>4. blobRow.state = "none" <=> blobRow = NoBlob BY <1>1, <1>3 DEF RowFits
<1>5. /\ blobRow.inc \in 0..MaxIncarnations /\ blobRow.ident \in 0..MaxOps
      /\ blobRow.state \in BlobStates \cup {"none"}
  BY <1>2 DEF BlobRecord
<1>6. blobRow.state # "none" => blobRow.inc # 0 /\ Owns(blobRow.inc) BY <1>1 DEF RowFits, Owns
<1>7. blobRow.state # "none" => blobRow.inc \in Incs BY <1>5, <1>6, BlobConstants
<1>8. blobRow.state = "ready" => blobRow.ident # 0 /\ Kept(blobRow.inc, blobRow.ident)
  BY <1>1 DEF RowFits, Kept
<1> QED BY <1>1, <1>2, <1>4, <1>5, <1>6, <1>7, <1>8 DEF RowFits, Gone

\* What a handler holds, as far as its place says
LEMMA HandlerFacts ==
  ASSUME BlobBounds, BlobInv, NEW p \in Procs
  PROVE  /\ proc[p] \in HandlerRow /\ HandlerFits(proc[p]) /\ proc[p].inc \in 0..MaxIncarnations
         /\ proc[p].pc \notin Early => proc[p].inc \in Incs
<1>1. proc[p] \in HandlerRow /\ HandlerFits(proc[p]) BY DEF BlobInv, HandlerInv
<1>2. proc[p].inc \in 0..MaxIncarnations BY <1>1 DEF HandlerRow
<1> QED BY <1>1, <1>2, BlobConstants DEF HandlerFits

-----------------------------------------------------------------------------
(* Steps that read.                                                        *)

LEMMA UploadBeginStep ==
  ASSUME BlobBounds, BlobInv, NEW u \in Uploaders, UploadBegin(u)
  PROVE  BlobInv' /\ CondemnedStays
<1> DEFINE pc == CASE blobRow.state = "none" -> "reserve"
                   [] blobRow.state = "ready" -> "check"
                   [] blobRow.state = "pending" -> "lease"
<1>1. u \in Procs BY DEF Procs
<1>2. blobRow.state \in {"none", "ready", "pending"} BY RowFacts DEF UploadBegin, BlobStates
<1>3. /\ blobRow.state = "none" => pc = "reserve"
      /\ blobRow.state = "ready" => pc = "check"
      /\ blobRow.state = "pending" => pc = "lease"
  OBVIOUS
<1>4. proc' = [proc EXCEPT ![u] = [Resting EXCEPT !.pc = pc, !.inc = blobRow.inc, !.ident = blobRow.ident]]
  BY DEF UploadBegin
<1> HIDE DEF pc
<1>5. pc \in HandlerPc BY <1>2, <1>3 DEF HandlerPc, Early
<1>6. PICK n \in HandlerRow : n = Resting /\ n.done = FALSE BY RestingFits DEF BlobInv
<1> DEFINE k == [n EXCEPT !.pc = pc, !.inc = blobRow.inc, !.ident = blobRow.ident]
<1>7. k \in HandlerRow /\ k.pc = pc /\ k.inc = blobRow.inc /\ k.ident = blobRow.ident /\ k.done = FALSE
  BY <1>5, <1>6, RowFacts DEF HandlerRow
<1>8. proc' = [proc EXCEPT ![u] = k] BY <1>4, <1>6
<1> HIDE DEF k
<1>9. HandlerFits(k) BY <1>2, <1>3, <1>7, RowFacts DEF HandlerFits, Early
<1> QED BY <1>1, <1>8, <1>9, CalmMove DEF UploadBegin

LEMMA AdoptStep ==
  ASSUME BlobBounds, BlobInv, NEW u \in Uploaders, Adopt(u)
  PROVE  BlobInv' /\ CondemnedStays
<1>1. u \in Procs BY DEF Procs
<1>2. CASE blobRow.state \notin {"pending", "ready"} BY <1>1, <1>2, CalmEnd DEF Adopt
<1>3. CASE blobRow.state \in {"pending", "ready"}
  <2> DEFINE pc == IF blobRow.state = "ready" THEN "check" ELSE "lease"
             k == [proc[u] EXCEPT !.pc = pc, !.inc = blobRow.inc, !.ident = blobRow.ident]
  <2>1. proc[u] \in HandlerRow /\ HandlerFits(proc[u]) /\ proc[u].pc = "adopt"
    BY <1>1, HandlerFacts DEF Adopt, Reached
  <2>2. pc \in HandlerPc /\ (blobRow.state = "ready" => pc = "check") /\ (blobRow.state # "ready" => pc = "lease")
    BY DEF HandlerPc
  <2>3. proc' = [proc EXCEPT ![u] = k] BY <1>1, <1>3 DEF Adopt, BlobInv, HandlerInv
  <2> HIDE DEF pc
  <2>4. /\ k \in HandlerRow /\ k.pc = pc /\ k.inc = blobRow.inc /\ k.ident = blobRow.ident
        /\ k.done = proc[u].done
    BY <2>1, <2>2, RowFacts DEF HandlerRow
  <2>5. ~proc[u].done BY <2>1 DEF HandlerFits, LatePc
  <2> HIDE DEF k
  <2>6. HandlerFits(k) BY <1>3, <2>2, <2>4, <2>5, RowFacts DEF HandlerFits, Early
  <2> QED BY <1>1, <2>3, <2>6, CalmMove DEF Adopt
<1> QED BY <1>2, <1>3

LEMMA CheckStep ==
  ASSUME BlobBounds, BlobInv, NEW u \in Uploaders, Check(u)
  PROVE  BlobInv' /\ CondemnedStays
<1> DEFINE pc == CASE object[proc[u].inc] = None -> "repair"
                   [] object[proc[u].inc] = proc[u].ident -> "ack"
                   [] OTHER -> "quarantine"
<1>1. u \in Procs BY DEF Procs
<1>2. HandlerFits(proc[u]) /\ proc[u].pc = "check" BY <1>1, HandlerFacts DEF Check, Reached
<1>3. /\ pc \in {"repair", "ack", "quarantine"}
      /\ object[proc[u].inc] = proc[u].ident /\ proc[u].ident # 0 => pc = "ack"
  BY BlobConstants
<1>4. MoveTo(u, pc) BY DEF Check
<1> HIDE DEF pc
<1>5. pc \in HandlerPc BY <1>3 DEF HandlerPc
<1>6. ASSUME NEW k \in HandlerRow, k.pc = pc, k.inc = proc[u].inc, k.ident = proc[u].ident,
             k.op = proc[u].op, k.done = proc[u].done
      PROVE  HandlerFits(k)
  BY <1>2, <1>3, <1>6 DEF HandlerFits, Early, LatePc, Kept
<1> QED BY <1>1, <1>4, <1>5, <1>6, CalmGo DEF Check

LEMMA VerifyStep ==
  ASSUME BlobBounds, BlobInv, NEW u \in Uploaders, Verify(u)
  PROVE  BlobInv' /\ CondemnedStays
<1>1. u \in Procs /\ "disown" \in HandlerPc BY DEF Procs, HandlerPc, LatePc
<1>2. HandlerFits(proc[u]) /\ proc[u].pc = "verify" /\ proc[u] \in HandlerRow /\ proc[u].inc \in Incs
  BY <1>1, HandlerFacts DEF Verify, Reached, Early
<1>3. CASE MoveTo(u, "disown")
  <2>1. ASSUME NEW k \in HandlerRow, k.pc = "disown", k.inc = proc[u].inc, k.ident = proc[u].ident,
               k.op = proc[u].op, k.done = proc[u].done
        PROVE  HandlerFits(k)
    BY <1>2, <2>1 DEF HandlerFits, Early, LatePc
  <2> QED BY <1>1, <1>3, <2>1, CalmGo DEF Verify
<1>4. CASE /\ object[proc[u].inc] # None
           /\ proc' = [proc EXCEPT ![u].pc = "promote", ![u].ident = object[proc[u].inc]]
  <2> DEFINE k == [proc[u] EXCEPT !.pc = "promote", !.ident = object[proc[u].inc]]
  <2>1. object[proc[u].inc] \in 0..MaxOps /\ "promote" \in HandlerPc
    BY <1>2 DEF BlobInv, BlobTypes, HandlerPc, LatePc
  <2>2. /\ k \in HandlerRow /\ k.pc = "promote" /\ k.inc = proc[u].inc /\ k.ident = object[proc[u].inc]
        /\ k.op = proc[u].op /\ k.done = proc[u].done
    BY <1>2, <2>1 DEF HandlerRow
  <2>3. proc' = [proc EXCEPT ![u] = k] BY <1>1, <1>4 DEF BlobInv, HandlerInv
  <2> HIDE DEF k
  <2>4. HandlerFits(k) BY <1>2, <1>4, <2>2, BlobConstants DEF HandlerFits, Early, LatePc, Kept
  <2> QED BY <1>1, <2>3, <2>4, CalmMove DEF Verify
<1> QED BY <1>3, <1>4 DEF Verify

LEMMA PutFailsStep ==
  ASSUME BlobBounds, BlobInv, NEW u \in Uploaders, PutFails(u)
  PROVE  BlobInv' /\ CondemnedStays
<1>1. u \in Procs /\ "disown" \in HandlerPc BY DEF Procs, HandlerPc, LatePc
<1>2. HandlerFits(proc[u]) /\ proc[u].pc = "put" BY <1>1, HandlerFacts DEF PutFails, Reached
<1>3. ASSUME NEW k \in HandlerRow, k.pc = "disown", k.inc = proc[u].inc, k.ident = proc[u].ident,
             k.op = proc[u].op, k.done = proc[u].done
      PROVE  HandlerFits(k)
  BY <1>2, <1>3 DEF HandlerFits, Early, LatePc
<1> QED BY <1>1, <1>3, CalmGo DEF PutFails

LEMMA DisownStep ==
  ASSUME BlobBounds, BlobInv, NEW u \in Uploaders, Disown(u)
  PROVE  BlobInv' /\ CondemnedStays
<1>1. u \in Procs /\ "retire" \in HandlerPc /\ "erase" \in HandlerPc BY DEF Procs, HandlerPc, LatePc
<1>2. HandlerFits(proc[u]) /\ proc[u].pc = "disown" BY <1>1, HandlerFacts DEF Disown, Reached
<1>3. CASE Finish(u) BY <1>1, <1>3, CalmEnd DEF Disown
<1>4. CASE proc[u].done /\ MoveTo(u, "retire")
  <2>1. ASSUME NEW k \in HandlerRow, k.pc = "retire", k.inc = proc[u].inc, k.ident = proc[u].ident,
               k.op = proc[u].op, k.done = proc[u].done
        PROVE  HandlerFits(k)
    BY <1>2, <1>4, <2>1 DEF HandlerFits, Early, LatePc
  <2> QED BY <1>1, <1>4, <2>1, CalmGo DEF Disown
<1>5. CASE ~Owns(proc[u].inc) /\ MoveTo(u, "erase")
  <2>1. ASSUME NEW k \in HandlerRow, k.pc = "erase", k.inc = proc[u].inc, k.ident = proc[u].ident,
               k.op = proc[u].op, k.done = proc[u].done
        PROVE  HandlerFits(k)
    BY <1>2, <1>5, <2>1 DEF HandlerFits, Early, LatePc
  <2> QED BY <1>1, <1>5, <2>1, CalmGo DEF Disown
<1> QED BY <1>3, <1>4, <1>5 DEF Disown, Leave

LEMMA DeleteBeginStep ==
  ASSUME BlobBounds, BlobInv, NEW d \in Deleters, DeleteBegin(d)
  PROVE  BlobInv' /\ CondemnedStays
<1> DEFINE pc == CASE blobRow.state = "pending" -> "cancel"
                   [] blobRow.state = "deleting" -> "wipe"
                   [] OTHER -> "condemn"
<1>1. d \in Procs BY DEF Procs
<1>2. blobRow.state # "none" BY RowFacts DEF DeleteBegin
<1>3. pc \in {"cancel", "wipe", "condemn"} /\ (pc = "wipe" => blobRow.state = "deleting") OBVIOUS
<1>4. proc' = [proc EXCEPT ![d] = [Resting EXCEPT !.inc = blobRow.inc, !.pc = pc]] BY DEF DeleteBegin
<1> HIDE DEF pc
<1>5. pc \in HandlerPc BY <1>3 DEF HandlerPc
<1>6. PICK n \in HandlerRow : n = Resting /\ n.done = FALSE BY RestingFits DEF BlobInv
<1> DEFINE k == [n EXCEPT !.inc = blobRow.inc, !.pc = pc]
<1>7. k \in HandlerRow /\ k.pc = pc /\ k.inc = blobRow.inc /\ k.done = FALSE
  BY <1>5, <1>6, RowFacts DEF HandlerRow
<1>8. proc' = [proc EXCEPT ![d] = k] BY <1>4, <1>6
<1> HIDE DEF k
<1>9. HandlerFits(k) BY <1>2, <1>3, <1>7, RowFacts DEF HandlerFits, Early
<1> QED BY <1>1, <1>8, <1>9, CalmMove DEF DeleteBegin

LEMMA HeadStep ==
  ASSUME BlobBounds, BlobInv, NEW p \in Procs, Head(p)
  PROVE  BlobInv' /\ CondemnedStays
<1>1. "drop" \in HandlerPc /\ "defer" \in HandlerPc BY DEF HandlerPc
<1>2. HandlerFits(proc[p]) /\ proc[p].pc = "head" BY HandlerFacts DEF Head, Reached
<1>3. ASSUME NEW pc \in {"drop", "defer"}, NEW k \in HandlerRow, k.pc = pc, k.inc = proc[p].inc,
             k.ident = proc[p].ident, k.op = proc[p].op, k.done = proc[p].done
      PROVE  HandlerFits(k)
  BY <1>2, <1>3 DEF HandlerFits, Early, LatePc
<1>4. CASE Finish(p) BY <1>4, CalmEnd DEF Head
<1>5. CASE MoveTo(p, "drop") BY <1>1, <1>3, <1>5, CalmGo DEF Head
<1>6. CASE MoveTo(p, "defer") BY <1>1, <1>3, <1>6, CalmGo DEF Head
<1> QED BY <1>4, <1>5, <1>6 DEF Head

LEMMA InspectStep ==
  ASSUME BlobBounds, BlobInv, NEW r \in Reconcilers, Inspect(r)
  PROVE  BlobInv' /\ CondemnedStays
<1> DEFINE pc == IF object[proc[r].inc] = None THEN "defer" ELSE "settle"
           k == [proc[r] EXCEPT !.pc = pc, !.ident = object[proc[r].inc]]
<1>1. r \in Procs BY DEF Procs, Passes
<1>2. HandlerFits(proc[r]) /\ proc[r].pc = "inspect" /\ proc[r] \in HandlerRow /\ proc[r].inc \in Incs
  BY <1>1, HandlerFacts DEF Inspect, Reached, Early
<1>3. pc \in {"defer", "settle"} /\ (pc = "settle" => object[proc[r].inc] # None) OBVIOUS
<1>4. proc' = [proc EXCEPT ![r] = k] BY <1>1 DEF Inspect, BlobInv, HandlerInv
<1> HIDE DEF pc
<1>5. object[proc[r].inc] \in 0..MaxOps /\ pc \in HandlerPc
  BY <1>2, <1>3 DEF BlobInv, BlobTypes, HandlerPc
<1>6. /\ k \in HandlerRow /\ k.pc = pc /\ k.inc = proc[r].inc /\ k.ident = object[proc[r].inc]
      /\ k.op = proc[r].op /\ k.done = proc[r].done
  BY <1>2, <1>5 DEF HandlerRow
<1> HIDE DEF k
<1>7. HandlerFits(k) BY <1>2, <1>3, <1>6, BlobConstants DEF HandlerFits, Early, LatePc, Kept
<1> QED BY <1>1, <1>4, <1>7, CalmMove DEF Inspect

LEMMA SweepBeginStep ==
  ASSUME BlobBounds, BlobInv, NEW s \in Sweepers, NEW o \in Ops, SweepBegin(s, o)
  PROVE  BlobInv' /\ CondemnedStays
<1>1. s \in Procs /\ "sweep" \in HandlerPc BY DEF Procs, HandlerPc
<1>2. /\ puts[o].inc \in 0..MaxIncarnations /\ puts[o].inc # 0 /\ puts[o].inc <= nextInc
      /\ ~Owns(puts[o].inc)
  BY DEF SweepBegin, Orphaned, BlobInv, PutsFit, PutRecord
<1>3. PICK n \in HandlerRow : n = Resting /\ n.done = FALSE BY RestingFits DEF BlobInv
<1> DEFINE k == [n EXCEPT !.pc = "sweep", !.inc = puts[o].inc]
<1>4. k \in HandlerRow /\ k.pc = "sweep" /\ k.inc = puts[o].inc /\ k.done = FALSE
  BY <1>1, <1>2, <1>3 DEF HandlerRow
<1>5. proc' = [proc EXCEPT ![s] = k] BY <1>3 DEF SweepBegin
<1> HIDE DEF k
<1>6. HandlerFits(k) BY <1>2, <1>4 DEF HandlerFits, Early
<1> QED BY <1>1, <1>5, <1>6, CalmMove DEF SweepBegin

LEMMA ReadStep ==
  ASSUME BlobBounds, BlobInv, NEW g \in Readers, ReadBegin(g) \/ Read(g)
  PROVE  BlobInv' /\ CondemnedStays
<1>1. g \in Procs /\ "read" \in HandlerPc /\ "quarantine" \in HandlerPc BY DEF Procs, HandlerPc
<1>2. CASE ReadBegin(g)
  <2>1. blobRow.state = "ready" BY <1>2 DEF ReadBegin
  <2>2. PICK n \in HandlerRow : n = Resting /\ n.done = FALSE BY RestingFits DEF BlobInv
  <2> DEFINE k == [n EXCEPT !.pc = "read", !.inc = blobRow.inc, !.ident = blobRow.ident]
  <2>3. /\ k \in HandlerRow /\ k.pc = "read" /\ k.inc = blobRow.inc /\ k.ident = blobRow.ident
        /\ k.done = FALSE
    BY <1>1, <2>2, RowFacts DEF HandlerRow
  <2>4. proc' = [proc EXCEPT ![g] = k] BY <1>2, <2>2 DEF ReadBegin
  <2> HIDE DEF k
  <2>5. HandlerFits(k) BY <2>1, <2>3, RowFacts DEF HandlerFits, Early
  <2> QED BY <1>1, <1>2, <2>4, <2>5, CalmMove DEF ReadBegin
<1>3. CASE Read(g)
  <2>1. HandlerFits(proc[g]) /\ proc[g].pc = "read" BY <1>1, <1>3, HandlerFacts DEF Read, Reached
  <2>2. CASE object[proc[g].inc] = proc[g].ident BY <1>1, <1>3, <2>2, CalmEnd DEF Read
  <2>3. CASE object[proc[g].inc] # proc[g].ident
    <3>1. ASSUME NEW k \in HandlerRow, k.pc = "quarantine", k.inc = proc[g].inc, k.ident = proc[g].ident,
                 k.op = proc[g].op, k.done = proc[g].done
          PROVE  HandlerFits(k)
      BY <2>1, <2>3, <3>1 DEF HandlerFits, Early, LatePc, Kept
    <3> QED BY <1>1, <1>3, <2>3, <3>1, CalmGo DEF Read
  <2> QED BY <2>2, <2>3
<1> QED BY <1>2, <1>3

-----------------------------------------------------------------------------
(* Steps that update the row.                                              *)

\* The row of an incarnation takes another state
LEMMA RowMoves ==
  ASSUME BlobBounds, BlobInv, NEW r \in BlobRecord, blobRow' = r,
         blobRow.state # "none", r.inc = blobRow.inc, r.state # "none",
         blobRow.state = "deleting" => r.state = "deleting",
         blobRow.state = "quarantined" => r.state \in {"quarantined", "deleting"},
         r.state = "ready" => r.ident # 0 /\ (losses = 0 => object[r.inc] = r.ident),
         losses = 0 /\ blobRow.state = "ready" /\ r.state # "ready" => \A k \in Keys : manifest[k] # "ready",
         queue' \in QueueRecord, queue'.present = queue.present,
         UNCHANGED <<nextInc, object, puts, manifest, losses>>
  PROVE  BlobTypes' /\ RowFits' /\ Ahead /\ CondemnedStays
<1>1. BlobTypes' BY DEF BlobInv, BlobTypes
<1>2. RowFits' BY RowFacts DEF BlobInv, RowFits, BlobRecord, BlobStates
<1>3. nextInc \in Nat BY BlobConstants DEF BlobInv, BlobTypes
<1>4. \A i \in 1..nextInc : (Gone(i) => Gone(i)') /\ (~Owns(i) => ~Owns(i)') BY DEF Gone, Owns
<1>5. Ahead BY <1>3, <1>4 DEF Ahead, Sent, Landed
<1>6. CondemnedStays BY DEF CondemnedStays, Is, Owns
<1> QED BY <1>1, <1>2, <1>5, <1>6

\* The columns an update of the state writes
LEMMA MovedRow ==
  ASSUME BlobBounds, BlobInv, NEW state \in BlobStates
  PROVE  /\ Moved(state) \in BlobRecord /\ Moved(state).state = state
         /\ Moved(state).inc = blobRow.inc /\ Moved(state).ident = blobRow.ident
<1>1. blobRow \in BlobRecord BY RowFacts
<1> QED BY <1>1 DEF Moved, BlobRecord

\* The PUTs stay as they are
LEMMA PutsStay ==
  ASSUME BlobInv, UNCHANGED <<puts, cands, nextInc>>
  PROVE  PutsFit'
BY DEF BlobInv, PutsFit

\* The handler of an update has nothing more to rely on
LEMMA RowEnds ==
  ASSUME BlobBounds, BlobInv, BlobTypes', RowFits', PutsFit', Ahead, NEW p \in Procs, Finish(p)
  PROVE  BlobInv'
<1>1. BlobTypes /\ HandlerInv BY DEF BlobInv
<1>2. HandlerInv' BY <1>1, HandlerEnds
<1> QED BY <1>2 DEF BlobInv

LEMMA RowGoes ==
  ASSUME BlobBounds, BlobInv, BlobTypes', RowFits', PutsFit', Ahead, NEW p \in Procs, NEW pc \in HandlerPc,
         MoveTo(p, pc),
         ASSUME NEW k \in HandlerRow, k.pc = pc, k.inc = proc[p].inc, k.ident = proc[p].ident,
                k.op = proc[p].op, k.done = proc[p].done
         PROVE  HandlerFits(k)'
  PROVE  BlobInv'
<1>1. PICK k \in HandlerRow :
           /\ proc' = [proc EXCEPT ![p] = k] /\ k.pc = pc
           /\ k.inc = proc[p].inc /\ k.ident = proc[p].ident /\ k.op = proc[p].op /\ k.done = proc[p].done
  BY HandlerAt DEF BlobInv
<1>2. HandlerFits(k)' BY <1>1
<1>3. BlobTypes /\ HandlerInv BY DEF BlobInv
<1>4. HandlerInv' BY <1>1, <1>2, <1>3, HandlerMoves
<1> QED BY <1>4 DEF BlobInv

LEMMA QuarantineBlobStep ==
  ASSUME BlobBounds, BlobInv, NEW p \in Uploaders \cup Readers, QuarantineBlob(p)
  PROVE  BlobInv' /\ CondemnedStays
<1>1. p \in Procs BY DEF Procs
<1>2. HandlerFits(proc[p]) /\ proc[p].pc = "quarantine"
  BY <1>1, HandlerFacts DEF QuarantineBlob, Reached
<1>3. CASE ~Is(proc[p].inc, {"ready", "pending"}) BY <1>1, <1>3, CalmEnd DEF QuarantineBlob
<1>4. CASE Is(proc[p].inc, {"ready", "pending"})
  <2>1. PICK r \in BlobRecord : /\ r = Moved("quarantined") /\ r.state = "quarantined"
                                /\ r.inc = blobRow.inc /\ r.ident = blobRow.ident
    BY MovedRow DEF BlobStates
  <2>2. blobRow' = r BY <1>4, <2>1 DEF QuarantineBlob
  <2>3. /\ blobRow.state \in {"ready", "pending"} /\ Owns(proc[p].inc) /\ losses # 0
    BY <1>2, <1>4 DEF Is, HandlerFits, Gone
  <2>4. queue' \in QueueRecord /\ queue' = queue BY DEF QuarantineBlob, BlobInv, RowFits
  <2>5. UNCHANGED <<nextInc, object, puts, cands, manifest, losses>> BY DEF QuarantineBlob
  <2>6. BlobTypes' /\ RowFits' /\ Ahead /\ CondemnedStays BY <2>1, <2>2, <2>3, <2>4, <2>5, RowMoves
  <2>7. PutsFit' BY <2>5, PutsStay
  <2> QED BY <1>1, <2>6, <2>7, RowEnds DEF QuarantineBlob
<1> QED BY <1>3, <1>4

LEMMA RepairStep ==
  ASSUME BlobBounds, BlobInv, NEW u \in Uploaders, Repair(u)
  PROVE  BlobInv' /\ CondemnedStays
<1>1. u \in Procs /\ "lease" \in HandlerPc BY DEF Procs, HandlerPc
<1>2. HandlerFits(proc[u]) /\ proc[u].pc = "repair" BY <1>1, HandlerFacts DEF Repair, Reached
<1>3. CASE ~Is(proc[u].inc, {"ready"}) BY <1>1, <1>3, CalmEnd DEF Repair
<1>4. CASE Is(proc[u].inc, {"ready"})
  <2>0. PICK m \in BlobRecord : m = Moved("pending") /\ m.state = "pending" /\ m.inc = blobRow.inc
    BY MovedRow DEF BlobStates
  <2> DEFINE y == [m EXCEPT !.ident = None, !.due = FALSE]
  <2>1. y \in BlobRecord /\ y.state = "pending" /\ y.inc = blobRow.inc
    <3>1. None \in 0..MaxOps BY BlobConstants
    <3> QED BY <2>0, <3>1 DEF BlobRecord
  <2>2. blobRow' = y BY <1>4, <2>0 DEF Repair
  <2> HIDE DEF y
  <2>3. blobRow.state = "ready" /\ Owns(proc[u].inc) /\ losses # 0
    BY <1>2, <1>4 DEF Is, HandlerFits, Gone
  <2>4. queue' \in QueueRecord /\ queue' = queue BY DEF Repair, BlobInv, RowFits
  <2>5. UNCHANGED <<nextInc, object, puts, cands, manifest, losses>> BY DEF Repair
  <2>6. BlobTypes' /\ RowFits' /\ Ahead /\ CondemnedStays BY <2>1, <2>2, <2>3, <2>4, <2>5, RowMoves
  <2>7. PutsFit' BY <2>5, PutsStay
  <2>8. ASSUME NEW k \in HandlerRow, k.pc = "lease", k.inc = proc[u].inc, k.ident = proc[u].ident,
               k.op = proc[u].op, k.done = proc[u].done
        PROVE  HandlerFits(k)'
    BY <1>2, <2>5, <2>8 DEF HandlerFits, Early, LatePc
  <2> QED BY <1>1, <1>4, <2>6, <2>7, <2>8, RowGoes DEF Repair
<1> QED BY <1>3, <1>4

LEMMA LeaseStep ==
  ASSUME BlobBounds, BlobInv, NEW u \in Uploaders, Lease(u)
  PROVE  BlobInv' /\ CondemnedStays
<1>1. u \in Procs /\ "register" \in HandlerPc BY DEF Procs, HandlerPc
<1>2. HandlerFits(proc[u]) /\ proc[u].pc = "lease" BY <1>1, HandlerFacts DEF Lease, Reached
<1>3. CASE UNCHANGED blobRow /\ Finish(u) BY <1>1, <1>3, CalmEnd DEF Lease
<1>4. CASE /\ Is(proc[u].inc, {"pending"})
           /\ blobRow' = [Moved("pending") EXCEPT !.due = FALSE]
           /\ MoveTo(u, "register")
  <2>0. PICK m \in BlobRecord : m = Moved("pending") /\ m.state = "pending" /\ m.inc = blobRow.inc
    BY MovedRow DEF BlobStates
  <2> DEFINE y == [m EXCEPT !.due = FALSE]
  <2>1. y \in BlobRecord /\ y.state = "pending" /\ y.inc = blobRow.inc BY <2>0 DEF BlobRecord
  <2>2. blobRow' = y BY <1>4, <2>0
  <2> HIDE DEF y
  <2>3. blobRow.state = "pending" BY <1>4 DEF Is
  <2>4. queue' \in QueueRecord /\ queue' = queue BY DEF Lease, BlobInv, RowFits
  <2>5. UNCHANGED <<nextInc, object, puts, cands, manifest, losses>> BY DEF Lease
  <2>6. BlobTypes' /\ RowFits' /\ Ahead /\ CondemnedStays BY <2>1, <2>2, <2>3, <2>4, <2>5, RowMoves
  <2>7. PutsFit' BY <2>5, PutsStay
  <2>8. ASSUME NEW k \in HandlerRow, k.pc = "register", k.inc = proc[u].inc, k.ident = proc[u].ident,
               k.op = proc[u].op, k.done = proc[u].done
        PROVE  HandlerFits(k)'
    BY <1>2, <2>5, <2>8 DEF HandlerFits, Early, LatePc
  <2> QED BY <1>1, <1>4, <2>6, <2>7, <2>8, RowGoes
<1> QED BY <1>3, <1>4 DEF Lease

LEMMA CancelStep ==
  ASSUME BlobBounds, BlobInv, NEW d \in Deleters, Cancel(d)
  PROVE  BlobInv' /\ CondemnedStays
<1>1. d \in Procs /\ "unsend" \in HandlerPc BY DEF Procs, HandlerPc
<1>2. HandlerFits(proc[d]) /\ proc[d].pc = "cancel" BY <1>1, HandlerFacts DEF Cancel, Reached
<1>3. CASE ~Cancellable(d) BY <1>1, <1>3, CalmEnd DEF Cancel
<1>4. CASE Cancellable(d)
  <2>0. PICK m \in BlobRecord : m = Moved("deleting") /\ m.state = "deleting" /\ m.inc = blobRow.inc
    BY MovedRow DEF BlobStates
  <2> DEFINE y == [m EXCEPT !.grace = TRUE, !.due = FALSE]
  <2>1. y \in BlobRecord /\ y.state = "deleting" /\ y.inc = blobRow.inc BY <2>0 DEF BlobRecord
  <2>2. blobRow' = y BY <1>4, <2>0 DEF Cancel
  <2> HIDE DEF y
  <2>3. blobRow.state = "pending" BY <1>4 DEF Cancellable, Is
  <2>4. queue' \in QueueRecord /\ queue' = queue BY DEF Cancel, BlobInv, RowFits
  <2>5. UNCHANGED <<nextInc, object, puts, cands, manifest, losses>> BY DEF Cancel
  <2>6. BlobTypes' /\ RowFits' /\ Ahead /\ CondemnedStays BY <2>1, <2>2, <2>3, <2>4, <2>5, RowMoves
  <2>7. PutsFit' BY <2>5, PutsStay
  <2>8. ASSUME NEW k \in HandlerRow, k.pc = "unsend", k.inc = proc[d].inc, k.ident = proc[d].ident,
               k.op = proc[d].op, k.done = proc[d].done
        PROVE  HandlerFits(k)'
    BY <1>2, <2>1, <2>2, <2>5, <2>8 DEF HandlerFits, Early, LatePc, Gone
  <2> QED BY <1>1, <1>4, <2>6, <2>7, <2>8, RowGoes DEF Cancel
<1> QED BY <1>3, <1>4

LEMMA CondemnStep ==
  ASSUME BlobBounds, BlobInv, NEW d \in Deleters, Condemn(d)
  PROVE  BlobInv' /\ CondemnedStays
<1>1. d \in Procs /\ "wipe" \in HandlerPc BY DEF Procs, HandlerPc
<1>2. HandlerFits(proc[d]) /\ proc[d].pc = "condemn" BY <1>1, HandlerFacts DEF Condemn, Reached
<1>3. CASE ~Condemnable(d) BY <1>1, <1>3, CalmEnd DEF Condemn
<1>4. CASE Condemnable(d)
  <2>1. PICK r \in BlobRecord : r = Moved("deleting") /\ r.state = "deleting" /\ r.inc = blobRow.inc
    BY MovedRow DEF BlobStates
  <2>2. blobRow' = r BY <1>4, <2>1 DEF Condemn
  <2>3. blobRow.state \in {"ready", "quarantined"} /\ \A k \in Keys : manifest[k] # "ready"
    BY <1>4 DEF Condemnable, Is, Bound
  <2>4. queue' \in QueueRecord /\ queue' = queue BY DEF Condemn, BlobInv, RowFits
  <2>5. UNCHANGED <<nextInc, object, puts, cands, manifest, losses>> BY DEF Condemn
  <2>6. BlobTypes' /\ RowFits' /\ Ahead /\ CondemnedStays BY <2>1, <2>2, <2>3, <2>4, <2>5, RowMoves
  <2>7. PutsFit' BY <2>5, PutsStay
  <2>8. ASSUME NEW k \in HandlerRow, k.pc = "wipe", k.inc = proc[d].inc, k.ident = proc[d].ident,
               k.op = proc[d].op, k.done = proc[d].done
        PROVE  HandlerFits(k)'
    BY <1>2, <2>1, <2>2, <2>5, <2>8 DEF HandlerFits, Early, LatePc, Gone
  <2> QED BY <1>1, <1>4, <2>6, <2>7, <2>8, RowGoes DEF Condemn
<1> QED BY <1>3, <1>4

\* The collector looks only at live references, which a manifest that is served is
LEMMA CollectStep ==
  ASSUME BlobBounds, BlobInv, NEW c \in Collectors, Collect(c)
  PROVE  BlobInv' /\ CondemnedStays
<1>1. c \in Procs /\ "dequeue" \in HandlerPc /\ "reconsider" \in HandlerPc BY DEF Procs, Passes, HandlerPc
<1>2. HandlerFits(proc[c]) /\ proc[c].pc = "collect" BY <1>1, HandlerFacts DEF Collect, Reached
<1>3. CASE ~Collectable(c)
  <2>1. MoveTo(c, "reconsider") BY <1>3 DEF Collect
  <2>2. UNCHANGED <<blobRow, nextInc, object, puts, cands, queue, manifest, losses>> BY <1>3 DEF Collect
  <2>3. ASSUME NEW k \in HandlerRow, k.pc = "reconsider", k.inc = proc[c].inc, k.ident = proc[c].ident,
               k.op = proc[c].op, k.done = proc[c].done
        PROVE  HandlerFits(k)
    BY <1>2, <2>3 DEF HandlerFits, Early, LatePc
  <2> QED BY <1>1, <2>1, <2>2, <2>3, CalmGo
<1>4. CASE Collectable(c)
  <2>1. PICK r \in BlobRecord : r = Moved("deleting") /\ r.state = "deleting" /\ r.inc = blobRow.inc
    BY MovedRow DEF BlobStates
  <2>2. blobRow' = r /\ MoveTo(c, "dequeue") BY <1>4, <2>1 DEF Collect
  <2>3. blobRow.state # "none" /\ \A k \in Keys : manifest[k] # "ready"
    BY <1>4 DEF Collectable, Unchanged, Owns, Live
  <2>4. queue' \in QueueRecord /\ queue' = queue BY DEF Collect, BlobInv, RowFits
  <2>5. UNCHANGED <<nextInc, object, puts, cands, manifest, losses>> BY DEF Collect
  <2>6. BlobTypes' /\ RowFits' /\ Ahead /\ CondemnedStays BY <2>1, <2>2, <2>3, <2>4, <2>5, RowMoves
  <2>7. PutsFit' BY <2>5, PutsStay
  <2>8. ASSUME NEW k \in HandlerRow, k.pc = "dequeue", k.inc = proc[c].inc, k.ident = proc[c].ident,
               k.op = proc[c].op, k.done = proc[c].done
        PROVE  HandlerFits(k)'
    BY <1>2, <2>1, <2>2, <2>5, <2>8 DEF HandlerFits, Early, LatePc, Gone
  <2> QED BY <1>1, <2>2, <2>6, <2>7, <2>8, RowGoes
<1> QED BY <1>3, <1>4

\* What the pass inspected is still there: the row is the one it selected
LEMMA SettleStep ==
  ASSUME BlobBounds, BlobInv, NEW r \in Reconcilers, Settle(r)
  PROVE  BlobInv' /\ CondemnedStays
<1>1. r \in Procs BY DEF Procs, Passes
<1>2. HandlerFits(proc[r]) /\ proc[r].pc = "settle" /\ proc[r] \in HandlerRow
  BY <1>1, HandlerFacts DEF Settle, Reached
<1>3. CASE ~Promotable(r) BY <1>1, <1>3, CalmEnd DEF Settle
<1>4. CASE Promotable(r)
  <2>0. PICK m \in BlobRecord : m = Moved("ready") /\ m.state = "ready" /\ m.inc = blobRow.inc
    BY MovedRow DEF BlobStates
  <2> DEFINE y == [m EXCEPT !.ident = proc[r].ident, !.grace = FALSE]
  <2>1. y \in BlobRecord /\ y.state = "ready" /\ y.inc = blobRow.inc /\ y.ident = proc[r].ident
    BY <1>2, <2>0 DEF BlobRecord, HandlerRow
  <2>2. blobRow' = y BY <1>4, <2>0 DEF Settle
  <2> HIDE DEF y
  <2>3. blobRow.state = "pending" /\ proc[r].inc = blobRow.inc BY <1>4 DEF Promotable, Unchanged, Owns
  <2>4. proc[r].ident # 0 /\ (losses = 0 => object[blobRow.inc] = proc[r].ident)
    BY <1>2, <2>3 DEF HandlerFits, Kept, Gone, Owns
  <2>5. queue' \in QueueRecord /\ queue' = queue BY DEF Settle, BlobInv, RowFits
  <2>6. UNCHANGED <<nextInc, object, puts, cands, manifest, losses>> BY DEF Settle
  <2>7. BlobTypes' /\ RowFits' /\ Ahead /\ CondemnedStays BY <2>1, <2>2, <2>3, <2>4, <2>5, <2>6, RowMoves
  <2>8. PutsFit' BY <2>6, PutsStay
  <2> QED BY <1>1, <2>7, <2>8, RowEnds DEF Settle
<1> QED BY <1>3, <1>4

\* Columns the handlers rely on stay: the passes take note of the row, and time passes
LEMMA RowNoted ==
  ASSUME BlobBounds, BlobInv, NEW y \in BlobRecord, blobRow' = y, blobRow.state # "none",
         y.state = blobRow.state, y.inc = blobRow.inc, y.ident = blobRow.ident,
         queue' \in QueueRecord, queue'.present = queue.present,
         UNCHANGED <<nextInc, object, puts, cands, manifest, losses>>
  PROVE  BlobTypes' /\ RowFits' /\ PutsFit' /\ Ahead /\ CondemnedStays
<1>1. y.state = "ready" => y.ident # 0 /\ (losses = 0 => object[y.inc] = y.ident) BY DEF BlobInv, RowFits
<1>2. BlobTypes' /\ RowFits' /\ Ahead /\ CondemnedStays BY <1>1, RowMoves
<1> QED BY <1>2, PutsStay

LEMMA TimeStep ==
  ASSUME BlobBounds, BlobInv, Minute \/ Hour
  PROVE  BlobInv' /\ CondemnedStays
<1>1. PICK m \in BlobRecord : m = blobRow BY RowFacts
<1>2. blobRow.state # "none" BY RowFacts DEF Minute, Hour
<1>3. \E y \in BlobRecord : blobRow' = y /\ y.state = m.state /\ y.inc = m.inc /\ y.ident = m.ident
  <2>1. CASE Minute
    <3> DEFINE y == [m EXCEPT !.due = TRUE]
    <3>1. y \in BlobRecord /\ y.state = m.state /\ y.inc = m.inc /\ y.ident = m.ident
      BY DEF BlobRecord
    <3>2. blobRow' = y BY <1>1, <2>1 DEF Minute
    <3> HIDE DEF y
    <3> QED BY <3>1, <3>2
  <2>2. CASE Hour
    <3> DEFINE y == [m EXCEPT !.fresh = FALSE, !.grace = FALSE, !.due = TRUE]
    <3>1. y \in BlobRecord /\ y.state = m.state /\ y.inc = m.inc /\ y.ident = m.ident
      BY DEF BlobRecord
    <3>2. blobRow' = y BY <1>1, <2>2 DEF Hour
    <3> HIDE DEF y
    <3> QED BY <3>1, <3>2
  <2> QED BY <2>1, <2>2
<1>4. queue' \in QueueRecord /\ queue' = queue BY DEF Minute, Hour, BlobInv, RowFits
<1>5. UNCHANGED <<nextInc, object, puts, cands, manifest, losses, proc>> BY DEF Minute, Hour
<1>6. BlobTypes' /\ RowFits' /\ PutsFit' /\ Ahead /\ CondemnedStays
  BY <1>1, <1>2, <1>3, <1>4, <1>5, RowNoted
<1>7. BlobTypes /\ HandlerInv BY DEF BlobInv
<1>8. HandlerInv' BY <1>5, <1>6, <1>7, HandlersStay
<1> QED BY <1>6, <1>8 DEF BlobInv

LEMMA DeferStep ==
  ASSUME BlobBounds, BlobInv, NEW r \in Reconcilers, Defer(r)
  PROVE  BlobInv' /\ CondemnedStays
<1>1. r \in Procs BY DEF Procs, Passes
<1>2. CASE ~Unchanged(r) BY <1>1, <1>2, CalmEnd DEF Defer
<1>3. CASE Unchanged(r)
  <2>1. PICK m \in BlobRecord : m = blobRow BY RowFacts
  <2> DEFINE y == [m EXCEPT !.due = FALSE, !.snap = @ \ Reconcilers]
  <2>2. y \in BlobRecord /\ y.state = m.state /\ y.inc = m.inc /\ y.ident = m.ident BY DEF BlobRecord
  <2>3. blobRow' = y BY <1>3, <2>1 DEF Defer
  <2> HIDE DEF y
  <2>4. blobRow.state # "none" BY <1>3 DEF Unchanged, Owns
  <2>5. queue' \in QueueRecord /\ queue' = queue BY DEF Defer, BlobInv, RowFits
  <2>6. UNCHANGED <<nextInc, object, puts, cands, manifest, losses>> BY DEF Defer
  <2>7. BlobTypes' /\ RowFits' /\ PutsFit' /\ Ahead /\ CondemnedStays
    BY <2>1, <2>2, <2>3, <2>4, <2>5, <2>6, RowNoted
  <2> QED BY <1>1, <2>7, RowEnds DEF Defer
<1> QED BY <1>2, <1>3

\* A pass that has just selected the row
LEMMA PassBegins ==
  ASSUME BlobBounds, BlobInv, BlobTypes', RowFits', PutsFit', Ahead, NEW p \in Procs, NEW pc \in HandlerPc,
         NEW i \in Incs, pc \in {"inspect", "collect", "wipe"}, i <= nextInc', pc = "wipe" => Gone(i)',
         \/ proc' = [proc EXCEPT ![p] = [Resting EXCEPT !.pc = pc, !.inc = i]]
         \/ proc' = [proc EXCEPT ![p] = [Resting EXCEPT !.inc = i, !.pc = pc]]
  PROVE  BlobInv'
<1>1. PICK n \in HandlerRow : n = Resting /\ n.done = FALSE BY RestingFits DEF BlobInv
<1> DEFINE y == [n EXCEPT !.pc = pc, !.inc = i]
           z == [n EXCEPT !.inc = i, !.pc = pc]
<1>2. /\ y \in HandlerRow /\ y.pc = pc /\ y.inc = i /\ y.done = FALSE
      /\ z \in HandlerRow /\ z.pc = pc /\ z.inc = i /\ z.done = FALSE
  <2>1. i \in 0..MaxIncarnations BY BlobConstants
  <2> QED BY <1>1, <2>1 DEF HandlerRow
<1>3. proc' = [proc EXCEPT ![p] = y] \/ proc' = [proc EXCEPT ![p] = z] BY <1>1
<1> HIDE DEF y, z
<1>4. PICK k \in HandlerRow : k.pc = pc /\ k.inc = i /\ k.done = FALSE /\ proc' = [proc EXCEPT ![p] = k]
  BY <1>2, <1>3
<1>5. i # 0 BY BlobConstants
<1>6. HandlerFits(k)' BY <1>4, <1>5 DEF HandlerFits, Early
<1>7. BlobTypes /\ HandlerInv BY DEF BlobInv
<1>8. HandlerInv' BY <1>4, <1>6, <1>7, HandlerMoves
<1> QED BY <1>8 DEF BlobInv

LEMMA ReconcileBeginStep ==
  ASSUME BlobBounds, BlobInv, NEW r \in Reconcilers, ReconcileBegin(r)
  PROVE  BlobInv' /\ CondemnedStays
<1>1. r \in Procs BY DEF Procs, Passes
<1>2. PICK m \in BlobRecord : m = blobRow BY RowFacts
<1> DEFINE y == [m EXCEPT !.snap = @ \cup {r}]
<1>3. y \in BlobRecord /\ y.state = m.state /\ y.inc = m.inc /\ y.ident = m.ident BY DEF BlobRecord, Passes
<1>4. blobRow' = y BY <1>2 DEF ReconcileBegin
<1> HIDE DEF y
<1>5. blobRow.state \in {"pending", "deleting"} BY DEF ReconcileBegin, Due
<1>6. queue' \in QueueRecord /\ queue' = queue BY DEF ReconcileBegin, BlobInv, RowFits
<1>7. UNCHANGED <<nextInc, object, puts, cands, manifest, losses>> BY DEF ReconcileBegin
<1>8. BlobTypes' /\ RowFits' /\ PutsFit' /\ Ahead /\ CondemnedStays
  BY <1>2, <1>3, <1>4, <1>5, <1>6, <1>7, RowNoted
<1>9. PICK pc \in HandlerPc, i \in Incs :
           pc = (IF blobRow.state = "pending" THEN "inspect" ELSE "wipe") /\ i = blobRow.inc
  BY <1>5, RowFacts DEF HandlerPc
<1>10. proc' = [proc EXCEPT ![r] = [Resting EXCEPT !.inc = i, !.pc = pc]] BY <1>9 DEF ReconcileBegin
<1>11. i <= nextInc' BY <1>7, <1>9, RowFacts
<1>12. pc = "wipe" => Gone(i)' BY <1>2, <1>3, <1>4, <1>5, <1>9 DEF Gone
<1>13. pc \in {"inspect", "collect", "wipe"} BY <1>9
<1> QED BY <1>1, <1>8, <1>10, <1>11, <1>12, <1>13, PassBegins

LEMMA CollectBeginStep ==
  ASSUME BlobBounds, BlobInv, NEW c \in Collectors, CollectBegin(c)
  PROVE  BlobInv' /\ CondemnedStays
<1>1. c \in Procs BY DEF Procs, Passes
<1>2. PICK m \in BlobRecord : m = blobRow BY RowFacts
<1> DEFINE y == [m EXCEPT !.snap = @ \cup {c}]
<1>3. y \in BlobRecord /\ y.state = m.state /\ y.inc = m.inc /\ y.ident = m.ident BY DEF BlobRecord, Passes
<1>4. blobRow' = y BY <1>2 DEF CollectBegin
<1> HIDE DEF y
<1>5. blobRow.state # "none" BY DEF CollectBegin, BlobInv, RowFits
<1>6. queue' \in QueueRecord /\ queue'.present = queue.present
  BY DEF CollectBegin, BlobInv, RowFits, QueueRecord
<1>7. UNCHANGED <<nextInc, object, puts, cands, manifest, losses>> BY DEF CollectBegin
<1>8. BlobTypes' /\ RowFits' /\ PutsFit' /\ Ahead /\ CondemnedStays
  BY <1>2, <1>3, <1>4, <1>5, <1>6, <1>7, RowNoted
<1>9. PICK pc \in HandlerPc, i \in Incs : pc = "collect" /\ i = blobRow.inc
  BY <1>5, RowFacts DEF HandlerPc
<1>10. proc' = [proc EXCEPT ![c] = [Resting EXCEPT !.pc = pc, !.inc = i]] BY <1>9 DEF CollectBegin
<1>11. i <= nextInc' BY <1>7, <1>9, RowFacts
<1> QED BY <1>1, <1>8, <1>9, <1>10, <1>11, PassBegins

\* The batch of the promotion writes both tables or neither
LEMMA PromoteStep ==
  ASSUME BlobBounds, BlobInv, NEW u \in Uploaders, Promote(u)
  PROVE  BlobInv' /\ CondemnedStays
<1>1. u \in Procs /\ "disown" \in HandlerPc BY DEF Procs, HandlerPc, LatePc
<1>2. HandlerFits(proc[u]) /\ proc[u].pc = "promote" /\ proc[u] \in HandlerRow /\ Landed(proc[u].op)
  BY <1>1, HandlerFacts DEF Promote, Reached, HandlerFits
<1>3. UNCHANGED <<nextInc, object, puts, queue, manifest, losses>> BY DEF Promote
<1>4. /\ blobRow' \in {blobRow, Promoted(u)} /\ cands' \in {cands, cands \ {proc[u].op}}
      /\ Finish(u) \/ MoveTo(u, "disown")
  BY DEF Promote
<1>5. PutsFit'
  <2>1. \A o \in Ops : o \in cands /\ o \notin cands' => puts[o].landed BY <1>2, <1>4 DEF Landed
  <2> QED BY <1>3, <1>4, <2>1 DEF BlobInv, PutsFit
<1>6. BlobTypes' /\ RowFits' /\ Ahead /\ CondemnedStays
  <2>1. CASE UNCHANGED blobRow
    <3>1. BlobTypes' BY <1>3 DEF BlobInv, BlobTypes
    <3>2. RowFits' BY <1>3, <2>1 DEF BlobInv, RowFits
    <3>3. nextInc \in Nat BY BlobConstants DEF BlobInv, BlobTypes
    <3>4. Ahead BY <1>3, <2>1, <3>3 DEF Ahead, Gone, Owns, Sent, Landed
    <3>5. CondemnedStays BY <2>1 DEF CondemnedStays, Is, Owns
    <3> QED BY <3>1, <3>2, <3>4, <3>5
  <2>2. CASE ~(UNCHANGED blobRow)
    <3>1. blobRow' = [Moved("ready") EXCEPT !.ident = proc[u].ident] /\ Is(proc[u].inc, {"pending"})
      BY <1>4, <2>2 DEF Promoted
    <3>2. PICK m \in BlobRecord : m = Moved("ready") /\ m.state = "ready" /\ m.inc = blobRow.inc
      BY MovedRow DEF BlobStates
    <3> DEFINE y == [m EXCEPT !.ident = proc[u].ident]
    <3>3. y \in BlobRecord /\ y.state = "ready" /\ y.inc = blobRow.inc /\ y.ident = proc[u].ident
      BY <1>2, <3>2 DEF BlobRecord, HandlerRow
    <3>4. blobRow' = y BY <3>1, <3>2
    <3> HIDE DEF y
    <3>5. blobRow.state = "pending" /\ proc[u].inc = blobRow.inc BY <3>1 DEF Is, Owns
    <3>6. proc[u].ident # 0 /\ (losses = 0 => object[blobRow.inc] = proc[u].ident)
      BY <1>2, <3>5 DEF HandlerFits, Kept, Gone, Owns
    <3>7. queue' \in QueueRecord /\ queue' = queue BY <1>3 DEF BlobInv, RowFits
    <3> QED BY <1>3, <3>3, <3>4, <3>5, <3>6, <3>7, RowMoves
  <2> QED BY <2>1, <2>2
<1>7. CASE Finish(u) BY <1>1, <1>5, <1>6, <1>7, RowEnds
<1>8. CASE MoveTo(u, "disown")
  <2>1. ASSUME NEW k \in HandlerRow, k.pc = "disown", k.inc = proc[u].inc, k.ident = proc[u].ident,
               k.op = proc[u].op, k.done = proc[u].done
        PROVE  HandlerFits(k)'
    <3>1. Landed(k.op)' BY <1>2, <1>3, <2>1 DEF Landed, Sent
    <3> QED BY <1>2, <1>3, <2>1, <3>1 DEF HandlerFits, Early, LatePc
  <2> QED BY <1>1, <1>5, <1>6, <1>8, <2>1, RowGoes
<1> QED BY <1>4, <1>6, <1>7, <1>8

\* A fresh incarnation, which nobody has heard of
LEMMA ReserveStep ==
  ASSUME BlobBounds, BlobInv, NEW u \in Uploaders, Reserve(u)
  PROVE  BlobInv' /\ CondemnedStays
<1>1. u \in Procs /\ "adopt" \in HandlerPc /\ "lease" \in HandlerPc BY DEF Procs, HandlerPc, Early
<1>2. HandlerFits(proc[u]) /\ proc[u].pc = "reserve" /\ proc[u] \in HandlerRow
  BY <1>1, HandlerFacts DEF Reserve, Reached
<1>3. CASE blobRow # NoBlob
  <2>1. MoveTo(u, "adopt") /\ UNCHANGED <<blobRow, nextInc, object, puts, cands, queue, manifest, losses>>
    BY <1>3 DEF Reserve
  <2>2. ASSUME NEW k \in HandlerRow, k.pc = "adopt", k.inc = proc[u].inc, k.ident = proc[u].ident,
               k.op = proc[u].op, k.done = proc[u].done
        PROVE  HandlerFits(k)
    BY <1>2, <2>2 DEF HandlerFits, Early, LatePc
  <2> QED BY <1>1, <2>1, <2>2, CalmGo
<1>4. CASE blobRow = NoBlob
  <2>1. UNCHANGED <<object, puts, cands, manifest, losses>> BY DEF Reserve
  <2>2. nextInc' = nextInc + 1 /\ nextInc < MaxIncarnations /\ nextInc \in 0..MaxIncarnations
        /\ MaxIncarnations \in Nat
    BY <1>4, BlobConstants DEF Reserve, BlobInv, BlobTypes
  <2>3. blobRow' \in BlobRecord /\ blobRow'.state = "pending" /\ blobRow'.inc = nextInc + 1
    <3>1. PICK m \in BlobRecord : m = NoBlob BY <1>4, RowFacts
    <3> DEFINE y == [m EXCEPT !.state = "pending", !.inc = nextInc + 1, !.fresh = TRUE]
    <3>2. nextInc + 1 \in 0..MaxIncarnations BY <2>2
    <3>3. y \in BlobRecord /\ y.state = "pending" /\ y.inc = nextInc + 1
      BY <3>2 DEF BlobRecord, BlobStates
    <3>4. blobRow' = y BY <1>4, <3>1 DEF Reserve
    <3> HIDE DEF y
    <3> QED BY <3>3, <3>4
  <2>4. queue' \in QueueRecord /\ queue'.present = TRUE
    <3>1. queue' = [present |-> TRUE, same |-> FALSE] BY <1>4 DEF Reserve
    <3> QED BY <3>1 DEF QueueRecord
  <2>5. blobRow.state = "none" BY <1>4, RowFacts
  <2>6. BlobTypes' BY <2>1, <2>2 DEF BlobInv, BlobTypes
  <2>7. RowFits'
    <3>1. losses = 0 => \A k \in Keys : manifest[k] # "ready" BY <2>5 DEF BlobInv, RowFits
    <3> QED BY <2>1, <2>2, <2>3, <2>4, <3>1 DEF RowFits
  <2>8. PutsFit'
    <3>1. \A o \in Ops : puts[o].inc <= nextInc' BY <2>2 DEF BlobInv, PutsFit, PutRecord
    <3> QED BY <2>1, <3>1 DEF BlobInv, PutsFit
  <2>9. Ahead
    <3>1. \A i \in 1..nextInc : ~Owns(i)' BY <2>2, <2>3 DEF Owns
    <3> QED BY <2>1, <2>2, <3>1 DEF Ahead, Gone, Sent, Landed
  <2>10. CondemnedStays BY <2>5 DEF CondemnedStays, Is, Owns
  <2> DEFINE y == [proc[u] EXCEPT !.pc = "lease", !.inc = nextInc + 1]
  <2>11. y \in HandlerRow /\ y.pc = "lease" /\ y.inc = nextInc + 1 /\ y.done = proc[u].done
    <3>1. nextInc + 1 \in 0..MaxIncarnations BY <2>2
    <3> QED BY <1>1, <1>2, <3>1 DEF HandlerRow
  <2>12. proc' = [proc EXCEPT ![u] = y] BY <1>1, <1>4 DEF Reserve, BlobInv, HandlerInv
  <2> HIDE DEF y
  <2>13. PICK k \in HandlerRow : k.pc = "lease" /\ k.inc = nextInc + 1 /\ k.done = proc[u].done
                                 /\ proc' = [proc EXCEPT ![u] = k]
    BY <2>11, <2>12
  <2>14. HandlerFits(k)' BY <1>2, <2>2, <2>13 DEF HandlerFits, Early, LatePc
  <2>15. BlobTypes /\ HandlerInv BY DEF BlobInv
  <2>16. HandlerInv' BY <1>1, <2>6, <2>9, <2>13, <2>14, <2>15, HandlerMoves
  <2> QED BY <2>6, <2>7, <2>8, <2>10, <2>16 DEF BlobInv
<1> QED BY <1>3, <1>4

\* The row leaves, and with it the entry of the collector
LEMMA DropStep ==
  ASSUME BlobBounds, BlobInv, NEW p \in Procs,
         \/ p \in Deleters /\ Drop(p)
         \/ p \in Reconcilers /\ ReconcileDrop(p)
  PROVE  BlobInv' /\ CondemnedStays
<1>1. Finish(p) /\ UNCHANGED <<nextInc, object, puts, cands, manifest, losses>> BY DEF Drop, ReconcileDrop
<1>2. CASE UNCHANGED <<blobRow, queue>> BY <1>1, <1>2, CalmEnd
<1>3. CASE blobRow.state = "deleting" /\ DropRow
  <2>1. blobRow' = NoBlob /\ queue' = [present |-> FALSE, same |-> FALSE] BY <1>3 DEF DropRow
  <2>2. NoBlob \in BlobRecord /\ NoBlob.state = "none" /\ NoBlob.inc = 0
    <3>1. None \in 0..MaxOps /\ None \in 0..MaxIncarnations /\ None = 0 BY BlobConstants
    <3> QED BY <3>1 DEF NoBlob, BlobRecord
  <2>3. queue' \in QueueRecord /\ ~queue'.present BY <2>1 DEF QueueRecord
  <2>4. BlobTypes' BY <1>1 DEF BlobInv, BlobTypes
  <2>5. RowFits'
    <3>1. losses = 0 => \A k \in Keys : manifest[k] # "ready" BY <1>3 DEF BlobInv, RowFits
    <3>2. 0 <= nextInc' BY <2>4, BlobConstants DEF BlobTypes
    <3> QED BY <1>1, <2>1, <2>2, <2>3, <3>1, <3>2 DEF RowFits
  <2>6. PutsFit' BY <1>1, PutsStay
  <2>7. \A i : ~Owns(i)' BY <2>1, <2>2 DEF Owns
  <2>8. nextInc \in Nat BY BlobConstants DEF BlobInv, BlobTypes
  <2>9. Ahead BY <1>1, <2>7, <2>8 DEF Ahead, Gone, Sent, Landed
  <2>10. CondemnedStays BY <2>7 DEF CondemnedStays
  <2> QED BY <1>1, <2>4, <2>5, <2>6, <2>9, <2>10, RowEnds
<1> QED BY <1>2, <1>3 DEF Drop, ReconcileDrop, Is

-----------------------------------------------------------------------------
(* Steps on the queue and the manifests.                                   *)

\* The row and its object stay
LEMMA RowRests ==
  ASSUME BlobBounds, BlobInv, UNCHANGED <<blobRow, nextInc, object, puts, cands, losses>>,
         manifest' \in [Keys -> ManifestStates]
  PROVE  BlobTypes' /\ PutsFit' /\ Ahead /\ CondemnedStays
<1>1. BlobTypes' BY DEF BlobInv, BlobTypes
<1>2. PutsFit' BY PutsStay
<1>3. nextInc \in Nat BY BlobConstants DEF BlobInv, BlobTypes
<1>4. Ahead BY <1>3 DEF Ahead, Gone, Owns, Sent, Landed
<1>5. CondemnedStays BY DEF CondemnedStays, Is, Owns
<1> QED BY <1>1, <1>2, <1>4, <1>5

\* An entry goes for a row on its way out, or one a live manifest refers to
LEMMA DequeueStep ==
  ASSUME BlobBounds, BlobInv, NEW c \in Collectors, Dequeue(c) \/ Reconsider(c)
  PROVE  BlobInv' /\ CondemnedStays
<1>1. c \in Procs BY DEF Procs, Passes
<1>2. HandlerFits(proc[c]) /\ proc[c].pc \in {"dequeue", "reconsider"}
  BY <1>1, HandlerFacts DEF Dequeue, Reconsider, Reached
<1>3. Finish(c) /\ UNCHANGED <<blobRow, nextInc, object, puts, cands, manifest, losses>>
  BY DEF Dequeue, Reconsider
<1>4. CASE UNCHANGED queue BY <1>1, <1>3, <1>4, CalmEnd
<1>5. CASE ~(UNCHANGED queue)
  <2>1. queue' = [present |-> FALSE, same |-> FALSE] BY <1>5 DEF Dequeue, Reconsider
  <2>2. queue' \in QueueRecord /\ ~queue'.present BY <2>1 DEF QueueRecord
  <2>3. blobRow.state # "none" /\ (blobRow.state = "deleting" \/ Live)
    <3>1. CASE Dequeue(c)
      <4>1. Owns(proc[c].inc) BY <1>5, <3>1 DEF Dequeue
      <4>2. Gone(proc[c].inc) BY <1>2, <3>1 DEF Dequeue, Reached, HandlerFits
      <4> QED BY <4>1, <4>2 DEF Gone, Owns
    <3>2. CASE Reconsider(c) BY <1>5, <3>2 DEF Reconsider, Settled, Owns
    <3> QED BY <3>1, <3>2
  <2>4. BlobTypes' /\ PutsFit' /\ Ahead /\ CondemnedStays
    <3>1. manifest' \in [Keys -> ManifestStates] BY <1>3 DEF BlobInv, BlobTypes
    <3> QED BY <1>3, <3>1, RowRests
  <2>5. RowFits' BY <1>3, <2>2, <2>3 DEF BlobInv, RowFits, Live
  <2> QED BY <1>1, <1>3, <2>4, <2>5, RowEnds
<1> QED BY <1>4, <1>5

LEMMA ManifestStep ==
  ASSUME BlobBounds, BlobInv, NEW k \in Keys,
         \/ PutManifest(k) \/ ConflictManifest(k) \/ DropManifest(k) \/ ExpireManifest(k) \/ CleanManifest(k)
  PROVE  BlobInv' /\ CondemnedStays
<1>1. UNCHANGED <<blobRow, nextInc, object, puts, cands, proc, losses>>
  BY DEF PutManifest, ConflictManifest, DropManifest, ExpireManifest, CleanManifest
<1>2. manifest \in [Keys -> ManifestStates] BY DEF BlobInv, BlobTypes
<1>3. RowFits /\ queue \in QueueRecord BY DEF BlobInv, RowFits
<1>4. manifest' \in [Keys -> ManifestStates] /\ \A j \in Keys : j # k => manifest'[j] = manifest[j]
  BY <1>2 DEF PutManifest, ConflictManifest, DropManifest, ExpireManifest, CleanManifest, ManifestStates
<1>5. RowFits'
  <2>1. CASE PutManifest(k)
    <3>1. blobRow.state = "ready" /\ manifest'[k] = "ready" BY <1>2, <2>1 DEF PutManifest, Admissible
    <3>2. queue' = [present |-> FALSE, same |-> FALSE] BY <2>1 DEF PutManifest
    <3>3. queue' \in QueueRecord BY <3>2 DEF QueueRecord
    <3> QED BY <1>1, <1>3, <3>1, <3>3 DEF RowFits
  <2>2. CASE ConflictManifest(k) \/ ExpireManifest(k)
    <3>1. manifest[k] \in {"ready", "quarantined"} /\ manifest'[k] \in {"quarantined", "expired"}
      BY <1>2, <2>2 DEF ConflictManifest, ExpireManifest
    <3>2. UNCHANGED queue BY <2>2 DEF ConflictManifest, ExpireManifest
    <3> QED BY <1>1, <1>3, <1>4, <3>1, <3>2 DEF RowFits
  <2>3. CASE DropManifest(k) \/ CleanManifest(k)
    <3>1. manifest'[k] \in {"none", "deleted"} BY <1>2, <2>3 DEF DropManifest, CleanManifest
    <3>2. Requeue BY <2>3 DEF DropManifest, CleanManifest
    <3>3. CASE blobRow = NoBlob
      <4>1. blobRow.state = "none" /\ UNCHANGED queue BY <3>2, <3>3, RowFacts DEF Requeue
      <4> QED BY <1>1, <1>3, <1>4, <3>1, <4>1 DEF RowFits
    <3>4. CASE blobRow # NoBlob
      <4>1. blobRow.state # "none" BY <3>4, RowFacts
      <4>2. PICK s \in {FALSE, queue.same} : queue' = [present |-> TRUE, same |-> s]
        BY <3>2, <3>4 DEF Requeue, Requeued
      <4>3. s \in BOOLEAN BY <1>3 DEF QueueRecord
      <4>4. queue' \in QueueRecord /\ queue'.present = TRUE BY <4>2, <4>3 DEF QueueRecord
      <4> QED BY <1>1, <1>3, <1>4, <3>1, <4>1, <4>4 DEF RowFits
    <3> QED BY <3>3, <3>4
  <2> QED BY <2>1, <2>2, <2>3
<1>6. BlobTypes' /\ PutsFit' /\ Ahead /\ CondemnedStays BY <1>1, <1>4, RowRests
<1>7. BlobTypes /\ HandlerInv BY DEF BlobInv
<1>8. HandlerInv' BY <1>1, <1>6, <1>7, HandlersStay
<1> QED BY <1>5, <1>6, <1>8 DEF BlobInv

-----------------------------------------------------------------------------
(* Steps of the bucket.                                                    *)

\* An object goes whose incarnation is on its way out
LEMMA ObjectGoes ==
  ASSUME BlobBounds, BlobInv, NEW i \in Incs, Gone(i), object' = [object EXCEPT ![i] = None],
         UNCHANGED <<blobRow, nextInc, puts, cands, queue, manifest, losses>>
  PROVE  BlobTypes' /\ RowFits' /\ PutsFit' /\ Ahead /\ CondemnedStays
<1>1. BlobTypes'
  <2>1. None \in 0..MaxOps BY BlobConstants
  <2> QED BY <2>1 DEF BlobInv, BlobTypes
<1>2. \A j \in Incs : j # i => object'[j] = object[j] BY DEF BlobInv, BlobTypes
<1>3. RowFits'
  <2>1. blobRow.state = "ready" => blobRow.inc \in Incs /\ blobRow.inc # i BY RowFacts DEF Gone, Owns
  <2> QED BY <1>2, <2>1 DEF BlobInv, RowFits
<1>4. PutsFit' BY PutsStay
<1>5. nextInc \in Nat BY BlobConstants DEF BlobInv, BlobTypes
<1>6. \A j \in Incs : Gone(j)' \/ object'[j] = object[j] BY <1>2 DEF Gone, Owns
<1>7. Ahead BY <1>5, <1>6 DEF Ahead, Gone, Owns, Sent, Landed
<1>8. CondemnedStays BY DEF CondemnedStays, Is, Owns
<1> QED BY <1>1, <1>3, <1>4, <1>7, <1>8

LEMMA EraseStep ==
  ASSUME BlobBounds, BlobInv, NEW u \in Uploaders, Erase(u)
  PROVE  BlobInv' /\ CondemnedStays
<1>1. u \in Procs /\ "retire" \in HandlerPc BY DEF Procs, HandlerPc, LatePc
<1>2. HandlerFits(proc[u]) /\ proc[u].pc = "erase" /\ proc[u].inc \in Incs
  BY <1>1, HandlerFacts DEF Erase, Reached, Early
<1>3. PICK i \in Incs : i = proc[u].inc /\ Gone(i) BY <1>2 DEF HandlerFits, Gone
<1>4. UNCHANGED <<blobRow, nextInc, puts, cands, queue, manifest, losses>> BY DEF Erase
<1>5. BlobTypes' /\ RowFits' /\ PutsFit' /\ Ahead /\ CondemnedStays
  <2>1. CASE UNCHANGED object BY <1>4, <2>1, Calm
  <2>2. CASE object' = [object EXCEPT ![i] = None] BY <1>3, <1>4, <2>2, ObjectGoes
  <2> QED BY <1>3, <2>1, <2>2 DEF Erase
<1>6. CASE Finish(u) BY <1>1, <1>5, <1>6, RowEnds
<1>7. CASE proc[u].done /\ MoveTo(u, "retire")
  <2>1. ASSUME NEW k \in HandlerRow, k.pc = "retire", k.inc = proc[u].inc, k.ident = proc[u].ident,
               k.op = proc[u].op, k.done = proc[u].done
        PROVE  HandlerFits(k)'
    <3>1. HandlerFits(k) BY <1>2, <1>7, <2>1 DEF HandlerFits, Early, LatePc
    <3> QED BY <1>5, <3>1, HandlerStays DEF BlobInv
  <2> QED BY <1>1, <1>5, <1>7, <2>1, RowGoes
<1> QED BY <1>5, <1>6, <1>7 DEF Erase, Leave

LEMMA WipeStep ==
  ASSUME BlobBounds, BlobInv, NEW p \in Procs, Wipe(p) \/ Unsend(p) \/ Sweep(p)
  PROVE  BlobInv' /\ CondemnedStays
<1>1. HandlerFits(proc[p]) /\ proc[p].pc \in {"wipe", "unsend", "sweep"} /\ proc[p].inc \in Incs
  BY HandlerFacts DEF Wipe, Unsend, Sweep, Reached, Early
<1>2. PICK i \in Incs : i = proc[p].inc /\ Gone(i) BY <1>1 DEF HandlerFits, Gone
<1>3. UNCHANGED <<blobRow, nextInc, puts, cands, queue, manifest, losses>> BY DEF Wipe, Unsend, Sweep
<1>4. object' = [object EXCEPT ![i] = None] BY <1>2 DEF Wipe, Unsend, Sweep
<1>5. BlobTypes' /\ RowFits' /\ PutsFit' /\ Ahead /\ CondemnedStays BY <1>2, <1>3, <1>4, ObjectGoes
<1>6. CASE Finish(p) BY <1>5, <1>6, RowEnds
<1>7. CASE MoveTo(p, "head") /\ proc[p].pc = "wipe"
  <2>1. ASSUME NEW k \in HandlerRow, k.pc = "head", k.inc = proc[p].inc, k.ident = proc[p].ident,
               k.op = proc[p].op, k.done = proc[p].done
        PROVE  HandlerFits(k)'
    <3>1. HandlerFits(k) BY <1>1, <1>7, <2>1 DEF HandlerFits, Early, LatePc
    <3> QED BY <1>5, <3>1, HandlerStays DEF BlobInv
  <2>2. "head" \in HandlerPc BY DEF HandlerPc
  <2> QED BY <1>5, <1>7, <2>1, <2>2, RowGoes
<1> QED BY <1>5, <1>6, <1>7 DEF Wipe, Unsend, Sweep, Reached

\* Once R2 has lost an object, what is claimed is claimed only of the tables
LEMMA LoseStep ==
  ASSUME BlobBounds, BlobInv, NEW i \in Incs, Lose(i)
  PROVE  BlobInv' /\ CondemnedStays
<1>1. UNCHANGED <<blobRow, nextInc, puts, cands, queue, manifest, proc>> BY DEF Lose
<1>2. losses' \in 0..MaxLoss /\ losses' # 0
  <2>1. losses \in 0..MaxLoss /\ losses < MaxLoss /\ losses' = losses + 1 BY DEF Lose, BlobInv, BlobTypes
  <2> QED BY <2>1, BlobConstants
<1>3. BlobTypes'
  <2>1. None \in 0..MaxOps BY BlobConstants
  <2> QED BY <1>1, <1>2, <2>1 DEF Lose, BlobInv, BlobTypes
<1>4. RowFits' BY <1>1, <1>2 DEF BlobInv, RowFits
<1>5. PutsFit' BY <1>1, PutsStay
<1>6. nextInc \in Nat BY BlobConstants DEF BlobInv, BlobTypes
<1>7. Ahead BY <1>1, <1>2, <1>6 DEF Ahead, Gone, Owns, Sent, Landed
<1>8. CondemnedStays BY <1>1 DEF CondemnedStays, Is, Owns
<1>9. BlobTypes /\ HandlerInv BY DEF BlobInv
<1>10. HandlerInv' BY <1>1, <1>3, <1>7, <1>9, HandlersStay
<1> QED BY <1>3, <1>4, <1>5, <1>8, <1>10 DEF BlobInv

\* A PUT that is left is there to be taken
LEMMA NextOpOf ==
  ASSUME BlobBounds, OpsLeft
  PROVE  NextOp \in Ops /\ puts[NextOp].inc = None
<1> DEFINE S == {o \in Ops : puts[o].inc = None}
           R == OpToRel(<, Nat)
<1>1. S \subseteq Nat /\ S # {} BY BlobConstants DEF OpsLeft
<1>2. IsWellFoundedOn(R, Nat) BY NatLessThanWellFounded, Zenon
<1> HIDE DEF R
<1>3. PICK z \in S : \A y \in S : ~(<<y, z>> \in R) BY <1>1, <1>2, WFMin
<1>4. \A y \in S : ~(y < z) BY <1>1, <1>3 DEF R, OpToRel
<1>5. z \in Ops /\ puts[z].inc = None /\ \A x \in Ops : x < z => puts[x].inc # None BY <1>4
<1> QED BY <1>5 DEF NextOp

\* The candidate is there before R2 is asked
LEMMA RegisterStep ==
  ASSUME BlobBounds, BlobInv, NEW u \in Uploaders, Register(u)
  PROVE  BlobInv' /\ CondemnedStays
<1> DEFINE B == Is(proc[u].inc, {"pending"}) /\ Cardinality(cands) < CandidateLimit
<1>1. u \in Procs /\ "put" \in HandlerPc BY DEF Procs, HandlerPc
<1>2. /\ HandlerFits(proc[u]) /\ proc[u].pc = "register" /\ proc[u] \in HandlerRow /\ proc[u].inc \in Incs
      /\ proc[u].inc <= nextInc /\ ~proc[u].done
  <2>1. HandlerFits(proc[u]) /\ proc[u].pc = "register" /\ proc[u] \in HandlerRow /\ proc[u].inc \in Incs
    BY <1>1, HandlerFacts DEF Register, Reached, Early
  <2> QED BY <2>1 DEF HandlerFits, LatePc
<1>3. UNCHANGED <<blobRow, nextInc, object, queue, manifest, losses>> BY DEF Register
<1>4. CASE ~B BY <1>1, <1>3, <1>4, CalmEnd DEF Register
<1>5. CASE B
  <2>1. PICK o \in Ops : o = NextOp /\ puts[o].inc = 0 BY <1>5, NextOpOf, BlobConstants DEF Register
  <2>2. PICK i \in Incs : i = proc[u].inc BY <1>2
  <2>3. /\ puts' = [puts EXCEPT ![o] = [inc |-> i, sent |-> TRUE, landed |-> FALSE]]
        /\ cands' = cands \cup {o}
        /\ proc' = [proc EXCEPT ![u].pc = "put", ![u].op = o]
    BY <1>5, <2>1, <2>2 DEF Register
  <2>4. i # 0 /\ i \in 0..MaxIncarnations /\ i <= nextInc BY <1>2, <2>2, BlobConstants
  <2>5. /\ puts \in [Ops -> PutRecord] /\ puts' \in [Ops -> PutRecord]
        /\ puts'[o].inc = i /\ puts'[o].sent /\ ~puts'[o].landed
        /\ \A x \in Ops : x # o => puts'[x] = puts[x]
    <3>1. puts \in [Ops -> PutRecord] BY DEF BlobInv, PutsFit
    <3>2. [inc |-> i, sent |-> TRUE, landed |-> FALSE] \in PutRecord BY <2>4 DEF PutRecord
    <3> QED BY <2>3, <3>1, <3>2
  <2>6. PutsFit' BY <1>3, <2>3, <2>4, <2>5 DEF BlobInv, PutsFit
  <2>7. BlobTypes' BY <1>3 DEF BlobInv, BlobTypes
  <2>8. RowFits' BY <1>3 DEF BlobInv, RowFits
  <2>9. nextInc \in Nat BY BlobConstants DEF BlobInv, BlobTypes
  <2>10. \A x \in Ops : (Sent(x) => Sent(x)') /\ (Landed(x) => Landed(x)')
    BY <2>1, <2>5 DEF Sent, Landed
  <2>11. Ahead BY <1>3, <2>9, <2>10 DEF Ahead, Gone, Owns
  <2>12. CondemnedStays BY <1>3 DEF CondemnedStays, Is, Owns
  <2> DEFINE y == [proc[u] EXCEPT !.pc = "put", !.op = o]
  <2>13. y \in HandlerRow /\ y.pc = "put" /\ y.inc = i /\ y.op = o /\ y.done = proc[u].done
    <3>1. o \in 0..MaxOps BY BlobConstants
    <3> QED BY <1>1, <1>2, <2>2, <3>1 DEF HandlerRow
  <2>14. proc' = [proc EXCEPT ![u] = y] BY <1>1, <2>3 DEF BlobInv, HandlerInv
  <2> HIDE DEF y
  <2>15. PICK k \in HandlerRow : k.pc = "put" /\ k.inc = i /\ k.op = o /\ ~k.done
                                 /\ proc' = [proc EXCEPT ![u] = k]
    BY <1>2, <2>13, <2>14
  <2>16. Sent(k.op)' BY <2>4, <2>5, <2>15 DEF Sent
  <2>17. HandlerFits(k)' BY <1>3, <2>4, <2>15, <2>16 DEF HandlerFits, Early
  <2>18. BlobTypes /\ HandlerInv BY DEF BlobInv
  <2>19. HandlerInv' BY <1>1, <2>7, <2>11, <2>15, <2>17, <2>18, HandlerMoves
  <2> QED BY <2>6, <2>7, <2>8, <2>12, <2>19 DEF BlobInv
<1> QED BY <1>4, <1>5

\* A candidate is settled only once its PUT was carried out
LEMMA RetireStep ==
  ASSUME BlobBounds, BlobInv, NEW u \in Uploaders, Retire(u)
  PROVE  BlobInv' /\ CondemnedStays
<1>1. u \in Procs BY DEF Procs
<1>2. Landed(proc[u].op) BY <1>1, HandlerFacts DEF Retire, Reached, HandlerFits
<1>3. /\ UNCHANGED <<blobRow, nextInc, object, puts, queue, manifest, losses>> /\ Finish(u)
      /\ cands' \in {cands, cands \ {proc[u].op}}
  BY DEF Retire
<1>4. PutsFit'
  <2>1. \A o \in Ops : o \in cands /\ o \notin cands' => puts[o].landed BY <1>2, <1>3 DEF Landed
  <2> QED BY <1>3, <2>1 DEF BlobInv, PutsFit
<1>5. BlobTypes' BY <1>3 DEF BlobInv, BlobTypes
<1>6. RowFits' BY <1>3 DEF BlobInv, RowFits
<1>7. nextInc \in Nat BY BlobConstants DEF BlobInv, BlobTypes
<1>8. Ahead BY <1>3, <1>7 DEF Ahead, Gone, Owns, Sent, Landed
<1>9. CondemnedStays BY <1>3 DEF CondemnedStays, Is, Owns
<1> QED BY <1>1, <1>3, <1>4, <1>5, <1>6, <1>8, <1>9, RowEnds

\* R2 writes where nothing is, so what a handler has read is not replaced
LEMMA PutLandsStep ==
  ASSUME BlobBounds, BlobInv, NEW o \in Ops, PutLands(o)
  PROVE  BlobInv' /\ CondemnedStays
<1>1. UNCHANGED <<blobRow, nextInc, cands, queue, manifest, losses>> BY DEF PutLands
<1>2. /\ puts \in [Ops -> PutRecord] /\ puts[o].inc # 0 /\ puts[o].inc \in 0..MaxIncarnations
      /\ o \in 0..MaxOps /\ o # 0
  <2>1. o \in 0..MaxOps /\ o # 0 BY BlobConstants
  <2>2. puts \in [Ops -> PutRecord] /\ puts[o].inc # 0 BY DEF PutLands, BlobInv, PutsFit
  <2> QED BY <2>1, <2>2 DEF PutRecord
<1>3. puts[o].inc \in Incs BY <1>2, BlobConstants
<1>4. /\ puts' \in [Ops -> PutRecord] /\ puts'[o].landed /\ puts'[o].inc = puts[o].inc
      /\ \A x \in Ops : x # o => puts'[x] = puts[x]
  BY <1>2 DEF PutLands, PutRecord
<1>5. PutsFit' BY <1>1, <1>2, <1>4 DEF BlobInv, PutsFit
<1>6. object \in [Incs -> 0..MaxOps] BY DEF BlobInv, BlobTypes
<1>7. object' \in [Incs -> 0..MaxOps] /\ \A i \in Incs : object[i] = 0 \/ object'[i] = object[i]
  BY <1>2, <1>3, <1>6, BlobConstants DEF PutLands
<1>8. BlobTypes' BY <1>1, <1>7 DEF BlobInv, BlobTypes
<1>9. RowFits'
  <2>1. blobRow.state = "ready" /\ losses = 0 => object'[blobRow.inc] = blobRow.ident
    BY <1>7, RowFacts DEF BlobInv, RowFits
  <2> QED BY <1>1, <2>1 DEF BlobInv, RowFits
<1>10. nextInc \in Nat BY BlobConstants DEF BlobInv, BlobTypes
<1>11. \A x \in Ops : (Sent(x) => Sent(x)') /\ (Landed(x) => Landed(x)') BY <1>2, <1>4 DEF Sent, Landed
<1>12. Ahead BY <1>1, <1>7, <1>10, <1>11 DEF Ahead, Gone, Owns
<1>13. CondemnedStays BY <1>1 DEF CondemnedStays, Is, Owns
<1>14. ASSUME NEW q \in Procs PROVE proc'[q] \in HandlerRow /\ HandlerFits(proc[q])'
  <2>0. proc[q] \in HandlerRow /\ HandlerFits(proc[q]) /\ q \in DOMAIN proc
    BY HandlerFacts DEF BlobInv, HandlerInv
  <2>1. CASE ~(proc[q].op = o /\ proc[q].pc = "put")
    <3>1. PICK k \in HandlerRow : k = proc[q] BY <2>0
    <3>2. proc'[q] = k BY <2>0, <2>1, <3>1 DEF PutLands
    <3>3. HandlerFits(k)' BY <1>8, <1>12, <2>0, <3>1, HandlerStays DEF BlobInv
    <3> QED BY <3>2, <3>3 DEF HandlerFits, Kept, Gone, Owns, Landed, Sent
  <2>2. CASE proc[q].op = o /\ proc[q].pc = "put"
    <3> DEFINE y == [proc[q] EXCEPT !.pc = "verify", !.done = (object[puts[o].inc] = None)]
    <3>1. y \in HandlerRow /\ y.pc = "verify" /\ y.inc = proc[q].inc /\ y.op = o
      <4>1. "verify" \in HandlerPc /\ (object[puts[o].inc] = None) \in BOOLEAN BY DEF HandlerPc, LatePc
      <4> QED BY <2>0, <2>2, <4>1 DEF HandlerRow
    <3>2. proc'[q] = y BY <2>0, <2>2 DEF PutLands
    <3> HIDE DEF y
    <3>3. PICK k \in HandlerRow : k.pc = "verify" /\ k.inc = proc[q].inc /\ k.op = o /\ proc'[q] = k
      BY <3>1, <3>2
    <3>4. Landed(k.op)' BY <1>2, <1>4, <3>3 DEF Landed, Sent
    <3>5. k.inc # 0 /\ k.inc <= nextInc' BY <1>1, <2>0, <2>2, <3>3 DEF HandlerFits, Early
    <3>6. HandlerFits(k)' BY <3>3, <3>4, <3>5 DEF HandlerFits, Early, LatePc
    <3> QED BY <3>3, <3>6 DEF HandlerFits, Kept, Gone, Owns, Landed, Sent
  <2> QED BY <2>1, <2>2
<1>15. HandlerInv'
  <2>1. DOMAIN proc = Procs BY DEF BlobInv, HandlerInv
  <2>2. proc' \in [Procs -> HandlerRow] BY <1>14, <2>1 DEF PutLands
  <2> QED BY <1>14, <2>2 DEF HandlerInv
<1> QED BY <1>5, <1>8, <1>9, <1>13, <1>15 DEF BlobInv

LEMMA PutDroppedStep ==
  ASSUME BlobBounds, BlobInv, NEW o \in Ops, PutDropped(o)
  PROVE  BlobInv' /\ CondemnedStays
<1>1. UNCHANGED <<blobRow, nextInc, object, cands, queue, manifest, proc, losses>> BY DEF PutDropped
<1>2. puts \in [Ops -> PutRecord] BY DEF BlobInv, PutsFit
<1>3. /\ puts' \in [Ops -> PutRecord] /\ ~puts'[o].sent /\ puts'[o].inc = puts[o].inc
      /\ puts'[o].landed = puts[o].landed
      /\ \A x \in Ops : x # o => puts'[x] = puts[x]
  BY <1>2 DEF PutDropped, PutRecord
<1>4. PutsFit' BY <1>1, <1>3 DEF BlobInv, PutsFit
<1>5. BlobTypes' BY <1>1 DEF BlobInv, BlobTypes
<1>6. RowFits' BY <1>1 DEF BlobInv, RowFits
<1>7. nextInc \in Nat BY BlobConstants DEF BlobInv, BlobTypes
<1>8. \A x \in Ops : (Sent(x) => Sent(x)') /\ (Landed(x) => Landed(x)') BY <1>3 DEF Sent, Landed
<1>9. Ahead BY <1>1, <1>7, <1>8 DEF Ahead, Gone, Owns
<1>10. CondemnedStays BY <1>1 DEF CondemnedStays, Is, Owns
<1>11. BlobTypes /\ HandlerInv BY DEF BlobInv
<1>12. HandlerInv' BY <1>1, <1>5, <1>9, <1>11, HandlersStay
<1> QED BY <1>4, <1>5, <1>6, <1>10, <1>12 DEF BlobInv

-----------------------------------------------------------------------------

LEMMA BlobInitInv ==
  ASSUME BlobBounds, BlobInit
  PROVE  BlobInv
<1>0. /\ 0 \in 0..MaxIncarnations /\ 0 \in 0..MaxOps /\ 0 \in 0..MaxLoss /\ None = 0
  BY BlobConstants
<1>1. BlobTypes BY <1>0 DEF BlobInit, BlobTypes, ManifestStates
<1>2. PutsFit
  <2>1. [inc |-> None, sent |-> FALSE, landed |-> FALSE] \in PutRecord BY <1>0 DEF PutRecord
  <2>2. puts \in [Ops -> PutRecord] BY <2>1 DEF BlobInit
  <2>3. \A o \in Ops : puts[o].inc = 0 /\ ~puts[o].sent /\ ~puts[o].landed BY <1>0 DEF BlobInit
  <2>4. cands = {} /\ nextInc = 0 BY DEF BlobInit
  <2> QED BY <2>2, <2>3, <2>4 DEF PutsFit
<1>3. RowFits
  <2>1. NoBlob \in BlobRecord /\ NoBlob.state = "none" /\ NoBlob.inc = 0
    BY <1>0 DEF NoBlob, BlobRecord
  <2>2. queue \in QueueRecord /\ ~queue.present BY DEF BlobInit, QueueRecord
  <2>3. \A k \in Keys : manifest[k] # "ready" BY DEF BlobInit
  <2>4. blobRow = NoBlob /\ nextInc = 0 BY DEF BlobInit
  <2> QED BY <2>1, <2>2, <2>3, <2>4 DEF RowFits
<1>4. HandlerInv
  <2>1. proc = [p \in Procs |-> Resting] BY DEF BlobInit
  <2>2. Resting \in HandlerRow /\ HandlerFits(Resting) BY <1>1, RestingFits
  <2> QED BY <2>1, <2>2 DEF HandlerInv
<1> QED BY <1>1, <1>2, <1>3, <1>4 DEF BlobInv

\* One step of an upload
LEMMA UploadStep ==
  ASSUME BlobBounds, BlobInv, NEW u \in Uploaders, Upload(u)
  PROVE  BlobInv' /\ CondemnedStays
<1>1. CASE Ack(u)
  <2>1. u \in Procs BY DEF Procs
  <2> QED BY <1>1, <2>1, CalmEnd DEF Ack
<1> QED BY <1>1, UploadBeginStep, ReserveStep, AdoptStep, CheckStep, RepairStep, LeaseStep, RegisterStep,
           PutFailsStep, VerifyStep, PromoteStep, DisownStep, EraseStep, RetireStep
        DEF Upload

\* One step of a DELETE or of one of the passes
LEMMA DeleteStep ==
  ASSUME BlobBounds, BlobInv, NEW p,
         \/ p \in Deleters /\ Delete(p)
         \/ p \in Reconcilers /\ Reconcile(p)
         \/ p \in Collectors /\ CollectPass(p)
  PROVE  BlobInv' /\ CondemnedStays
<1>1. p \in Procs BY DEF Procs, Passes
<1>2. CASE p \in Deleters /\ Delete(p)
  BY <1>1, <1>2, DeleteBeginStep, CancelStep, CondemnStep, WipeStep, HeadStep, DropStep DEF Delete
<1>3. CASE p \in Reconcilers /\ Reconcile(p)
  BY <1>1, <1>3, ReconcileBeginStep, InspectStep, SettleStep, DeferStep, WipeStep, HeadStep, DropStep
  DEF Reconcile
<1>4. CASE p \in Collectors /\ CollectPass(p)
  BY <1>4, CollectBeginStep, CollectStep, DequeueStep DEF CollectPass
<1> QED BY <1>2, <1>3, <1>4

\* Every step of the service
LEMMA BlobNextInv ==
  ASSUME BlobBounds, BlobInv, BlobNext
  PROVE  BlobInv' /\ CondemnedStays
<1>1. CASE \E s \in Sweepers : Sweep(s)
  <2>1. Sweepers \subseteq Procs BY DEF Procs
  <2> QED BY <1>1, <2>1, WipeStep
<1>2. CASE \E p \in Procs : Crash(p)
  <2>1. PICK p \in Procs : Crash(p) BY <1>2
  <2> QED BY <2>1, CalmEnd DEF Crash
<1>3. CASE \E u \in Uploaders : Upload(u) BY <1>3, UploadStep
<1>4. CASE \/ \E d \in Deleters : Delete(d)
           \/ \E r \in Reconcilers : Reconcile(r)
           \/ \E c \in Collectors : CollectPass(c)
  BY <1>4, DeleteStep
<1>5. CASE \E s \in Sweepers : \E o \in Ops : SweepBegin(s, o) BY <1>5, SweepBeginStep
<1>6. CASE \E g \in Readers : ReadBegin(g) \/ Read(g) BY <1>6, ReadStep
<1>7. CASE \E p \in Uploaders \cup Readers : QuarantineBlob(p) BY <1>7, QuarantineBlobStep
<1>8. CASE \E k \in Keys : \/ PutManifest(k) \/ ConflictManifest(k) \/ DropManifest(k)
                           \/ ExpireManifest(k) \/ CleanManifest(k)
  BY <1>8, ManifestStep
<1>9. CASE \E o \in Ops : PutLands(o) \/ PutDropped(o) BY <1>9, PutLandsStep, PutDroppedStep
<1>10. CASE \E i \in Incs : Lose(i) BY <1>10, LoseStep
<1>11. CASE Minute \/ Hour BY <1>11, TimeStep
<1> QED BY <1>1, <1>2, <1>3, <1>4, <1>5, <1>6, <1>7, <1>8, <1>9, <1>10, <1>11 DEF BlobNext

\* What the runs check follows
LEMMA BlobInvSafe ==
  ASSUME BlobBounds, BlobInv
  PROVE  BlobTypeOK /\ ReadyIsStored /\ ManifestIsBacked /\ LateWritesAreTracked /\ UnreferencedIsQueued
<1>1. BlobTypeOK
  <2>1. blobRow.inc \in 0..nextInc BY RowFacts, BlobConstants DEF BlobInv, BlobTypes
  <2>2. blobRow.snap \subseteq Passes BY RowFacts DEF BlobRecord
  <2>3. cands \subseteq Ops /\ queue \in QueueRecord BY DEF BlobInv, PutsFit, RowFits
  <2> QED BY <2>1, <2>2, <2>3, RowFacts
          DEF BlobTypeOK, BlobInv, BlobTypes, BlobStates, QueueRecord, ManifestStates
<1>2. ReadyIsStored BY BlobConstants DEF ReadyIsStored, BlobInv, RowFits
<1>3. ManifestIsBacked BY DEF ManifestIsBacked, BlobInv, RowFits
<1>4. LateWritesAreTracked BY DEF LateWritesAreTracked, BlobInv, PutsFit
<1>5. UnreferencedIsQueued BY DEF UnreferencedIsQueued, BlobInv, RowFits
<1> QED BY <1>1, <1>2, <1>3, <1>4, <1>5

\* A blob that is served is stored, whatever uploads, DELETEs, the reconciler,
\* the collector, the sweeper and PUTs carried out late do in whatever order and
\* wherever they die; a PUT that may still be carried out is tracked, an
\* unreferenced row is queued, and a condemned row never serves again.
THEOREM BlobsSafe ==
  ASSUME BlobBounds
  PROVE  BlobSpec => BlobsAreSafe
<1>1. BlobInit => BlobInv BY BlobInitInv
<1>2. BlobInv /\ [BlobNext]_blobVars => BlobInv' /\ [CondemnedStays]_blobVars
  <2>1. CASE BlobNext BY <2>1, BlobNextInv
  <2>2. CASE UNCHANGED blobVars
    BY <2>2 DEF blobVars, BlobInv, BlobTypes, PutsFit, RowFits, HandlerInv, HandlerFits, Kept, Gone, Owns,
                Landed, Sent
  <2> QED BY <2>1, <2>2
<1>3. BlobInv => BlobTypeOK /\ ReadyIsStored /\ ManifestIsBacked /\ LateWritesAreTracked
                 /\ UnreferencedIsQueued
  BY BlobInvSafe
<1> QED BY <1>1, <1>2, <1>3, PTL DEF BlobSpec, BlobsAreSafe
=============================================================================
