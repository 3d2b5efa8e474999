------------------------- MODULE TaskContextProofs -------------------------
(***************************************************************************)
(* DeliveryIsCurrent of McpDelivery, for any calls, generations and rooms. *)
(*                                                                         *)
(* History is tied to the generations: a challenge or a grant that bears   *)
(* the present lifecycle was issued since it began (ChallengeInv,          *)
(* GrantInv), so the comparisons at the acknowledgement and at the         *)
(* retrieval are enough, however stale what a worker read.  A call is      *)
(* issued a challenge once, under the lock of the ledger (LockInv), and    *)
(* what the reader holds between its steps stays true because only the     *)
(* reader moves the lifecycle (ReaderInv).                                 *)
(*                                                                         *)
(* ContextIsKept of ContextLedger, for any connections, values, quotas and *)
(* bounds, in the second part.  The rows are tied to the events (RowsInv)  *)
(* and each connection's cursor to the response that is on its way         *)
(* (Reception).                                                            *)
(***************************************************************************)
EXTENDS McpDelivery, ContextLedger, FiniteSetTheorems, SequenceTheorems,
        WellFoundedInduction, TLAPS

CallState == [pc : CallPc, key : Key, seen : 0..MaxComp]
ReaderState == [pc : ReaderPc, call : Call \cup {NoCall}, why : Invalidation]
Issued == {"queued", "written", "done"}

Types ==
    /\ life \in 1..MaxLife /\ comp \in 0..MaxComp
    /\ reader \in ReaderState /\ call \in [Call -> CallState]
    /\ retired \in Seq(Call) /\ Len(retired) <= RetiredRoom
    /\ writes \subseteq Call /\ confirmed \subseteq Key
    /\ written \subseteq Call /\ receipts \subseteq Call
    /\ resultOk \in BOOLEAN /\ fresh \subseteq Call
    /\ pending \in [Call -> Challenge \cup {NoChallenge}]
    /\ grants \in [Call -> Grant \cup {NoGrant}] /\ confirms \in [Call -> {0, 1}]

\* A challenge of this lifecycle is fresh, and no call has had another one
ChallengeInv(c, k, x, n) ==
    /\ c \in written => k.pc \in {"written", "done"}
    /\ n = 1 => k.pc \in Issued
    /\ x # NoChallenge =>
         /\ k.pc \in Issued /\ n = 0
         /\ x.life <= life /\ (x.life = life => c \in fresh)

\* A grant of this lifecycle is fresh
GrantInv(c, g) == g # NoGrant => g.life <= life /\ (g.life = life => c \in fresh)

\* The ledger has room, also for the challenge that is being issued
LockInv ==
    /\ Cardinality(Outstanding) <= PendingRoom
    /\ \A c \in Call : call[c].pc = "issuing" =>
         /\ Cardinality(Outstanding) < PendingRoom
         /\ \A d \in Call : call[d].pc = "issuing" => d = c

\* What the reader holds between its steps
ReaderInv ==
    /\ reader.pc \in {"ack", "confirm", "reasoning"} => reader.call \in Call /\ reader.call \in written
    /\ reader.pc \in {"confirm", "reasoning"} => reader.call \in fresh
    /\ reader.pc = "reasoning" => reader.call \in receipts
    /\ reader.pc \in {"retirePending", "retireGrants", "bump"} => life < MaxLife
    /\ reader.pc # "clearLedger" => \A k \in confirmed : k.life = life

DeliveryInv ==
    /\ Types /\ LockInv /\ ReaderInv
    /\ \A c \in Call : ChallengeInv(c, call[c], pending[c], confirms[c])
    /\ \A c \in Call : GrantInv(c, grants[c])

-----------------------------------------------------------------------------
LEMMA InitInv == Init => DeliveryInv
<1> SUFFICES ASSUME Init PROVE DeliveryInv OBVIOUS
<1> USE DeliveryAssumed DEF DeliveryAssumption
<1>1. Types
  BY DEF Init, Types, CallState, ReaderState, Idle, CallPc, ReaderPc, Invalidation, Key, NoKey, NoCall
<1>2. Outstanding = {} BY DEF Init, Outstanding
<1>3. LockInv BY <1>2, FS_EmptySet DEF LockInv, Init
<1>4. ReaderInv BY DEF ReaderInv, Init, Idle
<1>5. \A c \in Call : ChallengeInv(c, call[c], pending[c], confirms[c]) BY DEF Init, ChallengeInv
<1>6. \A c \in Call : GrantInv(c, grants[c]) BY DEF Init, GrantInv
<1> QED BY <1>1, <1>3, <1>4, <1>5, <1>6 DEF DeliveryInv

\* The outstanding challenges are finitely many, and fewer after a retirement
LEMMA OutstandingFinite ==
  /\ IsFiniteSet(Outstanding) /\ Cardinality(Outstanding) \in Nat
  /\ \A S \in SUBSET Outstanding : IsFiniteSet(S) /\ Cardinality(S) \in Nat
                                   /\ Cardinality(S) <= Cardinality(Outstanding)
<1>1. Outstanding \subseteq Call BY DEF Outstanding
<1>2. IsFiniteSet(Outstanding) BY <1>1, FS_Subset, DeliveryAssumed DEF DeliveryAssumption
<1>3. \A S \in SUBSET Outstanding : IsFiniteSet(S) /\ Cardinality(S) <= Cardinality(Outstanding)
  BY <1>2, FS_Subset
<1> QED BY <1>2, <1>3, FS_CardinalityType

\* The memory of retired challenges keeps its bound
LEMMA RememberedFits ==
  ASSUME retired \in Seq(Call), NEW S \in SUBSET Call, NEW q \in Remembered(S)
  PROVE  q \in Seq(Call) /\ Len(q) <= RetiredRoom
<1>1. PICK s \in [1..Cardinality(S) -> S] : q = LastOf(retired \o s, RetiredRoom)
  BY DEF Remembered
<1>2. IsFiniteSet(S) BY FS_Subset, DeliveryAssumed DEF DeliveryAssumption
<1>3. Cardinality(S) \in Nat BY <1>2, FS_CardinalityType
<1>4. s \in Seq(Call) BY <1>3
<1> DEFINE t == retired \o s
           m == IF Len(t) > RetiredRoom THEN Len(t) - RetiredRoom + 1 ELSE 1
<1>5. t \in Seq(Call) /\ Len(t) \in Nat BY <1>4
<1>6. RetiredRoom \in Nat /\ RetiredRoom # 0 BY DeliveryAssumed DEF DeliveryAssumption
<1>7. q = SubSeq(t, m, Len(t)) BY <1>1 DEF LastOf
<1>8. m \in 1..(Len(t) + 1) /\ Len(t) - m + 1 <= RetiredRoom BY <1>5, <1>6
<1> HIDE DEF t, m
<1>9. q \in Seq(Call) BY <1>5, <1>7, <1>8
<1>10. Len(q) = IF m <= Len(t) THEN Len(t) - m + 1 ELSE 0 BY <1>5, <1>7, <1>8
<1> QED BY <1>5, <1>6, <1>8, <1>9, <1>10

-----------------------------------------------------------------------------
(* Workers and the writer.                                                 *)

\* A worker moves and touches no challenge
LEMMA Moved ==
  ASSUME DeliveryInv, NEW c \in Call, NEW k \in CallState, call' = [call EXCEPT ![c] = k],
         call[c].pc \notin Issued, k.pc \notin Issued \cup {"issuing"}, writes' \subseteq Call,
         UNCHANGED <<life, comp, reader, ledger, confirmed, written, store, history>>
  PROVE  DeliveryInv' /\ DeliveryStep
<1>1. \A d \in Call : call'[d] = IF d = c THEN k ELSE call[d] BY DEF DeliveryInv, Types
<1>2. Types' BY DEF DeliveryInv, Types, ledger, store, history
<1>3. LockInv' BY <1>1 DEF DeliveryInv, LockInv, Outstanding, ledger
<1>4. ReaderInv' BY DEF DeliveryInv, ReaderInv, store, history
<1>5. \A d \in Call : ChallengeInv(d, call[d], pending[d], confirms[d])' 
  BY <1>1 DEF DeliveryInv, ChallengeInv, ledger, history, Issued
<1>6. \A d \in Call : GrantInv(d, grants[d])' BY DEF DeliveryInv, GrantInv, store, history
<1>7. DeliveryStep
  BY DEF DeliveryStep, ReceiptIsCurrent, BriefWasDelivered, NoStaleRetrieval, store
<1> QED BY <1>2, <1>3, <1>4, <1>5, <1>6, <1>7 DEF DeliveryInv

LEMMA PrepareSteps ==
  ASSUME DeliveryInv, NEW c \in Call, ReadRecipient(c) \/ Compile(c) \/ Attach(c)
  PROVE  DeliveryInv' /\ DeliveryStep
<1>0. /\ call \in [Call -> CallState] /\ call[c] \in CallState /\ writes \subseteq Call
      /\ life \in 1..MaxLife /\ comp \in 0..MaxComp
  BY DEF DeliveryInv, Types
<1>1. CASE ReadRecipient(c)
  <2> DEFINE k == [call[c] EXCEPT !.pc = "lookup", !.key = [conn |-> life, comp |-> comp, life |-> life]]
  <2>1. call' = [call EXCEPT ![c] = k] BY <1>0, <1>1 DEF ReadRecipient
  <2>2. k \in CallState /\ k.pc = "lookup" BY <1>0 DEF CallState, CallPc, Key
  <2> HIDE DEF k
  <2> QED BY <1>0, <1>1, <2>1, <2>2, Moved DEF ReadRecipient, Issued
<1>2. CASE Compile(c)
  <2> DEFINE key == [call[c].key EXCEPT !.life = life]
  <2>1. PICK p \in {"compact", "full", "issue"} : call' = [call EXCEPT ![c].pc = p, ![c].key = key]
    BY <1>2 DEF Compile
  <2> DEFINE k == [call[c] EXCEPT !.pc = p, !.key = key]
  <2>2. call' = [call EXCEPT ![c] = k] BY <1>0, <2>1
  <2>3. key \in Key BY <1>0 DEF CallState, Key
  <2>4. k \in CallState /\ k.pc = p BY <1>0, <2>3 DEF CallState, CallPc
  <2> HIDE DEF k
  <2> QED BY <1>0, <1>2, <2>2, <2>4, Moved DEF Compile, Issued
<1>3. CASE Attach(c)
  <2> DEFINE k == [call[c] EXCEPT !.pc = "issue"]
  <2>1. call' = [call EXCEPT ![c] = k] /\ writes' \subseteq Call BY <1>0, <1>3 DEF Attach, Goto
  <2>2. k \in CallState /\ k.pc = "issue" BY <1>0 DEF CallState, CallPc
  <2> HIDE DEF k
  <2> QED BY <1>0, <1>3, <2>1, <2>2, Moved DEF Attach, Issued
<1> QED BY <1>1, <1>2, <1>3

LEMMA Retirement ==
  ASSUME Types, NEW S \in SUBSET Call, Retire(S)
  PROVE  /\ pending' \in [Call -> Challenge \cup {NoChallenge}]
         /\ \A d \in Call : pending'[d] = IF d \in S THEN NoChallenge ELSE pending[d]
         /\ retired' \in Seq(Call) /\ Len(retired') <= RetiredRoom
         /\ Outstanding' = Outstanding \ S
         /\ Cardinality(Outstanding') \in Nat /\ Cardinality(Outstanding') <= Cardinality(Outstanding)
<1>1. \A d \in Call : pending'[d] = IF d \in S THEN NoChallenge ELSE pending[d] BY DEF Retire
<1>2. pending' \in [Call -> Challenge \cup {NoChallenge}] BY DEF Retire, Types
<1>3. retired' \in Seq(Call) /\ Len(retired') <= RetiredRoom
  BY RememberedFits DEF Retire, Types
<1>4. Outstanding' = Outstanding \ S BY <1>1 DEF Outstanding
<1>5. Outstanding \ S \in SUBSET Outstanding OBVIOUS
<1> QED BY <1>1, <1>2, <1>3, <1>4, <1>5, OutstandingFinite

LEMMA IssueBeginStep ==
  ASSUME DeliveryInv, NEW c \in Call, IssueBegin(c)
  PROVE  DeliveryInv' /\ DeliveryStep
<1>0. /\ call \in [Call -> CallState] /\ call[c] \in CallState /\ writes \subseteq Call
      /\ comp \in 0..MaxComp /\ call[c].pc = "issue" /\ LedgerFree
      /\ UNCHANGED <<life, comp, reader, confirmed, written, store, history>>
  BY DEF DeliveryInv, Types, IssueBegin
<1>1. PICK S \in SUBSET Outstanding :
        /\ Retire(S)
        /\ IF Cardinality(Outstanding \ S) < PendingRoom
           THEN call' = [call EXCEPT ![c].pc = "issuing", ![c].seen = comp] /\ UNCHANGED writes
           ELSE Goto(c, "done") /\ writes' = writes \ {c}
  BY DEF IssueBegin
<1>2. S \subseteq Call BY DEF Outstanding
<1>3. /\ pending' \in [Call -> Challenge \cup {NoChallenge}]
      /\ \A d \in Call : pending'[d] = IF d \in S THEN NoChallenge ELSE pending[d]
      /\ retired' \in Seq(Call) /\ Len(retired') <= RetiredRoom
      /\ Outstanding' = Outstanding \ S
      /\ Cardinality(Outstanding') \in Nat /\ Cardinality(Outstanding') <= Cardinality(Outstanding)
  BY <1>1, <1>2, Retirement DEF DeliveryInv
<1>4. PICK k \in CallState :
        /\ call' = [call EXCEPT ![c] = k] /\ writes' \subseteq Call
        /\ k.pc \in {"issuing", "done"}
        /\ k.pc = "issuing" => Cardinality(Outstanding') < PendingRoom
  <2>1. CASE Cardinality(Outstanding \ S) < PendingRoom
    <3> DEFINE k == [call[c] EXCEPT !.pc = "issuing", !.seen = comp]
    <3>1. call' = [call EXCEPT ![c] = k] /\ writes' \subseteq Call BY <1>0, <1>1, <2>1
    <3>2. k \in CallState /\ k.pc = "issuing" BY <1>0 DEF CallState, CallPc
    <3> HIDE DEF k
    <3> QED BY <1>3, <2>1, <3>1, <3>2
  <2>2. CASE ~(Cardinality(Outstanding \ S) < PendingRoom)
    <3> DEFINE k == [call[c] EXCEPT !.pc = "done"]
    <3>1. call' = [call EXCEPT ![c] = k] /\ writes' \subseteq Call BY <1>0, <1>1, <2>2 DEF Goto
    <3>2. k \in CallState /\ k.pc = "done" BY <1>0 DEF CallState, CallPc
    <3> HIDE DEF k
    <3> QED BY <3>1, <3>2
  <2> QED BY <2>1, <2>2
<1>5. \A d \in Call : call'[d] = IF d = c THEN k ELSE call[d] BY <1>0, <1>4
<1>6. Types' BY <1>0, <1>3, <1>4 DEF DeliveryInv, Types, store, history
<1>7. LockInv'
  <2>1. Cardinality(Outstanding) <= PendingRoom /\ Cardinality(Outstanding) \in Nat
    BY OutstandingFinite DEF DeliveryInv, LockInv
  <2>2. Cardinality(Outstanding') <= PendingRoom
    BY <1>3, <2>1, DeliveryAssumed DEF DeliveryAssumption
  <2>3. \A d \in Call : call'[d].pc = "issuing" => d = c /\ k.pc = "issuing"
    BY <1>0, <1>5 DEF LedgerFree
  <2> QED BY <1>4, <2>2, <2>3 DEF LockInv
<1>8. ReaderInv' BY <1>0 DEF DeliveryInv, ReaderInv, store, history
<1>9. \A d \in Call : ChallengeInv(d, call[d], pending[d], confirms[d])'
  BY <1>0, <1>3, <1>4, <1>5 DEF DeliveryInv, ChallengeInv, history, Issued
<1>10. \A d \in Call : GrantInv(d, grants[d])' BY <1>0 DEF DeliveryInv, GrantInv, store, history
<1>11. DeliveryStep
  BY <1>0 DEF DeliveryStep, ReceiptIsCurrent, BriefWasDelivered, NoStaleRetrieval, store
<1> QED BY <1>6, <1>7, <1>8, <1>9, <1>10, <1>11 DEF DeliveryInv

LEMMA IssueEndStep ==
  ASSUME DeliveryInv, NEW c \in Call, IssueEnd(c)
  PROVE  DeliveryInv' /\ DeliveryStep
<1> DEFINE x == [life |-> life, comp |-> call[c].seen, flushed |-> FALSE]
           k == [call[c] EXCEPT !.pc = "queued"]
<1>0. /\ call \in [Call -> CallState] /\ call[c] \in CallState /\ life \in 1..MaxLife
      /\ call[c].pc = "issuing"
      /\ UNCHANGED <<life, comp, reader, retired, writes, confirmed, written, store, confirms>>
      /\ fresh' = fresh \cup {c} /\ pending' = [pending EXCEPT ![c] = x]
      /\ pending \in [Call -> Challenge \cup {NoChallenge}]
  BY DEF DeliveryInv, Types, IssueEnd
<1>1. call' = [call EXCEPT ![c] = k] BY <1>0 DEF IssueEnd, Goto
<1>2. k \in CallState /\ k.pc = "queued" BY <1>0 DEF CallState, CallPc
<1>3. x \in Challenge /\ x.life = life BY <1>0 DEF Challenge, CallState
<1> HIDE DEF x, k
<1>4. \A d \in Call : /\ call'[d] = IF d = c THEN k ELSE call[d]
                      /\ pending'[d] = IF d = c THEN x ELSE pending[d]
  BY <1>0, <1>1
<1>5. Types' BY <1>0, <1>1, <1>2, <1>3 DEF DeliveryInv, Types, store
<1>6. LockInv'
  <2>1. Outstanding' \subseteq Outstanding \cup {c} BY <1>4 DEF Outstanding
  <2>2. /\ IsFiniteSet(Outstanding \cup {c})
        /\ Cardinality(Outstanding \cup {c}) <= Cardinality(Outstanding) + 1
    BY OutstandingFinite, FS_AddElement
  <2>3. IsFiniteSet(Outstanding') /\ Cardinality(Outstanding') <= Cardinality(Outstanding \cup {c})
    BY <2>1, <2>2, FS_Subset
  <2>4. Cardinality(Outstanding') \in Nat /\ Cardinality(Outstanding \cup {c}) \in Nat
    BY <2>2, <2>3, FS_CardinalityType
  <2>5. Cardinality(Outstanding) < PendingRoom /\ Cardinality(Outstanding) \in Nat
    BY <1>0, OutstandingFinite DEF DeliveryInv, LockInv
  <2>6. Cardinality(Outstanding') <= PendingRoom
    BY <2>2, <2>3, <2>4, <2>5, DeliveryAssumed DEF DeliveryAssumption
  <2>7. \A d \in Call : call'[d].pc # "issuing" BY <1>0, <1>2, <1>4 DEF DeliveryInv, LockInv
  <2> QED BY <2>6, <2>7 DEF LockInv
<1>7. ReaderInv' BY <1>0 DEF DeliveryInv, ReaderInv, store
<1>8. \A d \in Call : ChallengeInv(d, call[d], pending[d], confirms[d])'
  <2> SUFFICES ASSUME NEW d \in Call PROVE ChallengeInv(d, call[d], pending[d], confirms[d])' OBVIOUS
  <2>1. ChallengeInv(d, call[d], pending[d], confirms[d]) /\ confirms[d] \in {0, 1}
    BY DEF DeliveryInv, Types
  <2>2. CASE d = c
    BY <1>0, <1>2, <1>3, <1>4, <2>1, <2>2 DEF ChallengeInv, Issued
  <2>3. CASE d # c BY <1>0, <1>4, <2>1, <2>3 DEF ChallengeInv
  <2> QED BY <2>2, <2>3
<1>9. \A d \in Call : GrantInv(d, grants[d])' BY <1>0 DEF DeliveryInv, GrantInv, store
<1>10. DeliveryStep
  BY <1>0 DEF DeliveryStep, ReceiptIsCurrent, BriefWasDelivered, NoStaleRetrieval, store
<1> QED BY <1>5, <1>6, <1>7, <1>8, <1>9, <1>10 DEF DeliveryInv

LEMMA WriterSteps ==
  ASSUME DeliveryInv, NEW c \in Call, WriteOut(c) \/ MarkFlushed(c)
  PROVE  DeliveryInv' /\ DeliveryStep
<1>0. /\ call \in [Call -> CallState] /\ call[c] \in CallState
      /\ pending \in [Call -> Challenge \cup {NoChallenge}] /\ written \subseteq Call
      /\ UNCHANGED <<life, comp, reader, retired, writes, confirmed, store, history>>
  BY DEF DeliveryInv, Types, WriteOut, MarkFlushed, ledger
<1>1. PICK k \in CallState :
        /\ call' = [call EXCEPT ![c] = k]
        /\ k.pc \in {"written", "done"} /\ call[c].pc \in {"queued", "written"}
        /\ written' \in {written, written \cup {c}}
  <2>1. CASE WriteOut(c)
    <3> DEFINE k == [call[c] EXCEPT !.pc = "written"]
    <3>1. call' = [call EXCEPT ![c] = k] BY <1>0, <2>1 DEF WriteOut, Goto
    <3>2. k \in CallState /\ k.pc = "written" BY <1>0 DEF CallState, CallPc
    <3> HIDE DEF k
    <3> QED BY <2>1, <3>1, <3>2 DEF WriteOut
  <2>2. CASE MarkFlushed(c)
    <3> DEFINE k == [call[c] EXCEPT !.pc = "done"]
    <3>1. call' = [call EXCEPT ![c] = k] BY <1>0, <2>2 DEF MarkFlushed, Goto
    <3>2. k \in CallState /\ k.pc = "done" BY <1>0 DEF CallState, CallPc
    <3> HIDE DEF k
    <3> QED BY <2>2, <3>1, <3>2 DEF MarkFlushed
  <2> QED BY <2>1, <2>2
<1>2. PICK x \in Challenge \cup {NoChallenge} :
        /\ pending' = [pending EXCEPT ![c] = x]
        /\ (x = NoChallenge <=> pending[c] = NoChallenge) /\ x.life = pending[c].life
  <2>1. CASE pending' = pending BY <1>0, <2>1
  <2>2. CASE pending[c] # NoChallenge /\ pending' = [pending EXCEPT ![c].flushed = TRUE]
    <3> DEFINE x == [pending[c] EXCEPT !.flushed = TRUE]
    <3>1. pending[c] \in Challenge BY <1>0, <2>2
    <3>2. pending' = [pending EXCEPT ![c] = x] BY <1>0, <2>2
    <3>3. x \in Challenge /\ x.life = pending[c].life /\ x.flushed = TRUE BY <3>1 DEF Challenge
    <3>4. x # NoChallenge BY <3>3 DEF NoChallenge
    <3> HIDE DEF x
    <3> QED BY <2>2, <3>2, <3>3, <3>4
  <2> QED BY <2>1, <2>2 DEF WriteOut, MarkFlushed, ledger
<1>3. \A d \in Call : /\ call'[d] = IF d = c THEN k ELSE call[d]
                      /\ pending'[d] = IF d = c THEN x ELSE pending[d]
  BY <1>0, <1>1, <1>2
<1>4. Types' BY <1>0, <1>1, <1>2 DEF DeliveryInv, Types, store, history
<1>5. Outstanding' = Outstanding BY <1>2, <1>3 DEF Outstanding
<1>6. LockInv' BY <1>1, <1>3, <1>5 DEF DeliveryInv, LockInv
<1>7. ReaderInv' BY <1>0, <1>1 DEF DeliveryInv, ReaderInv, store, history
<1>8. \A d \in Call : ChallengeInv(d, call[d], pending[d], confirms[d])'
  <2> SUFFICES ASSUME NEW d \in Call PROVE ChallengeInv(d, call[d], pending[d], confirms[d])' OBVIOUS
  <2>1. ChallengeInv(d, call[d], pending[d], confirms[d]) BY DEF DeliveryInv
  <2>2. CASE d = c BY <1>0, <1>1, <1>2, <1>3, <2>1, <2>2 DEF ChallengeInv, Issued, history
  <2>3. CASE d # c BY <1>0, <1>1, <1>3, <2>1, <2>3 DEF ChallengeInv, history
  <2> QED BY <2>2, <2>3
<1>9. \A d \in Call : GrantInv(d, grants[d])' BY <1>0 DEF DeliveryInv, GrantInv, store, history
<1>10. DeliveryStep
  BY <1>0 DEF DeliveryStep, ReceiptIsCurrent, BriefWasDelivered, NoStaleRetrieval, store
<1> QED BY <1>4, <1>6, <1>7, <1>8, <1>9, <1>10 DEF DeliveryInv

-----------------------------------------------------------------------------
(* The reader.                                                             *)

\* A step of the reader that leaves the challenges and the lifecycle alone
LEMMA ReaderMoves ==
  ASSUME DeliveryInv, ReaderInv', reader' \in ReaderState, comp' \in 0..MaxComp,
         writes' \subseteq Call, confirmed' \subseteq Key, receipts' \subseteq Call,
         resultOk' \in BOOLEAN, grants' \in [Call -> Grant \cup {NoGrant}],
         \A d \in Call : GrantInv(d, grants[d])',
         UNCHANGED <<life, call, ledger, written, history>>
  PROVE  DeliveryInv'
<1>1. Types' BY DEF DeliveryInv, Types, ledger, history
<1>2. LockInv' BY DEF DeliveryInv, LockInv, Outstanding, ledger
<1>3. \A d \in Call : ChallengeInv(d, call[d], pending[d], confirms[d])'
  BY DEF DeliveryInv, ChallengeInv, ledger, history
<1> QED BY <1>1, <1>2, <1>3 DEF DeliveryInv

\* The reader only goes on to its next step
ReaderGoes(r) ==
    /\ reader' = r
    /\ UNCHANGED <<life, call, ledger, confirmed, written, store, history>>

LEMMA ReaderGoesOn ==
  ASSUME DeliveryInv, NEW r \in ReaderState, ReaderGoes(r), comp' \in 0..MaxComp,
         writes' \subseteq Call,
         r.pc \notin {"confirm", "reasoning", "clearLedger"},
         r.pc = "ack" => r.call \in written,
         r.pc \in {"retirePending", "retireGrants", "bump"} => life < MaxLife,
         reader.pc # "clearLedger"
  PROVE  DeliveryInv' /\ DeliveryStep
<1>1. written \subseteq Call /\ Types BY DEF DeliveryInv, Types
<1>2. ReaderInv' BY <1>1 DEF DeliveryInv, ReaderInv, ReaderGoes
<1>3. \A d \in Call : GrantInv(d, grants[d])' BY DEF DeliveryInv, GrantInv, ReaderGoes, store, history
<1>4. DeliveryInv' BY <1>1, <1>2, <1>3, ReaderMoves DEF Types, ReaderGoes, store
<1>5. DeliveryStep
  BY DEF ReaderGoes, DeliveryStep, ReceiptIsCurrent, BriefWasDelivered, NoStaleRetrieval, store
<1> QED BY <1>4, <1>5

LEMMA ReceiveAckStep ==
  ASSUME DeliveryInv, NEW c \in Call, ReceiveAck(c)
  PROVE  DeliveryInv' /\ DeliveryStep
<1> DEFINE r == [reader EXCEPT !.pc = "ack", !.call = c]
<1>0. reader \in ReaderState /\ comp \in 0..MaxComp /\ writes \subseteq Call BY DEF DeliveryInv, Types
<1>1. r \in ReaderState /\ r.pc = "ack" /\ r.call = c BY <1>0 DEF ReaderState, ReaderPc
<1>2. ReaderGoes(r) BY DEF ReceiveAck, ReaderGoes
<1> HIDE DEF r
<1> QED BY <1>0, <1>1, <1>2, ReaderGoesOn DEF ReceiveAck

LEMMA InvalidateStep ==
  ASSUME DeliveryInv, NEW c \in Call \cup {NoCall}, NEW why \in Invalidation, Invalidate(why, c)
  PROVE  DeliveryInv' /\ DeliveryStep
<1> DEFINE r == [pc |-> "retirePending", call |-> c, why |-> why]
<1>0. comp \in 0..MaxComp /\ writes \subseteq Call BY DEF DeliveryInv, Types
<1>1. r \in ReaderState /\ r.pc = "retirePending" BY DEF ReaderState, ReaderPc
<1>2. ReaderGoes(r) BY DEF Invalidate, ReaderGoes
<1> HIDE DEF r
<1> QED BY <1>0, <1>1, <1>2, ReaderGoesOn DEF Invalidate

LEMMA ClearWritesStep ==
  ASSUME DeliveryInv, ClearWrites
  PROVE  DeliveryInv' /\ DeliveryStep
<1>0. reader \in ReaderState /\ comp \in 0..MaxComp BY DEF DeliveryInv, Types
<1>1. PICK p \in {"compact", "idle", "closed"} : ReaderAt(p)
  BY <1>0 DEF ClearWrites, ReaderState, Invalidation
<1> DEFINE r == [reader EXCEPT !.pc = p]
<1>2. r \in ReaderState /\ r.pc = p BY <1>0 DEF ReaderState, ReaderPc
<1>3. ReaderGoes(r) BY <1>1 DEF ClearWrites, ReaderGoes, ReaderAt
<1> HIDE DEF r
<1> QED BY <1>0, <1>2, <1>3, ReaderGoesOn DEF ClearWrites

LEMMA StoreCompactionStep ==
  ASSUME DeliveryInv, StoreCompaction
  PROVE  DeliveryInv' /\ DeliveryStep
<1> DEFINE r == [reader EXCEPT !.pc = "idle"]
<1>0. reader \in ReaderState /\ comp \in 0..MaxComp /\ writes \subseteq Call BY DEF DeliveryInv, Types
<1>1. comp' \in 0..MaxComp BY <1>0, DeliveryAssumed DEF StoreCompaction, DeliveryAssumption
<1>2. r \in ReaderState /\ r.pc = "idle" BY <1>0 DEF ReaderState, ReaderPc
<1>3. ReaderGoes(r) BY DEF StoreCompaction, ReaderGoes, ReaderAt
<1> HIDE DEF r
<1> QED BY <1>0, <1>1, <1>2, <1>3, ReaderGoesOn DEF StoreCompaction

\* A step of the reader that retires challenges, and accepts at most one of them
LEMMA Retires ==
  ASSUME DeliveryInv, NEW S \in SUBSET Call, Retire(S), LedgerFree,
         reader' \in ReaderState, ReaderInv', NEW A \in SUBSET S,
         \A d \in A : pending[d] # NoChallenge,
         confirms' = [d \in Call |-> IF d \in A THEN confirms[d] + 1 ELSE confirms[d]],
         UNCHANGED <<life, comp, call, writes, confirmed, written, store, fresh>>
  PROVE  DeliveryInv' /\ DeliveryStep
<1>1. /\ pending' \in [Call -> Challenge \cup {NoChallenge}]
      /\ \A d \in Call : pending'[d] = IF d \in S THEN NoChallenge ELSE pending[d]
      /\ retired' \in Seq(Call) /\ Len(retired') <= RetiredRoom
      /\ Outstanding' = Outstanding \ S
      /\ Cardinality(Outstanding') \in Nat /\ Cardinality(Outstanding') <= Cardinality(Outstanding)
  BY Retirement DEF DeliveryInv
<1>2. \A d \in Call : /\ ChallengeInv(d, call[d], pending[d], confirms[d])
                      /\ confirms[d] \in {0, 1} /\ GrantInv(d, grants[d])
  BY DEF DeliveryInv, Types
<1>3. \A d \in A : confirms[d] = 0 /\ call[d].pc \in Issued BY <1>2 DEF ChallengeInv
<1>4. \A d \in Call : confirms'[d] = IF d \in A THEN 1 ELSE confirms[d] BY <1>3
<1>5. confirms' \in [Call -> {0, 1}] BY <1>2, <1>3
<1>6. Types' BY <1>1, <1>5 DEF DeliveryInv, Types, store
<1>7. LockInv'
  <2>1. Cardinality(Outstanding) <= PendingRoom /\ Cardinality(Outstanding) \in Nat
    BY OutstandingFinite DEF DeliveryInv, LockInv
  <2>2. Cardinality(Outstanding') <= PendingRoom
    BY <1>1, <2>1, DeliveryAssumed DEF DeliveryAssumption
  <2> QED BY <2>2 DEF LockInv, LedgerFree
<1>8. \A d \in Call : ChallengeInv(d, call[d], pending[d], confirms[d])'
  <2> SUFFICES ASSUME NEW d \in Call PROVE ChallengeInv(d, call[d], pending[d], confirms[d])' OBVIOUS
  <2>1. CASE d \in A BY <1>1, <1>2, <1>3, <1>4, <2>1 DEF ChallengeInv
  <2>2. CASE d \notin A BY <1>1, <1>2, <1>4, <2>2 DEF ChallengeInv
  <2> QED BY <2>1, <2>2
<1>9. \A d \in Call : GrantInv(d, grants[d])' BY <1>2 DEF GrantInv, store
<1>10. DeliveryStep
  BY DEF DeliveryStep, ReceiptIsCurrent, BriefWasDelivered, NoStaleRetrieval, store
<1> QED BY <1>6, <1>7, <1>8, <1>9, <1>10 DEF DeliveryInv

LEMMA AcknowledgeStep ==
  ASSUME DeliveryInv, Acknowledge
  PROVE  DeliveryInv' /\ DeliveryStep
<1> DEFINE c == reader.call
<1>0. /\ reader \in ReaderState /\ comp \in 0..MaxComp /\ writes \subseteq Call
      /\ confirms \in [Call -> {0, 1}] /\ reader.pc = "ack" /\ LedgerFree
      /\ c \in Call /\ c \in written
      /\ UNCHANGED <<life, comp, call, writes, confirmed, written, store, fresh>>
  BY DEF DeliveryInv, Types, Acknowledge, ReaderInv
<1>1. CASE ReaderAt("idle") /\ UNCHANGED <<ledger, confirms>>
  <2> DEFINE r == [reader EXCEPT !.pc = "idle"]
  <2>1. r \in ReaderState /\ r.pc = "idle" BY <1>0 DEF ReaderState, ReaderPc
  <2>2. ReaderGoes(r) BY <1>0, <1>1 DEF ReaderGoes, ReaderAt, history
  <2> HIDE DEF r
  <2> QED BY <1>0, <2>1, <2>2, ReaderGoesOn
<1>2. CASE Retire({c}) /\ ReaderAt("idle") /\ UNCHANGED confirms
  <2>1. reader' \in ReaderState /\ reader'.pc = "idle" BY <1>0, <1>2 DEF ReaderState, ReaderPc, ReaderAt
  <2>2. ReaderInv' BY <1>0, <2>1 DEF DeliveryInv, ReaderInv, store
  <2>3. confirms' = [d \in Call |-> IF d \in {} THEN confirms[d] + 1 ELSE confirms[d]] BY <1>0, <1>2
  <2>4. {c} \in SUBSET Call /\ {} \in SUBSET {c} BY <1>0
  <2> QED BY <1>0, <1>2, <2>1, <2>2, <2>3, <2>4, Retires
<1>3. CASE /\ pending[c] # NoChallenge /\ Retire({c}) /\ ReaderAt("confirm") /\ Acceptable(c)
           /\ confirms' = [confirms EXCEPT ![c] = @ + 1]
  <2>1. reader' \in ReaderState /\ reader'.pc = "confirm" /\ reader'.call = c
    BY <1>0, <1>3 DEF ReaderState, ReaderPc, ReaderAt
  <2>2. c \in fresh BY <1>0, <1>3 DEF DeliveryInv, ChallengeInv, Acceptable
  <2>3. ReaderInv' BY <1>0, <2>1, <2>2 DEF DeliveryInv, ReaderInv, store
  <2>4. confirms' = [d \in Call |-> IF d \in {c} THEN confirms[d] + 1 ELSE confirms[d]] BY <1>0, <1>3
  <2>5. {c} \in SUBSET Call /\ {c} \in SUBSET {c} /\ \A d \in {c} : pending[d] # NoChallenge BY <1>0, <1>3
  <2> HIDE DEF c
  <2> QED BY <1>0, <1>3, <2>1, <2>3, <2>4, <2>5, Retires
<1> QED BY <1>1, <1>2, <1>3 DEF Acknowledge

LEMMA RetirePendingStep ==
  ASSUME DeliveryInv, RetirePending
  PROVE  DeliveryInv' /\ DeliveryStep
<1>0. /\ reader \in ReaderState /\ confirms \in [Call -> {0, 1}] /\ LedgerFree
      /\ UNCHANGED <<life, comp, call, writes, confirmed, written, store, fresh, confirms>>
      /\ reader.pc = "retirePending" /\ ReaderAt("retireGrants")
  BY DEF DeliveryInv, Types, RetirePending, history
<1>1. PICK S \in SUBSET Call : Retire(S)
  BY DEF RetirePending, Outstanding
<1>2. reader' \in ReaderState /\ reader'.pc = "retireGrants" BY <1>0 DEF ReaderState, ReaderPc, ReaderAt
<1>3. ReaderInv' BY <1>0, <1>2 DEF DeliveryInv, ReaderInv, store
<1>4. confirms' = [d \in Call |-> IF d \in {} THEN confirms[d] + 1 ELSE confirms[d]] BY <1>0
<1>5. {} \in SUBSET S OBVIOUS
<1> QED BY <1>0, <1>1, <1>2, <1>3, <1>4, <1>5, Retires

LEMMA ConfirmDeliveryStep ==
  ASSUME DeliveryInv, ConfirmDelivery
  PROVE  DeliveryInv' /\ DeliveryStep
<1> DEFINE c == reader.call
           g == [life |-> life, comp |-> comp, state |-> "live"]
<1>0. /\ reader \in ReaderState /\ comp \in 0..MaxComp /\ life \in 1..MaxLife /\ writes \subseteq Call
      /\ confirmed \subseteq Key /\ receipts \subseteq Call /\ resultOk \in BOOLEAN
      /\ grants \in [Call -> Grant \cup {NoGrant}]
      /\ reader.pc = "confirm" /\ c \in Call /\ c \in written /\ c \in fresh
      /\ UNCHANGED <<life, comp, call, ledger, confirmed, written, resultOk, history>>
  BY DEF DeliveryInv, Types, ConfirmDelivery, ReaderInv
<1>1. CASE writes' = writes \ {c} /\ ReaderAt("idle") /\ UNCHANGED <<receipts, grants>>
  <2> DEFINE r == [reader EXCEPT !.pc = "idle"]
  <2>1. r \in ReaderState /\ r.pc = "idle" BY <1>0 DEF ReaderState, ReaderPc
  <2>2. ReaderGoes(r) BY <1>0, <1>1 DEF ReaderGoes, ReaderAt, store
  <2> HIDE DEF r
  <2> QED BY <1>0, <1>1, <2>1, <2>2, ReaderGoesOn
<1>2. CASE /\ receipts' = receipts \cup {c} /\ grants' = [grants EXCEPT ![c] = g]
           /\ ReaderAt("reasoning") /\ UNCHANGED writes
  <2>1. reader' \in ReaderState /\ reader'.pc = "reasoning" /\ reader'.call = c
    BY <1>0, <1>2 DEF ReaderState, ReaderPc, ReaderAt
  <2>2. g \in Grant /\ g.life = life /\ g.state = "live" BY <1>0 DEF Grant
  <2>3. ReaderInv' BY <1>0, <1>2, <2>1 DEF DeliveryInv, ReaderInv, history
  <2> HIDE DEF c, g
  <2>4. \A d \in Call : grants'[d] = IF d = c THEN g ELSE grants[d] BY <1>0, <1>2
  <2>5. grants' \in [Call -> Grant \cup {NoGrant}] BY <1>0, <1>2, <2>2
  <2>6. \A d \in Call : GrantInv(d, grants[d])'
    BY <1>0, <2>2, <2>4 DEF DeliveryInv, GrantInv, history
  <2>7. receipts' \subseteq Call /\ confirmed' \subseteq Key /\ comp' \in 0..MaxComp
        /\ writes' \subseteq Call /\ resultOk' \in BOOLEAN
        /\ UNCHANGED <<life, call, ledger, written, history>>
    BY <1>0, <1>2
  <2>8. DeliveryInv' BY <2>1, <2>3, <2>5, <2>6, <2>7, ReaderMoves
  <2>9. DeliveryStep
    BY <1>0, <1>2, <2>2, <2>4 DEF DeliveryStep, ReceiptIsCurrent, BriefWasDelivered, NoStaleRetrieval
  <2> QED BY <2>8, <2>9
<1> QED BY <1>1, <1>2 DEF ConfirmDelivery

LEMMA ConfirmReasoningStep ==
  ASSUME DeliveryInv, ConfirmReasoning
  PROVE  DeliveryInv' /\ DeliveryStep
<1> DEFINE c == reader.call
<1>0. /\ reader \in ReaderState /\ comp \in 0..MaxComp /\ writes \subseteq Call
      /\ confirmed \subseteq Key /\ receipts \subseteq Call /\ resultOk \in BOOLEAN
      /\ grants \in [Call -> Grant \cup {NoGrant}] /\ call \in [Call -> CallState]
      /\ reader.pc = "reasoning" /\ c \in Call /\ c \in written /\ c \in receipts
      /\ \A k \in confirmed : k.life = life
      /\ writes' = writes \ {c} /\ ReaderAt("idle")
      /\ UNCHANGED <<life, comp, call, ledger, written, store, history>>
  BY DEF DeliveryInv, Types, ConfirmReasoning, ReaderInv
<1>1. reader' \in ReaderState /\ reader'.pc = "idle" BY <1>0 DEF ReaderState, ReaderPc, ReaderAt
<1>2. call[c].key \in Key BY <1>0 DEF CallState
<1>3. confirmed' \subseteq Key /\ \A k \in confirmed' : k \in confirmed \/ (k = call[c].key /\ k.life = life)
  BY <1>0, <1>2 DEF ConfirmReasoning
<1>4. ReaderInv' BY <1>0, <1>1, <1>3 DEF ReaderInv
<1>5. \A d \in Call : GrantInv(d, grants[d])' BY <1>0 DEF DeliveryInv, GrantInv, store, history
<1>6. receipts' \subseteq Call /\ comp' \in 0..MaxComp /\ writes' \subseteq Call
      /\ resultOk' \in BOOLEAN /\ grants' \in [Call -> Grant \cup {NoGrant}]
  BY <1>0 DEF store
<1>7. DeliveryInv' BY <1>0, <1>1, <1>3, <1>4, <1>5, <1>6, ReaderMoves
<1>8. DeliveryStep
  BY <1>0, <1>3 DEF DeliveryStep, ReceiptIsCurrent, BriefWasDelivered, NoStaleRetrieval, store
<1> QED BY <1>7, <1>8

\* A step that only changes the states of grants, and uses one only when it
\* bears the present lifecycle
LEMMA GrantsMove ==
  ASSUME DeliveryInv, reader' \in ReaderState, ReaderInv',
         grants' \in [Call -> Grant \cup {NoGrant}],
         \A d \in Call : /\ grants'[d].life = grants[d].life
                         /\ grants[d] = NoGrant => grants'[d] = NoGrant
                         /\ grants[d] # NoGrant /\ grants[d].state = "live" /\ grants'[d].state = "consumed"
                            => grants[d].life = life,
         resultOk' \in BOOLEAN,
         UNCHANGED <<life, comp, call, ledger, writes, confirmed, written, receipts, history>>
  PROVE  DeliveryInv' /\ DeliveryStep
<1>1. /\ comp \in 0..MaxComp /\ writes \subseteq Call /\ confirmed \subseteq Key /\ receipts \subseteq Call
  BY DEF DeliveryInv, Types
<1>2. \A d \in Call : GrantInv(d, grants[d])' BY DEF DeliveryInv, GrantInv, history
<1>3. DeliveryInv' BY <1>1, <1>2, ReaderMoves
<1>4. NoStaleRetrieval BY DEF DeliveryInv, GrantInv, NoStaleRetrieval
<1>5. DeliveryStep BY <1>4 DEF DeliveryStep, ReceiptIsCurrent, BriefWasDelivered
<1> QED BY <1>3, <1>5

\* Only the state of a grant is changed
LEMMA GrantTurned ==
  ASSUME NEW g \in Grant, NEW s \in {"live", "consumed", "retired"}
  PROVE  /\ [g EXCEPT !.state = s] \in Grant
         /\ [g EXCEPT !.state = s].life = g.life /\ [g EXCEPT !.state = s].state = s
BY DEF Grant

LEMMA RetrieveStep ==
  ASSUME DeliveryInv, NEW c \in Call, Retrieve(c)
  PROVE  DeliveryInv' /\ DeliveryStep
<1>0. /\ reader \in ReaderState /\ resultOk \in BOOLEAN
      /\ grants \in [Call -> Grant \cup {NoGrant}] /\ grants[c] # NoGrant /\ grants[c] \in Grant
      /\ UNCHANGED <<life, comp, reader, call, ledger, writes, confirmed, written, receipts, resultOk, history>>
  BY DEF DeliveryInv, Types, Retrieve
<1>1. ReaderInv' BY <1>0 DEF DeliveryInv, ReaderInv, history
<1>2. ASSUME NEW s \in {"consumed", "retired"}, grants' = [grants EXCEPT ![c].state = s],
             s = "consumed" => grants[c].life = life
      PROVE  DeliveryInv' /\ DeliveryStep
  <2> DEFINE g == [grants[c] EXCEPT !.state = s]
  <2>1. grants' = [grants EXCEPT ![c] = g] BY <1>0, <1>2
  <2>2. g \in Grant /\ g.life = grants[c].life /\ g.state = s BY <1>0, GrantTurned
  <2> HIDE DEF g
  <2>3. \A d \in Call : grants'[d] = IF d = c THEN g ELSE grants[d] BY <1>0, <2>1
  <2>4. grants' \in [Call -> Grant \cup {NoGrant}] BY <1>0, <2>1, <2>2
  <2>5. \A d \in Call : /\ grants'[d].life = grants[d].life
                        /\ grants[d] = NoGrant => grants'[d] = NoGrant
                        /\ grants[d] # NoGrant /\ grants[d].state = "live" /\ grants'[d].state = "consumed"
                           => grants[d].life = life
    BY <1>0, <1>2, <2>2, <2>3
  <2> QED BY <1>0, <1>1, <2>4, <2>5, GrantsMove
<1>3. CASE grants' = [d \in Call |-> IF grants[d] # NoGrant /\ grants[d].state = "live"
                                    THEN [grants[d] EXCEPT !.state = "retired"] ELSE grants[d]]
  <2>1. \A d \in Call : /\ grants'[d] \in Grant \cup {NoGrant}
                        /\ grants'[d].life = grants[d].life
                        /\ grants[d] = NoGrant => grants'[d] = NoGrant
                        /\ ~(grants[d] # NoGrant /\ grants[d].state = "live" /\ grants'[d].state = "consumed")
    BY <1>0, <1>3, GrantTurned
  <2>2. grants' \in [Call -> Grant \cup {NoGrant}] BY <1>3, <2>1
  <2> QED BY <1>0, <1>1, <2>1, <2>2, GrantsMove
<1> QED BY <1>2, <1>3 DEF Retrieve, MatchesAuthority

LEMMA RetireGrantsStep ==
  ASSUME DeliveryInv, RetireGrants
  PROVE  DeliveryInv' /\ DeliveryStep
<1>0. /\ reader \in ReaderState /\ resultOk \in BOOLEAN
      /\ grants \in [Call -> Grant \cup {NoGrant}] /\ reader.pc = "retireGrants" /\ ReaderAt("bump")
      /\ UNCHANGED <<life, comp, call, ledger, writes, confirmed, written, receipts, resultOk, history>>
  BY DEF DeliveryInv, Types, RetireGrants
<1>1. reader' \in ReaderState /\ reader'.pc = "bump" BY <1>0 DEF ReaderState, ReaderPc, ReaderAt
<1>2. ReaderInv' BY <1>0, <1>1 DEF DeliveryInv, ReaderInv, history
<1>3. \A d \in Call : /\ grants'[d] \in Grant \cup {NoGrant}
                      /\ grants'[d].life = grants[d].life
                      /\ grants[d] = NoGrant => grants'[d] = NoGrant
                      /\ ~(grants[d] # NoGrant /\ grants[d].state = "live" /\ grants'[d].state = "consumed")
  <2>1. CASE UNCHANGED grants BY <1>0, <2>1
  <2>2. CASE grants' = [c \in Call |->
             IF grants[c] # NoGrant /\ grants[c].state = "live"
                /\ MatchesAuthority(grants[c])
             THEN [grants[c] EXCEPT !.state = "retired"] ELSE grants[c]]
    BY <1>0, <2>2, GrantTurned
  <2> QED BY <2>1, <2>2 DEF RetireGrants
<1>4. grants' \in [Call -> Grant \cup {NoGrant}]
  BY <1>0, <1>3 DEF RetireGrants
<1> QED BY <1>0, <1>1, <1>2, <1>3, <1>4, GrantsMove

LEMMA LoseResultStep ==
  ASSUME DeliveryInv, LoseResult
  PROVE  DeliveryInv' /\ DeliveryStep
<1>1. reader \in ReaderState /\ grants \in [Call -> Grant \cup {NoGrant}] BY DEF DeliveryInv, Types
<1>2. ReaderInv' BY DEF DeliveryInv, ReaderInv, LoseResult, history
<1>3. \A d \in Call : grants[d].state = "live" => grants'[d].state # "consumed" BY DEF LoseResult
<1> QED BY <1>1, <1>2, <1>3, GrantsMove DEF LoseResult

LEMMA ClearLedgerStep ==
  ASSUME DeliveryInv, ClearLedger
  PROVE  DeliveryInv' /\ DeliveryStep
<1>0. /\ reader \in ReaderState /\ comp \in 0..MaxComp /\ writes \subseteq Call
      /\ receipts \subseteq Call /\ resultOk \in BOOLEAN /\ confirmed' = {}
      /\ grants \in [Call -> Grant \cup {NoGrant}] /\ ReaderAt("clearWrites")
      /\ UNCHANGED <<life, comp, call, ledger, writes, written, store, history>>
  BY DEF DeliveryInv, Types, ClearLedger
<1>1. reader' \in ReaderState /\ reader'.pc = "clearWrites" BY <1>0 DEF ReaderState, ReaderPc, ReaderAt
<1>2. ReaderInv' BY <1>0, <1>1 DEF ReaderInv
<1>3. \A d \in Call : GrantInv(d, grants[d])' BY <1>0 DEF DeliveryInv, GrantInv, store, history
<1>4. DeliveryInv' BY <1>0, <1>1, <1>2, <1>3, ReaderMoves DEF store
<1>5. DeliveryStep
  BY <1>0 DEF DeliveryStep, ReceiptIsCurrent, BriefWasDelivered, NoStaleRetrieval, store
<1> QED BY <1>4, <1>5

\* The lifecycle moves past everything that was issued in it
LEMMA BumpLifeStep ==
  ASSUME DeliveryInv, BumpLife
  PROVE  DeliveryInv' /\ DeliveryStep
<1>0. /\ reader \in ReaderState /\ life \in 1..MaxLife /\ life < MaxLife
      /\ life' = life + 1 /\ fresh' = {} /\ ReaderAt("clearLedger")
      /\ UNCHANGED <<comp, call, ledger, writes, confirmed, written, store, confirms>>
  BY DEF DeliveryInv, Types, BumpLife, ReaderInv
<1>1. reader' \in ReaderState /\ reader'.pc = "clearLedger" BY <1>0 DEF ReaderState, ReaderPc, ReaderAt
<1>2. life' \in 1..MaxLife BY <1>0, DeliveryAssumed DEF DeliveryAssumption
<1>3. Types' BY <1>0, <1>1, <1>2 DEF DeliveryInv, Types, ledger, store
<1>4. LockInv' BY <1>0 DEF DeliveryInv, LockInv, Outstanding, ledger
<1>5. ReaderInv' BY <1>1 DEF ReaderInv
<1>6. \A d \in Call : ChallengeInv(d, call[d], pending[d], confirms[d])'
  <2> SUFFICES ASSUME NEW d \in Call PROVE ChallengeInv(d, call[d], pending[d], confirms[d])' OBVIOUS
  <2>1. ChallengeInv(d, call[d], pending[d], confirms[d]) /\ pending[d] \in Challenge \cup {NoChallenge}
    BY DEF DeliveryInv, Types
  <2>2. pending[d] # NoChallenge => pending[d].life \in 1..MaxLife BY <2>1 DEF Challenge
  <2>3. pending[d] # NoChallenge => pending[d].life <= life' /\ pending[d].life # life'
    BY <1>0, <2>1, <2>2 DEF ChallengeInv
  <2> QED BY <1>0, <2>1, <2>3 DEF ChallengeInv, ledger
<1>7. \A d \in Call : GrantInv(d, grants[d])'
  <2> SUFFICES ASSUME NEW d \in Call PROVE GrantInv(d, grants[d])' OBVIOUS
  <2>1. GrantInv(d, grants[d]) /\ grants[d] \in Grant \cup {NoGrant} BY DEF DeliveryInv, Types
  <2>2. grants[d] # NoGrant => grants[d].life \in 1..MaxLife BY <2>1 DEF Grant
  <2>3. grants[d] # NoGrant => grants[d].life <= life' /\ grants[d].life # life'
    BY <1>0, <2>1, <2>2 DEF GrantInv
  <2> QED BY <1>0, <2>3 DEF GrantInv, store
<1>8. DeliveryStep
  BY <1>0 DEF DeliveryStep, ReceiptIsCurrent, BriefWasDelivered, NoStaleRetrieval, store
<1> QED BY <1>3, <1>4, <1>5, <1>6, <1>7, <1>8 DEF DeliveryInv

-----------------------------------------------------------------------------
LEMMA NextInv == DeliveryInv /\ [Next]_vars => DeliveryInv' /\ [DeliveryStep]_vars
<1> SUFFICES ASSUME DeliveryInv, Next PROVE DeliveryInv' /\ DeliveryStep
  <2>1. CASE UNCHANGED vars
    BY <2>1 DEF vars, DeliveryInv, Types, LockInv, Outstanding, ReaderInv, ChallengeInv, GrantInv
  <2> QED BY <2>1
<1>1. CASE \E c \in Call : WorkerNext(c) \/ WriterNext(c)
  BY <1>1, PrepareSteps, IssueBeginStep, IssueEndStep, WriterSteps DEF WorkerNext, WriterNext
<1>2. CASE ReaderNext
  BY <1>2, ReceiveAckStep, AcknowledgeStep, ConfirmDeliveryStep, ConfirmReasoningStep,
     RetrieveStep, InvalidateStep, RetirePendingStep, RetireGrantsStep, BumpLifeStep,
     ClearLedgerStep, ClearWritesStep, StoreCompactionStep
  DEF ReaderNext, Invalidation
<1>3. CASE LoseResult BY <1>3, LoseResultStep
<1> QED BY <1>1, <1>2, <1>3 DEF Next

LEMMA InvIsSound == DeliveryInv => DeliveryTypeOK /\ ConfirmedOnce /\ LedgerIsCurrent
<1> SUFFICES ASSUME DeliveryInv PROVE DeliveryTypeOK /\ ConfirmedOnce /\ LedgerIsCurrent OBVIOUS
<1>1. DeliveryTypeOK BY DEF DeliveryInv, Types, LockInv, DeliveryTypeOK, CallState, ReaderState
<1>2. ConfirmedOnce BY DEF DeliveryInv, Types, ConfirmedOnce
<1>3. LedgerIsCurrent BY DEF DeliveryInv, ReaderInv, LedgerIsCurrent
<1> QED BY <1>1, <1>2, <1>3

\* In every behaviour of the connection a challenge is accepted at most once,
\* the ledger that allows compact references holds no acknowledgement of an
\* earlier lifecycle, and a receipt, a confirmed brief or a retrieval is only
\* ever of a challenge issued since the last invalidation, for any number of
\* calls and any room of the two challenge tables.
THEOREM DeliveryCurrent == Spec => DeliveryIsCurrent
<1>1. Spec => []DeliveryInv /\ [][DeliveryStep]_vars BY InitInv, NextInv, PTL DEF Spec
<1> QED BY <1>1, InvIsSound, PTL DEF DeliveryIsCurrent

-----------------------------------------------------------------------------
(* The context of a task: ContextIsKept.                                   *)

EventRows == [seq : 1..MaxSeq, env : Envelopes]
ReadRow == [step : {"idle", "resolved", "observed", "verified", "fact", "observation"},
            value : 0..MaxValue, life : 0..MaxGeneration]

ContextTypes ==
    /\ file \in [value : Values, writes : 0..MaxWrites]
    /\ kept \in 0..MaxSeq /\ active \subseteq Recipients
    /\ generation \in [Recipients -> 1..MaxGeneration]
    /\ ack \in [Recipients -> (0..MaxSeq) \cup {None}]
    /\ seen \in [Recipients -> SUBSET (1..MaxSeq)]
    /\ read \in [Recipients -> ReadRow]
    /\ \A r \in Recipients : read[r].step # "idle" => read[r].value \in Values
    /\ resp \in [Recipients -> Responses \cup {None}]

\* The events are numbered below the sequence and within the quota
EventsInv(E, n) ==
    /\ n \in 1..(MaxSeq + 1)
    /\ E \subseteq EventRows /\ IsFiniteSet(E)
    /\ Cardinality(E) <= MaxEvents /\ Cardinality(E) < n
    /\ \A e \in E : e.seq < n

\* A row names its events, and what is current came after every change
RowsInv(T, E) ==
    /\ T \in [Values -> Rows \cup {None}]
    /\ \A v \in Values : T[v] # None =>
         /\ \E e \in E : e.seq = T[v].adm
         /\ T[v].ret = 0 \/ \E e \in E : e.seq = T[v].ret
         /\ T[v].ret = 0 =>
              \A e \in E : e.env.kind = "invalidation" /\ e.env.value # v => e.seq < T[v].adm

\* Of a short task, S holds every event up to the cursor
Covers(S, cursor, E) ==
    MaxSeq <= DeltaLimit => \A e \in E : e.seq <= cursor => e.seq \in S

\* What a connection has acknowledged, and what the response on its way will add
Reception(a, p, S, g, E, n) ==
    /\ a # None => a < n /\ Covers(S, a, E)
    /\ p # None => p.life <= g
    /\ p # None /\ p.life = g => p.through < n /\ Covers(S \cup p.shown, p.through, E)

ContextInv ==
    /\ ContextTypes /\ EventsInv(events, next)
    /\ RowsInv(fact, events) /\ RowsInv(ref, events)
    /\ \A r \in Recipients : Reception(ack[r], resp[r], seen[r], generation[r], events, next)

-----------------------------------------------------------------------------
\* What the assumption says of each constant
LEMMA ContextConstants ==
  ASSUME ContextLedgerAssumption
  PROVE  /\ MaxValue \in Nat /\ MaxValue # 0 /\ DeltaLimit \in Nat /\ MaxEvents \in Nat
         /\ MaxEvents # 0 /\ MaxGeneration \in Nat /\ MaxGeneration # 0 /\ MaxSeq \in Nat /\ MaxWrites \in Nat
         /\ None \notin Nat /\ None \notin Rows /\ None \notin Responses
         /\ Listeners \subseteq Recipients
BY DEF ContextLedgerAssumption

\* A bounded set of numbers has a maximum
LEMMA MaxOf ==
  ASSUME NEW n \in Nat, NEW S \in SUBSET (0..n), S # {}
  PROVE  Max(S) \in S /\ \A y \in S : y <= Max(S)
<1> DEFINE T == {n - x : x \in S}
           R == OpToRel(<, Nat)
<1>1. T \subseteq Nat /\ T # {}
  <2>1. \A x \in S : x \in Nat /\ x <= n OBVIOUS
  <2>2. \A x \in S : n - x \in Nat BY <2>1
  <2> QED BY <2>2
<1>2. IsWellFoundedOn(R, Nat) BY NatLessThanWellFounded, Zenon
<1> HIDE DEF R
<1>3. PICK z \in T : \A y \in T : ~(<<y, z>> \in R) BY <1>1, <1>2, WFMin
<1>4. \A y \in T : ~(y < z) BY <1>1, <1>3 DEF R, OpToRel
<1>5. PICK x \in S : z = n - x OBVIOUS
<1>6. \A y \in S : x >= y
  <2> TAKE y \in S
  <2>1. ~(n - y < n - x) BY <1>4, <1>5
  <2> QED BY <2>1
<1>7. Max(S) \in S /\ \A y \in S : Max(S) >= y BY <1>6 DEF Max
<1> QED BY <1>7

-----------------------------------------------------------------------------
(* The tables.                                                             *)

\* Collection keeps what rows and receipts name
LEMMA RoomKeeps ==
  ASSUME ContextLedgerAssumption, ContextInv
  PROVE  /\ Room.events \subseteq events /\ IsFiniteSet(Room.events)
         /\ EventsInv(Room.events, next)
         /\ RowsInv(Room.fact, Room.events) /\ RowsInv(Room.ref, Room.events)
         /\ \A e \in events : e.seq <= kept => e \in Room.events
<1> USE ContextConstants
<1>1. Cardinality(events) \in Nat /\ IsFiniteSet(events) BY FS_CardinalityType DEF ContextInv, EventsInv
<1>2. CASE Cardinality(events) < MaxEvents
  BY <1>1, <1>2 DEF Room, ContextInv
<1>3. CASE ~(Cardinality(events) < MaxEvents)
  <2> DEFINE E == events \ Oldest(Removable, Cardinality(events) + 1 - MaxEvents)
  <2>1. Room.events = E /\ Room.fact = Unretired(fact) /\ Room.ref = Unretired(ref)
    BY <1>3 DEF Room
  <2>2. \A e \in events : e \in E \/ e \in Removable BY DEF Oldest
  <2>3. E \subseteq events OBVIOUS
  <2> HIDE DEF E
  <2>4. IsFiniteSet(E) /\ Cardinality(E) <= Cardinality(events) BY <1>1, <2>3, FS_Subset
  <2>5. Cardinality(E) \in Nat BY <2>4, FS_CardinalityType
  <2>6. EventsInv(E, next) BY <1>1, <2>3, <2>4, <2>5 DEF ContextInv, EventsInv
  <2>7. \A e \in events : e.seq <= kept => e \in E
    BY <2>2 DEF Removable, ContextInv, ContextTypes, EventsInv, EventRows
  <2>8. ASSUME NEW T, RowsInv(T, events), \A e \in Removable : ~Holds(Unretired(T), e.seq)
        PROVE  RowsInv(Unretired(T), E)
    <3> DEFINE U == Unretired(T)
    <3>1. \A v \in Values : U[v] = IF Current(T[v]) THEN T[v] ELSE None BY DEF Unretired
    <3>2. U \in [Values -> Rows \cup {None}] BY <2>8 DEF RowsInv, Unretired
    <3>3. ASSUME NEW v \in Values, U[v] # None
          PROVE  /\ T[v] # None /\ U[v] = T[v] /\ T[v].ret = 0
                 /\ \E e \in E : e.seq = T[v].adm
      <4>1. T[v] # None /\ U[v] = T[v] /\ T[v].ret = 0 BY <3>1, <3>3 DEF Current
      <4>2. PICK e \in events : e.seq = T[v].adm BY <2>8, <4>1 DEF RowsInv
      <4>3. Holds(U, e.seq) BY <3>3, <4>1, <4>2 DEF Holds
      <4>4. e \in E BY <2>2, <2>8, <4>3
      <4> QED BY <4>1, <4>2, <4>4
    <3> HIDE DEF U
    <3>4. RowsInv(U, E) BY <2>3, <2>8, <3>2, <3>3 DEF RowsInv
    <3> QED BY <3>4 DEF U
  <2>9. RowsInv(Unretired(fact), E) BY <2>8 DEF ContextInv, Removable
  <2>10. RowsInv(Unretired(ref), E) BY <2>8 DEF ContextInv, Removable
  <2> QED BY <2>1, <2>3, <2>4, <2>6, <2>7, <2>9, <2>10
<1> QED BY <1>2, <1>3

\* A new event is numbered by the sequence
LEMMA EventAppended ==
  ASSUME ContextLedgerAssumption, ContextInv, NEW env \in Envelopes, Insert(env)
  PROVE  /\ EventsInv(events', next') /\ next' = next + 1 /\ next \in 1..MaxSeq
         /\ events' = Room.events \cup {[seq |-> next, env |-> env]}
         /\ [seq |-> next, env |-> env] \in EventRows
<1> USE ContextConstants
<1> DEFINE m == [seq |-> next, env |-> env]
           E == Room.events
<1>1. /\ Cardinality(E) < MaxEvents /\ next <= MaxSeq /\ next' = next + 1
      /\ events' = E \cup {m}
  BY DEF Insert, HasRoom
<1>2. next \in 1..MaxSeq BY <1>1 DEF ContextInv, EventsInv
<1>3. m \in EventRows /\ m.seq = next BY <1>2 DEF EventRows
<1>4. EventsInv(E, next) BY RoomKeeps
<1> HIDE DEF m, E
<1>5. IsFiniteSet(E) /\ Cardinality(E) \in Nat BY <1>4, FS_CardinalityType DEF EventsInv
<1>6. /\ IsFiniteSet(E \cup {m}) /\ Cardinality(E \cup {m}) <= Cardinality(E) + 1
      /\ Cardinality(E \cup {m}) \in Nat
  <2>1. /\ IsFiniteSet(E \cup {m})
        /\ Cardinality(E \cup {m}) = IF m \in E THEN Cardinality(E) ELSE Cardinality(E) + 1
    BY <1>5, FS_AddElement
  <2> QED BY <1>5, <2>1
<1>7. Cardinality(events') <= MaxEvents /\ Cardinality(events') < next'
  BY <1>1, <1>2, <1>4, <1>5, <1>6 DEF EventsInv
<1>8. \A e \in events' : e.seq < next'
  <2> TAKE e \in events'
  <2>1. CASE e = m BY <1>1, <1>2, <1>3, <2>1
  <2>2. CASE e \in E
    <3>1. e.seq < next /\ e.seq \in Nat BY <1>4, <2>2 DEF EventsInv, EventRows
    <3> QED BY <1>1, <1>2, <3>1
  <2> QED BY <1>1, <2>1, <2>2
<1>9. EventsInv(events', next') BY <1>1, <1>2, <1>3, <1>4, <1>6, <1>7, <1>8 DEF EventsInv
<1> QED BY <1>1, <1>2, <1>3, <1>9 DEF m, E

\* Rows after an event that is no change: as they were, superseded, or a new one
LEMMA RowsAppended ==
  ASSUME ContextLedgerAssumption, NEW E \in SUBSET EventRows, NEW n \in 1..MaxSeq, NEW T, RowsInv(T, E),
         NEW m \in EventRows, m.seq = n, \A e \in E : e.seq < n, NEW v \in Values
  PROVE  /\ m.env.kind # "invalidation" => RowsInv(T, E \cup {m})
         /\ m.env.kind # "invalidation" => RowsInv(Supersede(T, v, n), E \cup {m})
         /\ m.env.value = v => RowsInv(RetireOthers(T, v, n), E \cup {m})
<1> USE ContextConstants
<1>1. ASSUME NEW W \in SUBSET Values, NEW U,
             U = [w \in Values |-> IF Current(T[w]) /\ w \in W THEN [T[w] EXCEPT !.ret = n] ELSE T[w]],
             m.env.kind # "invalidation" \/ \A w \in Values \ W : w = m.env.value
      PROVE  RowsInv(U, E \cup {m})
  <2>1. ASSUME NEW w \in Values
        PROVE  /\ U[w] \in Rows \cup {None}
               /\ U[w] # None =>
                    /\ \E e \in E \cup {m} : e.seq = U[w].adm
                    /\ U[w].ret = 0 \/ \E e \in E \cup {m} : e.seq = U[w].ret
                    /\ U[w].ret = 0 =>
                         \A e \in E \cup {m} : e.env.kind = "invalidation" /\ e.env.value # w => e.seq < U[w].adm
    <3>1. CASE Current(T[w]) /\ w \in W
      <4> DEFINE x == [T[w] EXCEPT !.ret = n]
      <4>1. T[w] \in Rows /\ T[w] # None BY <3>1 DEF RowsInv, Current
      <4>2. x \in Rows /\ x.adm = T[w].adm /\ x.ret = n BY <4>1 DEF Rows
      <4>3. U[w] = x BY <1>1, <3>1
      <4> HIDE DEF x
      <4>4. \E e \in E \cup {m} : e.seq = x.adm BY <4>1, <4>2 DEF RowsInv
      <4>5. \E e \in E \cup {m} : e.seq = x.ret BY <4>2
      <4>6. x.ret # 0 BY <4>2
      <4> QED BY <4>2, <4>3, <4>4, <4>5, <4>6
    <3>2. CASE ~(Current(T[w]) /\ w \in W)
      <4>1. U[w] = T[w] /\ T[w] \in Rows \cup {None} BY <1>1, <3>2 DEF RowsInv
      <4>2. CASE T[w] # None
        <5>1. \E e \in E \cup {m} : e.seq = T[w].adm BY <4>2 DEF RowsInv
        <5>2. T[w].ret = 0 \/ \E e \in E \cup {m} : e.seq = T[w].ret BY <4>2 DEF RowsInv
        <5>3. ASSUME T[w].ret = 0, NEW e \in E \cup {m}, e.env.kind = "invalidation", e.env.value # w
              PROVE  e.seq < T[w].adm
          <6>1. w \notin W BY <3>2, <4>2, <5>3 DEF Current
          <6>2. e # m BY <1>1, <5>3, <6>1
          <6> QED BY <4>2, <5>3, <6>2 DEF RowsInv
        <5> QED BY <4>1, <5>1, <5>2, <5>3
      <4> QED BY <4>1, <4>2
    <3> QED BY <3>1, <3>2
  <2>2. U \in [Values -> Rows \cup {None}] BY <1>1, <2>1
  <2> QED BY <2>1, <2>2 DEF RowsInv
<1>2. m.env.kind # "invalidation" => RowsInv(T, E \cup {m})
  <2>1. T = [w \in Values |-> IF Current(T[w]) /\ w \in {} THEN [T[w] EXCEPT !.ret = n] ELSE T[w]]
    BY DEF RowsInv
  <2>2. {} \in SUBSET Values OBVIOUS
  <2> QED BY <1>1, <2>1, <2>2
<1>3. m.env.kind # "invalidation" => RowsInv(Supersede(T, v, n), E \cup {m})
  <2> DEFINE W == {w \in Values : w < v}
  <2>1. Supersede(T, v, n) = [w \in Values |-> IF Current(T[w]) /\ w \in W THEN [T[w] EXCEPT !.ret = n] ELSE T[w]]
    BY DEF Supersede
  <2>2. W \in SUBSET Values OBVIOUS
  <2> HIDE DEF W
  <2> QED BY <1>1, <2>1, <2>2
<1>4. m.env.value = v => RowsInv(RetireOthers(T, v, n), E \cup {m})
  <2> DEFINE W == Values \ {v}
  <2>1. RetireOthers(T, v, n) = [w \in Values |-> IF Current(T[w]) /\ w \in W THEN [T[w] EXCEPT !.ret = n] ELSE T[w]]
    BY DEF RetireOthers
  <2>2. W \in SUBSET Values /\ \A w \in Values \ W : w = v OBVIOUS
  <2> HIDE DEF W
  <2> QED BY <1>1, <2>1, <2>2
<1> QED BY <1>2, <1>3, <1>4

\* A row of the newest event is current after every change
LEMMA RowAdded ==
  ASSUME ContextLedgerAssumption, NEW E \in SUBSET EventRows, NEW T, RowsInv(T, E), NEW v \in Values,
         next \in 1..MaxSeq, \E e \in E : e.seq = next,
         \A e \in E : e.env.kind = "invalidation" => e.seq < next
  PROVE  RowsInv(NewRow(T, v), E)
<1> DEFINE x == [adm |-> next, ret |-> 0]
<1>1. x \in Rows /\ x.adm = next /\ x.ret = 0 BY ContextConstants DEF Rows
<1>2. NewRow(T, v) = [T EXCEPT ![v] = x] BY DEF NewRow
<1> HIDE DEF x
<1>3. NewRow(T, v) \in [Values -> Rows \cup {None}] BY <1>1, <1>2 DEF RowsInv
<1>4. \A w \in Values : NewRow(T, v)[w] = IF w = v THEN x ELSE T[w] BY <1>2 DEF RowsInv
<1> QED BY <1>1, <1>3, <1>4 DEF RowsInv

\* A later event, or a collection, leaves what was delivered complete
LEMMA ReceptionLater ==
  ASSUME ContextLedgerAssumption, NEW a \in (0..MaxSeq) \cup {None}, NEW p \in Responses \cup {None}, NEW S, NEW g,
         NEW E, NEW n \in 1..MaxSeq, NEW F, NEW m, m.seq = n, F \subseteq E \cup {m},
         Reception(a, p, S, g, E, n)
  PROVE  Reception(a, p, S, g, F, n + 1)
<1>1. a # None => a < n + 1 /\ Covers(S, a, F)
  <2> SUFFICES ASSUME a # None PROVE a < n + 1 /\ Covers(S, a, F) OBVIOUS
  <2>1. a \in 0..MaxSeq /\ a < n /\ Covers(S, a, E) BY DEF Reception
  <2>2. ~(m.seq <= a) BY <2>1, ContextConstants
  <2> QED BY <2>1, <2>2, ContextConstants DEF Covers
<1>2. p # None /\ p.life = g => p.through < n + 1 /\ Covers(S \cup p.shown, p.through, F)
  <2> SUFFICES ASSUME p # None, p.life = g PROVE p.through < n + 1 /\ Covers(S \cup p.shown, p.through, F) OBVIOUS
  <2>1. p.through \in 0..MaxSeq /\ p.through < n /\ Covers(S \cup p.shown, p.through, E)
    BY DEF Reception, Responses
  <2>2. ~(m.seq <= p.through) BY <2>1, ContextConstants
  <2> QED BY <2>1, <2>2, ContextConstants DEF Covers
<1> QED BY <1>1, <1>2 DEF Reception

\* A step that records an event
LEMMA Recorded ==
  ASSUME ContextLedgerAssumption, ContextInv, NEW env \in Envelopes, Insert(env),
         RowsInv(fact', events'), RowsInv(ref', events'), read' \in [Recipients -> ReadRow],
         \A r \in Recipients : read'[r].step # "idle" => read'[r].value \in Values,
         UNCHANGED <<file, kept, generation, active, ack, seen, resp>>
  PROVE  ContextInv' /\ ReceiptStep
<1> DEFINE m == [seq |-> next, env |-> env]
<1>1. /\ EventsInv(events', next') /\ next' = next + 1 /\ next \in 1..MaxSeq
      /\ events' = Room.events \cup {m}
  BY EventAppended
<1>2. m.seq = next OBVIOUS
<1> HIDE DEF m
<1>3. events' \subseteq events \cup {m} BY <1>1, RoomKeeps
<1>4. \A r \in Recipients : Reception(ack[r], resp[r], seen[r], generation[r], events', next')
  <2> TAKE r \in Recipients
  <2>1. /\ ack[r] \in (0..MaxSeq) \cup {None} /\ resp[r] \in Responses \cup {None}
        /\ Reception(ack[r], resp[r], seen[r], generation[r], events, next)
    BY DEF ContextInv, ContextTypes
  <2> QED BY <1>1, <1>2, <1>3, <2>1, ReceptionLater
<1>5. ContextTypes' BY DEF ContextInv, ContextTypes
<1>6. ReceiptStep BY <1>1, RoomKeeps DEF ReceiptStep
<1> QED BY <1>1, <1>4, <1>5, <1>6 DEF ContextInv

\* A step that leaves the tables alone
LEMMA Unrecorded ==
  ASSUME ContextInv, UNCHANGED tables, ContextTypes',
         \A r \in Recipients : Reception(ack'[r], resp'[r], seen'[r], generation'[r], events, next)
  PROVE  ContextInv' /\ ReceiptStep
BY DEF ContextInv, tables, ReceiptStep

\* One connection's read becomes k
LEMMA ReadMoves ==
  ASSUME ContextInv, NEW r \in Recipients, NEW k \in ReadRow, k.step # "idle" => k.value \in Values,
         read' = [read EXCEPT ![r] = k]
  PROVE  /\ read' \in [Recipients -> ReadRow]
         /\ \A d \in Recipients : read'[d].step # "idle" => read'[d].value \in Values
<1>1. \A d \in Recipients : read'[d] = IF d = r THEN k ELSE read[d] BY DEF ContextInv, ContextTypes
<1>2. read' \in [Recipients -> ReadRow] BY DEF ContextInv, ContextTypes
<1> QED BY <1>1, <1>2 DEF ContextInv, ContextTypes

\* A read goes on to another step, or ends
LEMMA ReadGoes ==
  ASSUME ContextLedgerAssumption, ContextInv, NEW r \in Recipients,
         NEW s \in {"resolved", "observed", "verified", "fact", "observation"},
         (read[r].step # "idle" /\ GoTo(r, s)) \/ EndCall(r)
  PROVE  /\ read' \in [Recipients -> ReadRow]
         /\ \A d \in Recipients : read'[d].step # "idle" => read'[d].value \in Values
<1>0. read \in [Recipients -> ReadRow] /\ read[r] \in ReadRow
      /\ (read[r].step # "idle" => read[r].value \in Values)
  BY DEF ContextInv, ContextTypes
<1>1. CASE read[r].step # "idle" /\ GoTo(r, s)
  <2> DEFINE k == [read[r] EXCEPT !.step = s]
  <2>1. read' = [read EXCEPT ![r] = k] BY <1>0, <1>1 DEF GoTo
  <2>2. k \in ReadRow /\ k.value \in Values BY <1>0, <1>1 DEF ReadRow
  <2> HIDE DEF k
  <2> QED BY <2>1, <2>2, ReadMoves
<1>2. CASE EndCall(r)
  <2>1. NoRead \in ReadRow /\ NoRead.step = "idle" BY ContextConstants DEF NoRead, ReadRow
  <2> QED BY <1>2, <2>1, ReadMoves DEF EndCall
<1> QED BY <1>1, <1>2

-----------------------------------------------------------------------------
(* The steps of a read.                                                    *)

\* A step that only moves the file, a read or the active connections
LEMMA QuietReads ==
  ASSUME ContextLedgerAssumption, ContextInv, UNCHANGED tables, UNCHANGED <<kept, generation, ack, seen, resp>>,
         file' \in [value : Values, writes : 0..MaxWrites], active' \subseteq Recipients,
         read' \in [Recipients -> ReadRow],
         \A d \in Recipients : read'[d].step # "idle" => read'[d].value \in Values
  PROVE  ContextInv' /\ ReceiptStep
<1>1. ContextTypes' BY DEF ContextInv, ContextTypes
<1>2. \A r \in Recipients : Reception(ack'[r], resp'[r], seen'[r], generation'[r], events, next) BY DEF ContextInv
<1> QED BY <1>1, <1>2, Unrecorded

\* Write, Resolve, Verify, Abandon and Activate record nothing
LEMMA ReadSteps ==
  ASSUME ContextLedgerAssumption, ContextInv,
         \/ \E v \in Values : Write(v)
         \/ \E r \in Recipients : Resolve(r) \/ Verify(r) \/ Abandon(r) \/ Activate(r)
  PROVE  ContextInv' /\ ReceiptStep
<1>0. /\ file \in [value : Values, writes : 0..MaxWrites] /\ active \subseteq Recipients
      /\ read \in [Recipients -> ReadRow] /\ generation \in [Recipients -> 1..MaxGeneration]
      /\ \A d \in Recipients : read[d].step # "idle" => read[d].value \in Values
  BY DEF ContextInv, ContextTypes
<1>1. ASSUME NEW v \in Values, Write(v) PROVE ContextInv' /\ ReceiptStep
  <2>1. file' \in [value : Values, writes : 0..MaxWrites] BY <1>0, <1>1, ContextConstants DEF Write
  <2> QED BY <1>0, <1>1, <2>1, QuietReads DEF Write
<1>2. ASSUME NEW r \in Recipients, Resolve(r) PROVE ContextInv' /\ ReceiptStep
  <2> DEFINE k == [step |-> "resolved", value |-> file.value, life |-> generation[r]]
  <2>1. k \in ReadRow /\ k.value \in Values BY <1>0, ContextConstants DEF ReadRow, Values
  <2>2. read' = [read EXCEPT ![r] = k] BY <1>2 DEF Resolve
  <2> HIDE DEF k
  <2>3. /\ read' \in [Recipients -> ReadRow]
        /\ \A d \in Recipients : read'[d].step # "idle" => read'[d].value \in Values
    BY <2>1, <2>2, ReadMoves
  <2> QED BY <1>0, <1>2, <2>3, QuietReads DEF Resolve
<1>3. ASSUME NEW r \in Recipients, Verify(r) \/ Abandon(r) PROVE ContextInv' /\ ReceiptStep
  <2>1. (read[r].step # "idle" /\ GoTo(r, "verified")) \/ EndCall(r) BY <1>3 DEF Verify, Abandon
  <2>2. /\ read' \in [Recipients -> ReadRow]
        /\ \A d \in Recipients : read'[d].step # "idle" => read'[d].value \in Values
    BY <2>1, ReadGoes
  <2> QED BY <1>0, <1>3, <2>2, QuietReads DEF Verify, Abandon
<1>4. ASSUME NEW r \in Recipients, Activate(r) PROVE ContextInv' /\ ReceiptStep
  <2>1. active' \subseteq Recipients BY <1>0, <1>4 DEF Activate
  <2> QED BY <1>0, <1>4, <2>1, QuietReads DEF Activate
<1> QED BY <1>1, <1>2, <1>3, <1>4

\* What an operation finds in the tables once it has made room
LEMMA Appending ==
  ASSUME ContextLedgerAssumption, ContextInv, NEW env \in Envelopes, Insert(env)
  PROVE  \E m \in EventRows, E \in SUBSET EventRows :
           /\ E = Room.events /\ m.seq = next /\ m.env = env /\ events' = E \cup {m}
           /\ next \in 1..MaxSeq /\ \A e \in E : e.seq < next
           /\ RowsInv(Room.fact, E) /\ RowsInv(Room.ref, E)
<1> DEFINE m == [seq |-> next, env |-> env]
<1>1. /\ m \in EventRows /\ m.seq = next /\ m.env = env /\ events' = Room.events \cup {m}
      /\ next \in 1..MaxSeq
  BY EventAppended
<1> HIDE DEF m
<1>2. /\ Room.events \in SUBSET EventRows /\ \A e \in Room.events : e.seq < next
      /\ RowsInv(Room.fact, Room.events) /\ RowsInv(Room.ref, Room.events)
  BY RoomKeeps DEF EventsInv
<1> QED BY <1>1, <1>2

\* An observation retires what was derived from another value
LEMMA ObserveStep ==
  ASSUME ContextLedgerAssumption, ContextInv, NEW r \in Recipients, Observe(r)
  PROVE  ContextInv' /\ ReceiptStep
<1>0. /\ file \in [value : Values, writes : 0..MaxWrites] /\ active \subseteq Recipients
      /\ read[r] \in ReadRow /\ read[r].value \in Values /\ generation[r] \in 1..MaxGeneration
      /\ UNCHANGED <<file, kept, generation, active, ack, seen, resp>>
  BY DEF ContextInv, ContextTypes, Observe
<1>1. /\ read' \in [Recipients -> ReadRow]
      /\ \A d \in Recipients : read'[d].step # "idle" => read'[d].value \in Values
  <2>1. read[r].step # "idle" /\ GoTo(r, "observed") BY DEF Observe
  <2> QED BY <2>1, ReadGoes
<1>2. CASE UNCHANGED tables BY <1>0, <1>1, <1>2, QuietReads
<1>3. CASE ~UNCHANGED tables
  <2> DEFINE v == read[r].value
             env == Envelope("invalidation", r, read[r])
  <2>1. /\ CurrentRecipient(r, read[r].life) /\ Insert(env)
        /\ fact' = RetireOthers(Room.fact, v, next) /\ ref' = RetireOthers(Room.ref, v, next)
    BY <1>3 DEF Observe, ObserveNothing, InvalidateDependencies
  <2>2. env \in Envelopes /\ env.value = v
    BY <1>0, <2>1, ContextConstants DEF Envelope, Envelopes, Kinds, Values, CurrentRecipient
  <2>3. v \in Values BY <1>0
  <2> HIDE DEF env, v
  <2>4. PICK m \in EventRows, E \in SUBSET EventRows :
           /\ E = Room.events /\ m.seq = next /\ m.env = env /\ events' = E \cup {m}
           /\ next \in 1..MaxSeq /\ \A e \in E : e.seq < next
           /\ RowsInv(Room.fact, E) /\ RowsInv(Room.ref, E)
    BY <2>1, <2>2, Appending
  <2>5. RowsInv(fact', events') /\ RowsInv(ref', events') BY <2>1, <2>2, <2>3, <2>4, RowsAppended
  <2> QED BY <1>0, <1>1, <2>1, <2>2, <2>5, Recorded
<1> QED BY <1>2, <1>3

\* Each of the three admissions adds at most the row of its event
LEMMA AdmitStep ==
  ASSUME ContextLedgerAssumption, ContextInv, NEW r \in Recipients,
         NEW from \in {"verified", "fact", "observation"}, NEW kind \in {"fact", "observation", "reference"},
         NEW to \in {"fact", "observation", "idle"}, Admit(r, from, kind, to)
  PROVE  ContextInv' /\ ReceiptStep
<1>0. /\ file \in [value : Values, writes : 0..MaxWrites] /\ active \subseteq Recipients
      /\ read[r] \in ReadRow /\ read[r].value \in Values /\ generation[r] \in 1..MaxGeneration
      /\ UNCHANGED <<file, kept, generation, active, ack, seen, resp>>
      /\ read[r].step # "idle" /\ CurrentRecipient(r, read[r].life)
  BY DEF ContextInv, ContextTypes, Admit
<1>1. /\ read' \in [Recipients -> ReadRow]
      /\ \A d \in Recipients : read'[d].step # "idle" => read'[d].value \in Values
  <2>1. CASE to = "idle"
    <3>1. EndCall(r) BY <2>1 DEF Admit
    <3>2. "observed" \in {"resolved", "observed", "verified", "fact", "observation"} OBVIOUS
    <3> QED BY <3>1, <3>2, ReadGoes
  <2>2. CASE to # "idle"
    <3>1. GoTo(r, to) BY <2>2 DEF Admit
    <3> QED BY <1>0, <2>2, <3>1, ReadGoes
  <2> QED BY <2>1, <2>2
<1>2. CASE UNCHANGED tables BY <1>0, <1>1, <1>2, QuietReads
<1>3. CASE ~UNCHANGED tables
  <2> DEFINE v == read[r].value
             env == Envelope(kind, r, read[r])
  <2>1. /\ Insert(env)
        /\ kind = "fact" => fact' = NewRow(Supersede(Room.fact, v, next), v) /\ ref' = Room.ref
        /\ kind = "reference" => ref' = NewRow(Room.ref, v) /\ fact' = Room.fact
        /\ kind = "observation" => fact' = Room.fact /\ ref' = Room.ref
    BY <1>3 DEF Admit
  <2>2. env \in Envelopes /\ env.kind # "invalidation"
    BY <1>0, ContextConstants DEF Envelope, Envelopes, Kinds, Values, CurrentRecipient
  <2>3. v \in Values BY <1>0
  <2> HIDE DEF env, v
  <2>4. PICK m \in EventRows, E \in SUBSET EventRows :
           /\ E = Room.events /\ m.seq = next /\ m.env = env /\ events' = E \cup {m}
           /\ next \in 1..MaxSeq /\ \A e \in E : e.seq < next
           /\ RowsInv(Room.fact, E) /\ RowsInv(Room.ref, E)
    BY <2>1, <2>2, Appending
  <2>5. /\ RowsInv(Room.fact, events') /\ RowsInv(Room.ref, events')
        /\ RowsInv(Supersede(Room.fact, v, next), events')
    BY <2>2, <2>3, <2>4, RowsAppended
  <2>6. /\ events' \in SUBSET EventRows /\ \E e \in events' : e.seq = next
        /\ \A e \in events' : e.env.kind = "invalidation" => e.seq < next
    BY <2>2, <2>4
  <2>7. RowsInv(NewRow(Supersede(Room.fact, v, next), v), events') /\ RowsInv(NewRow(Room.ref, v), events')
    BY <2>3, <2>4, <2>5, <2>6, RowAdded
  <2>8. RowsInv(fact', events') /\ RowsInv(ref', events') BY <2>1, <2>5, <2>7
  <2> QED BY <1>0, <1>1, <2>1, <2>2, <2>8, Recorded
<1> QED BY <1>2, <1>3

\* A suggestion is no change and has no row
LEMMA PublishStep ==
  ASSUME ContextLedgerAssumption, ContextInv, NEW r \in Recipients, Publish(r)
  PROVE  ContextInv' /\ ReceiptStep
<1> DEFINE env == Envelope("suggestion", r, [life |-> generation[r], value |-> 0])
<1>0. /\ generation[r] \in 1..MaxGeneration /\ read \in [Recipients -> ReadRow]
      /\ \A d \in Recipients : read[d].step # "idle" => read[d].value \in Values
      /\ Insert(env) /\ fact' = Room.fact /\ ref' = Room.ref
      /\ UNCHANGED <<file, kept, generation, active, ack, seen, read, resp>>
  BY DEF ContextInv, ContextTypes, Publish
<1>1. env \in Envelopes /\ env.kind # "invalidation"
  BY <1>0, ContextConstants DEF Envelope, Envelopes, Kinds
<1> HIDE DEF env
<1>2. PICK m \in EventRows, E \in SUBSET EventRows :
         /\ E = Room.events /\ m.seq = next /\ m.env = env /\ events' = E \cup {m}
         /\ next \in 1..MaxSeq /\ \A e \in E : e.seq < next
         /\ RowsInv(Room.fact, E) /\ RowsInv(Room.ref, E)
  BY <1>0, <1>1, Appending
<1>3. 1 \in Values BY ContextConstants DEF Values
<1>4. RowsInv(fact', events') /\ RowsInv(ref', events') BY <1>0, <1>1, <1>2, <1>3, RowsAppended
<1> QED BY <1>0, <1>1, <1>4, Recorded

-----------------------------------------------------------------------------
(* Responses on their way.                                                 *)

\* A delta names events after its cursor; of a short task, all of them
LEMMA DeltaWhole ==
  ASSUME ContextLedgerAssumption, ContextInv, NEW n \in 0..MaxSeq
  PROVE  /\ After(n, DeltaLimit) \subseteq 1..MaxSeq
         /\ \A s \in After(n, DeltaLimit) : s < next
         /\ MaxSeq <= DeltaLimit => \A e \in events : e.seq > n => e.seq \in After(n, DeltaLimit)
<1> USE ContextConstants
<1>0. /\ events \subseteq EventRows /\ IsFiniteSet(events) /\ \A e \in events : e.seq < next
      /\ Cardinality(events) < next /\ next \in 1..(MaxSeq + 1)
  BY DEF ContextInv, EventsInv
<1>1. \A s \in After(n, DeltaLimit) : \E e \in events : s = e.seq BY DEF After, Oldest
<1>2. ASSUME MaxSeq <= DeltaLimit, NEW e \in events, e.seq > n
      PROVE  e.seq \in After(n, DeltaLimit)
  <2> DEFINE E == {f \in events : f.seq > n}
             B == {f \in E : f.seq < e.seq}
  <2>1. e.seq \in 1..MaxSeq BY <1>0 DEF EventRows
  <2>2. B \subseteq events \ {e} BY <2>1
  <2>3. IsFiniteSet(events \ {e}) /\ Cardinality(events \ {e}) = Cardinality(events) - 1
    BY <1>0, FS_RemoveElement
  <2>4. Cardinality(events) \in Nat BY <1>0, FS_CardinalityType
  <2>5. IsFiniteSet(B) /\ Cardinality(B) <= Cardinality(events \ {e})
    BY <2>2, <2>3, FS_Subset
  <2>6. Cardinality(B) \in Nat BY <2>5, FS_CardinalityType
  <2>7. Cardinality(B) < DeltaLimit
    <3> HIDE DEF B
    <3> QED BY <1>0, <1>2, <2>3, <2>4, <2>5, <2>6
  <2>8. e \in Oldest(E, DeltaLimit) BY <1>2, <2>7 DEF Oldest
  <2> QED BY <2>8 DEF After
<1> QED BY <1>0, <1>1, <1>2 DEF EventRows

\* The latest event is the last one below the sequence
LEMMA LatestEvent ==
  ASSUME ContextLedgerAssumption, ContextInv
  PROVE  /\ Latest \in 0..MaxSeq /\ Latest < next
         /\ \A e \in events : e.seq <= Latest
<1> DEFINE S == Seqs \cup {0}
<1>0. /\ events \subseteq EventRows /\ next \in 1..(MaxSeq + 1) /\ \A e \in events : e.seq < next
  BY DEF ContextInv, EventsInv
<1>1. /\ S \in SUBSET (0..MaxSeq) /\ S # {} /\ \A s \in S : s < next
      /\ \A e \in events : e.seq \in S
  BY <1>0, ContextConstants DEF Seqs, EventRows
<1>2. Latest = Max(S) BY DEF Latest
<1> HIDE DEF S
<1>3. Max(S) \in S /\ \A y \in S : y <= Max(S) BY <1>1, MaxOf, ContextConstants
<1> QED BY <1>1, <1>2, <1>3

\* One connection gets, or no longer has, a response on its way
LEMMA Responding ==
  ASSUME ContextLedgerAssumption, ContextInv, NEW r \in Recipients, NEW p \in Responses \cup {None},
         Reception(ack[r], p, seen[r], generation[r], events, next),
         resp' = [resp EXCEPT ![r] = p], active' \subseteq Recipients,
         UNCHANGED <<file, tables, kept, generation, ack, seen, read>>
  PROVE  ContextInv' /\ ReceiptStep
<1>0. resp \in [Recipients -> Responses \cup {None}] BY DEF ContextInv, ContextTypes
<1>1. \A d \in Recipients : resp'[d] = IF d = r THEN p ELSE resp[d] BY <1>0
<1>2. ContextTypes' BY <1>0 DEF ContextInv, ContextTypes
<1>3. \A d \in Recipients : Reception(ack'[d], resp'[d], seen'[d], generation'[d], events, next)
  BY <1>1 DEF ContextInv
<1> QED BY <1>2, <1>3, Unrecorded

\* The snapshot shows every event up to its cursor
LEMMA StartStep ==
  ASSUME ContextLedgerAssumption, ContextInv, NEW r \in Recipients, Start(r)
  PROVE  ContextInv' /\ ReceiptStep
<1> DEFINE p == [step |-> IF ack[r] = None THEN "sent" ELSE "snapshot", life |-> generation[r],
                 through |-> Latest, shown |-> 1..Latest]
<1>0. /\ active' \subseteq Recipients /\ generation[r] \in 1..MaxGeneration
      /\ Reception(ack[r], resp[r], seen[r], generation[r], events, next)
      /\ events \subseteq EventRows
  BY DEF ContextInv, ContextTypes, EventsInv, Start
<1>1. /\ Latest \in 0..MaxSeq /\ Latest < next /\ \A e \in events : e.seq <= Latest BY LatestEvent
<1>2. /\ p.life = generation[r] /\ p.through = Latest /\ p.shown = 1..Latest
      /\ p.step \in {"snapshot", "sent"}
      /\ p = [step |-> p.step, life |-> p.life, through |-> p.through, shown |-> p.shown]
  OBVIOUS
<1>3. resp' = [resp EXCEPT ![r] = p] /\ UNCHANGED <<file, tables, kept, generation, ack, seen, read>>
  BY DEF Start
<1> HIDE DEF p
<1>4. p.shown \in SUBSET (1..MaxSeq) BY <1>1, <1>2, ContextConstants
<1>5. p \in Responses BY <1>0, <1>1, <1>2, <1>4 DEF Responses
<1>6. Covers(seen[r] \cup p.shown, p.through, events)
  BY <1>0, <1>1, <1>2, ContextConstants DEF Covers, EventRows
<1>7. p.life <= generation[r] BY <1>0, <1>2, ContextConstants
<1>8. Reception(ack[r], p, seen[r], generation[r], events, next)
  BY <1>0, <1>1, <1>2, <1>6, <1>7 DEF Reception
<1> QED BY <1>0, <1>3, <1>5, <1>8, Responding

\* The delta after what was acknowledged completes it to the snapshot
LEMMA PresentStep ==
  ASSUME ContextLedgerAssumption, ContextInv, NEW r \in Recipients, Present(r)
  PROVE  ContextInv' /\ ReceiptStep
<1>0. /\ active' \subseteq Recipients /\ resp \in [Recipients -> Responses \cup {None}]
      /\ resp[r] \in Responses /\ resp[r] # None /\ ack[r] \in (0..MaxSeq) \cup {None}
      /\ Reception(ack[r], resp[r], seen[r], generation[r], events, next)
      /\ UNCHANGED <<file, tables, kept, generation, ack, seen, read>>
      /\ events \subseteq EventRows
  BY DEF ContextInv, ContextTypes, EventsInv, Present
<1>1. CASE ack[r] = None \/ resp[r].life # generation[r]
  <2> DEFINE p == [resp[r] EXCEPT !.step = "sent"]
  <2>1. resp' = [resp EXCEPT ![r] = p] BY <1>0, <1>1 DEF Present
  <2>2. p \in Responses /\ p.life = resp[r].life /\ p.through = resp[r].through /\ p.shown = resp[r].shown
    BY <1>0 DEF Responses
  <2> HIDE DEF p
  <2>3. Reception(ack[r], p, seen[r], generation[r], events, next) BY <1>0, <2>2 DEF Reception
  <2> QED BY <1>0, <2>1, <2>2, <2>3, Responding
<1>2. CASE ~(ack[r] = None \/ resp[r].life # generation[r])
  <2> DEFINE D == After(ack[r], DeltaLimit)
             p == [resp[r] EXCEPT !.step = "sent", !.shown = D]
  <2>1. resp' = [resp EXCEPT ![r] = p] BY <1>0, <1>2 DEF Present
  <2>2. ack[r] \in 0..MaxSeq BY <1>0, <1>2
  <2>3. D \subseteq 1..MaxSeq /\ (MaxSeq <= DeltaLimit => \A e \in events : e.seq > ack[r] => e.seq \in D)
    BY <2>2, DeltaWhole
  <2> HIDE DEF D
  <2>4. p \in Responses /\ p.life = resp[r].life /\ p.through = resp[r].through /\ p.shown = D
    BY <1>0, <2>3 DEF Responses
  <2> HIDE DEF p
  <2>5. Covers(seen[r], ack[r], events) /\ p.life <= generation[r] /\ p.through < next
    BY <1>0, <1>2, <2>4 DEF Reception
  <2>6. \A e \in events : e.seq <= ack[r] \/ e.seq > ack[r] BY <1>0, <2>2, ContextConstants DEF EventRows
  <2>7. Covers(seen[r] \cup p.shown, p.through, events) BY <2>3, <2>4, <2>5, <2>6 DEF Covers
  <2>8. Reception(ack[r], p, seen[r], generation[r], events, next) BY <1>0, <2>5, <2>7 DEF Reception
  <2> QED BY <1>0, <2>1, <2>4, <2>8, Responding
<1> QED BY <1>1, <1>2

\* A delta after an older cursor leaves out only what was seen
LEMMA DeltaStep ==
  ASSUME ContextLedgerAssumption, ContextInv, NEW r \in Recipients, NEW n \in 0..MaxSeq, Delta(r, n)
  PROVE  ContextInv' /\ ReceiptStep
<1> DEFINE D == After(n, DeltaLimit)
           t == Max(D \cup {n})
           p == [step |-> "sent", life |-> generation[r], through |-> t, shown |-> D]
<1>0. /\ active' \subseteq Recipients /\ generation[r] \in 1..MaxGeneration
      /\ ack[r] # None /\ ack[r] \in 0..MaxSeq /\ n <= ack[r] /\ next \in 1..(MaxSeq + 1)
      /\ Reception(ack[r], resp[r], seen[r], generation[r], events, next)
      /\ UNCHANGED <<file, tables, kept, generation, ack, seen, read>>
      /\ events \subseteq EventRows
  BY DEF ContextInv, ContextTypes, EventsInv, Delta
<1>1. /\ D \subseteq 1..MaxSeq /\ \A s \in D : s < next
      /\ MaxSeq <= DeltaLimit => \A e \in events : e.seq > n => e.seq \in D
  BY DeltaWhole
<1>2. resp' = [resp EXCEPT ![r] = p] BY DEF Delta
<1> HIDE DEF D
<1>3. D \cup {n} \in SUBSET (0..MaxSeq) /\ D \cup {n} # {} BY <1>1, ContextConstants
<1>4. t \in D \cup {n} BY <1>3, MaxOf, ContextConstants
<1> HIDE DEF t
<1>5. ack[r] < next /\ Covers(seen[r], ack[r], events) BY <1>0 DEF Reception
<1>6. t < next /\ t \in 0..MaxSeq BY <1>0, <1>1, <1>3, <1>4, <1>5, ContextConstants
<1>7. p \in Responses /\ p.life = generation[r] /\ p.through = t /\ p.shown = D
  BY <1>0, <1>1, <1>6 DEF Responses
<1> HIDE DEF p
<1>8. p.life <= generation[r] BY <1>0, <1>7, ContextConstants
<1>9. \A e \in events : e.seq <= ack[r] \/ e.seq > n BY <1>0, ContextConstants DEF EventRows
<1>10. Covers(seen[r] \cup p.shown, p.through, events) BY <1>1, <1>5, <1>7, <1>9 DEF Covers
<1>11. Reception(ack[r], p, seen[r], generation[r], events, next)
  BY <1>0, <1>6, <1>7, <1>8, <1>10 DEF Reception
<1> QED BY <1>0, <1>2, <1>7, <1>11, Responding

\* A response that is not written adds nothing
LEMMA LoseStep ==
  ASSUME ContextLedgerAssumption, ContextInv, NEW r \in Recipients, Lose(r)
  PROVE  ContextInv' /\ ReceiptStep
<1>1. Reception(ack[r], None, seen[r], generation[r], events, next) /\ active' \subseteq Recipients
  BY DEF ContextInv, ContextTypes, Reception, Lose
<1> QED BY <1>1, Responding DEF Lose

\* The larger of two cursors
LEMMA LaterCursor ==
  ASSUME ContextLedgerAssumption, NEW a \in 0..MaxSeq, NEW b \in 0..MaxSeq
  PROVE  Max({a, b}) \in {a, b} /\ a <= Max({a, b}) /\ b <= Max({a, b})
<1>1. {a, b} \in SUBSET (0..MaxSeq) /\ {a, b} # {} OBVIOUS
<1> HIDE DEF Max
<1> QED BY <1>1, MaxOf, ContextConstants

\* What is acknowledged was shown by this response or before it
LEMMA DeliverStep ==
  ASSUME ContextLedgerAssumption, ContextInv, NEW r \in Recipients, Deliver(r)
  PROVE  ContextInv' /\ ReceiptStep
<1> DEFINE p == resp[r]
           S == IF p.life = generation[r] THEN seen[r] \cup p.shown ELSE seen[r]
<1>0. /\ resp \in [Recipients -> Responses \cup {None}] /\ p \in Responses /\ p # None
      /\ ack \in [Recipients -> (0..MaxSeq) \cup {None}] /\ seen \in [Recipients -> SUBSET (1..MaxSeq)]
      /\ kept \in 0..MaxSeq
      /\ Reception(ack[r], p, seen[r], generation[r], events, next)
      /\ UNCHANGED <<file, tables, generation, active, read>>
      /\ resp' = [resp EXCEPT ![r] = None]
  BY DEF ContextInv, ContextTypes, Deliver
<1>1. p.through \in 0..MaxSeq /\ p.shown \in SUBSET (1..MaxSeq) BY <1>0 DEF Responses
<1>2. seen' = [seen EXCEPT ![r] = S] BY <1>0 DEF Deliver
<1>3. S \in SUBSET (1..MaxSeq) /\ seen[r] \subseteq S BY <1>0, <1>1
<1>4. /\ p.life = generation[r] => S = seen[r] \cup p.shown
      /\ \/ UNCHANGED <<ack, kept>>
         \/ /\ p.life = generation[r]
            /\ ack' = [ack EXCEPT ![r] = IF ack[r] = None THEN p.through ELSE Max({ack[r], p.through})]
            /\ kept' = Max({kept, p.through})
  BY <1>0 DEF Deliver, CurrentRecipient
<1>5. ack[r] # None => ack[r] < next /\ Covers(seen[r], ack[r], events) BY <1>0 DEF Reception
<1>6. p.life = generation[r] => p.through < next /\ Covers(seen[r] \cup p.shown, p.through, events)
  BY <1>0 DEF Reception
<1> HIDE DEF S
<1>7. \E a \in (0..MaxSeq) \cup {None}, k \in 0..MaxSeq :
        /\ ack' = [ack EXCEPT ![r] = a] /\ kept' = k
        /\ a # None => a < next /\ Covers(S, a, events)
  <2>1. CASE UNCHANGED <<ack, kept>>
    <3>1. ack' = [ack EXCEPT ![r] = ack[r]] /\ ack[r] \in (0..MaxSeq) \cup {None} BY <1>0, <2>1
    <3>2. ack[r] # None => Covers(S, ack[r], events) BY <1>3, <1>5 DEF Covers
    <3> QED BY <1>0, <1>5, <2>1, <3>1, <3>2
  <2>2. CASE ~UNCHANGED <<ack, kept>>
    <3> DEFINE a == IF ack[r] = None THEN p.through ELSE Max({ack[r], p.through})
    <3>1. p.life = generation[r] /\ ack' = [ack EXCEPT ![r] = a] /\ kept' = Max({kept, p.through})
      BY <1>4, <2>2
    <3>2. Max({kept, p.through}) \in 0..MaxSeq BY <1>0, <1>1, LaterCursor
    <3>3. a = p.through \/ (ack[r] # None /\ a = ack[r])
      <4>1. CASE ack[r] = None BY <4>1
      <4>2. CASE ack[r] # None
        <5>1. ack[r] \in 0..MaxSeq BY <1>0, <4>2
        <5>2. Max({ack[r], p.through}) \in {ack[r], p.through} BY <1>1, <5>1, LaterCursor
        <5> QED BY <4>2, <5>2
      <4> QED BY <4>1, <4>2
    <3> HIDE DEF a
    <3>4. Covers(S, p.through, events) /\ p.through < next BY <1>4, <1>6, <3>1
    <3>5. ack[r] # None => Covers(S, ack[r], events) BY <1>3, <1>5 DEF Covers
    <3>6. a \in (0..MaxSeq) \cup {None} BY <1>0, <1>1, <3>3
    <3>7. a < next /\ Covers(S, a, events) BY <1>5, <3>3, <3>4, <3>5
    <3> QED BY <3>1, <3>2, <3>6, <3>7
  <2> QED BY <2>1, <2>2
<1>8. PICK a \in (0..MaxSeq) \cup {None}, k \in 0..MaxSeq :
        /\ ack' = [ack EXCEPT ![r] = a] /\ kept' = k
        /\ a # None => a < next /\ Covers(S, a, events)
  BY <1>7
<1>9. ContextTypes' BY <1>0, <1>2, <1>3, <1>8 DEF ContextInv, ContextTypes, tables
<1>10. ASSUME NEW d \in Recipients
       PROVE  Reception(ack'[d], resp'[d], seen'[d], generation'[d], events, next)
  <2>1. CASE d = r
    <3>1. ack'[d] = a /\ resp'[d] = None /\ seen'[d] = S BY <1>0, <1>2, <1>8, <2>1
    <3> QED BY <1>8, <3>1 DEF Reception
  <2>2. CASE d # r
    <3>1. ack'[d] = ack[d] /\ resp'[d] = resp[d] /\ seen'[d] = seen[d] /\ generation'[d] = generation[d]
      BY <1>0, <1>2, <1>8, <2>2
    <3> QED BY <3>1 DEF ContextInv
  <2> QED BY <2>1, <2>2
<1> QED BY <1>0, <1>9, <1>10, Unrecorded

\* A new lifecycle has acknowledged nothing, and no response on its way is of it
LEMMA RetireRecipientStep ==
  ASSUME ContextLedgerAssumption, ContextInv, NEW r \in Recipients, RetireRecipient(r)
  PROVE  ContextInv' /\ ReceiptStep
<1>0. /\ ack \in [Recipients -> (0..MaxSeq) \cup {None}] /\ seen \in [Recipients -> SUBSET (1..MaxSeq)]
      /\ generation \in [Recipients -> 1..MaxGeneration] /\ generation[r] < MaxGeneration
      /\ generation' = [generation EXCEPT ![r] = generation[r] + 1]
      /\ ack' = [ack EXCEPT ![r] = None] /\ seen' = [seen EXCEPT ![r] = {}] /\ active' \subseteq Recipients
      /\ resp[r] \in Responses \cup {None}
      /\ UNCHANGED <<file, tables, kept, read, resp>>
  BY DEF ContextInv, ContextTypes, RetireRecipient
<1>1. ContextTypes' BY <1>0, ContextConstants DEF ContextInv, ContextTypes
<1>2. ASSUME NEW d \in Recipients
      PROVE  Reception(ack'[d], resp'[d], seen'[d], generation'[d], events, next)
  <2>1. CASE d = r
    <3>1. ack'[d] = None /\ resp'[d] = resp[r] /\ generation'[d] = generation[r] + 1 BY <1>0, <2>1
    <3>2. resp[r] # None => resp[r].life \in Nat /\ resp[r].life <= generation[r]
      <4>1. Reception(ack[r], resp[r], seen[r], generation[r], events, next) BY DEF ContextInv
      <4>2. resp[r] # None => resp[r].life \in Nat BY <1>0, ContextConstants DEF Responses
      <4> QED BY <4>1, <4>2 DEF Reception
    <3>3. generation[r] \in Nat BY <1>0, ContextConstants
    <3>4. resp[r] # None => resp[r].life <= generation[r] + 1 /\ resp[r].life # generation[r] + 1
      BY <3>2, <3>3
    <3> QED BY <3>1, <3>4 DEF Reception
  <2>2. CASE d # r
    <3>1. ack'[d] = ack[d] /\ resp'[d] = resp[d] /\ seen'[d] = seen[d] /\ generation'[d] = generation[d]
      BY <1>0, <2>2
    <3> QED BY <3>1 DEF ContextInv
  <2> QED BY <2>1, <2>2
<1> QED BY <1>0, <1>1, <1>2, Unrecorded

-----------------------------------------------------------------------------
(* The whole ledger.                                                       *)

\* An empty ledger
LEMMA ContextInitInv ==
  ASSUME ContextLedgerAssumption, ContextInit
  PROVE  ContextInv
<1> USE ContextConstants
<1>1. ContextTypes BY DEF ContextInit, ContextTypes, ReadRow, NoRead, Values
<1>2. EventsInv(events, next) BY FS_EmptySet DEF ContextInit, EventsInv
<1>3. RowsInv(fact, events) /\ RowsInv(ref, events) BY DEF ContextInit, RowsInv
<1>4. \A r \in Recipients : Reception(ack[r], resp[r], seen[r], generation[r], events, next)
  BY DEF ContextInit, Reception
<1> QED BY <1>1, <1>2, <1>3, <1>4 DEF ContextInv

\* Every step keeps the invariant and the events of the receipts
LEMMA ContextNextInv ==
  ASSUME ContextLedgerAssumption, ContextInv, [ContextNext]_contextVars
  PROVE  ContextInv' /\ [ReceiptStep]_contextVars
<1>1. CASE UNCHANGED contextVars
  BY <1>1 DEF contextVars, ContextInv, ContextTypes
<1>2. ASSUME NEW r \in Recipients, AdmitFact(r) \/ AdmitObservation(r) \/ AdmitReference(r)
      PROVE  ContextInv' /\ ReceiptStep
  BY <1>2, AdmitStep DEF AdmitFact, AdmitObservation, AdmitReference
<1>3. ASSUME NEW r \in Listeners, Start(r) \/ Present(r) \/ (\E n \in 0..MaxSeq : Delta(r, n)) \/ Deliver(r) \/ Lose(r)
      PROVE  ContextInv' /\ ReceiptStep
  <2>1. r \in Recipients BY ContextConstants
  <2> QED BY <1>3, <2>1, StartStep, PresentStep, DeltaStep, DeliverStep, LoseStep
<1>4. CASE ContextNext
  BY <1>2, <1>3, <1>4, ReadSteps, ObserveStep, PublishStep, RetireRecipientStep DEF ContextNext
<1> QED BY <1>1, <1>4

\* The invariant implies what the ledger promises
LEMMA ContextInvIsSound ==
  ASSUME ContextLedgerAssumption, ContextInv
  PROVE  ContextTypeOK /\ ProvenanceKept /\ AdmittedAfterChange /\ DeliveredThroughAck
<1> USE ContextConstants
<1>0. /\ events \subseteq EventRows /\ fact \in [Values -> Rows \cup {None}] /\ ref \in [Values -> Rows \cup {None}]
      /\ ack \in [Recipients -> (0..MaxSeq) \cup {None}] /\ seen \in [Recipients -> SUBSET (1..MaxSeq)]
      /\ resp \in [Recipients -> Responses \cup {None}]
  BY DEF ContextInv, ContextTypes, EventsInv, RowsInv
<1>1. ContextTypeOK BY <1>0 DEF ContextInv, ContextTypes, EventsInv, EventRows, ContextTypeOK
<1>2. ProvenanceKept BY DEF ContextInv, RowsInv, ProvenanceKept, Seqs
<1>3. AdmittedAfterChange BY DEF ContextInv, RowsInv, AdmittedAfterChange, Current
<1>4. DeliveredThroughAck BY DEF ContextInv, Reception, Covers, DeliveredThroughAck, Seqs
<1> QED BY <1>1, <1>2, <1>3, <1>4

\* The shared context is sound whatever is collected, superseded, retired or
\* lost: gc_context_ledger_tx_v1 leaves the events that rows and receipts name,
\* admit_context_fact_v1 and invalidate_context_dependencies_v1 leave nothing
\* current that is older than a recorded change, and a cursor that
\* acknowledge_context_delivery_v1 stores was delivered in full.
THEOREM ContextKept ==
  ASSUME ContextLedgerAssumption
  PROVE  ContextSpec => ContextIsKept
<1>1. ContextInit => ContextInv BY ContextInitInv
<1>2. ContextInv /\ [ContextNext]_contextVars => ContextInv' /\ [ReceiptStep]_contextVars
  BY ContextNextInv
<1>3. ContextInv => ContextTypeOK /\ ProvenanceKept /\ AdmittedAfterChange /\ DeliveredThroughAck
  BY ContextInvIsSound
<1> QED BY <1>1, <1>2, <1>3, PTL DEF ContextSpec, ContextIsKept
=============================================================================
