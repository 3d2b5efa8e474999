---------------------------- MODULE McpDelivery ----------------------------
(***************************************************************************)
(* Delivery receipts of one stdio connection of the MCP gateway.  A        *)
(* response of a tool call carries a challenge; the client's               *)
(* acknowledgement turns it into a receipt and a one-time retrieval grant  *)
(* in the store, and lets later calls refer to the delivered reasoning     *)
(* brief instead of repeating it.  Compaction of the client's context,     *)
(* cancellation and the end of the connection take all of that back.       *)
(*                                                                         *)
(* Three kinds of thread meet here: workers issue challenges, the writer   *)
(* marks them as flushed, the reader handles acknowledgements, retrievals  *)
(* and invalidations.  A challenge, its receipt, its grant and its pending *)
(* brief are named by their call.  Time is a choice: what may have expired *)
(* is chosen where the code compares clocks.                               *)
(***************************************************************************)
EXTENDS Naturals, Sequences, FiniteSets

CONSTANTS Call,         \* the tool calls of the connection
          MaxLife,      \* bound: value of lifecycle_generation
          MaxComp,      \* bound: value of compaction_generation
          PendingRoom,  \* MAX_OUTSTANDING_DELIVERY_CHALLENGES_V1
          RetiredRoom   \* MAX_RETIRED_DELIVERY_CHALLENGES_V1

\* What the connection is defined for
DeliveryAssumption ==
    /\ IsFiniteSet(Call) /\ MaxLife \in Nat \ {0} /\ MaxComp \in Nat
    /\ PendingRoom \in Nat \ {0} /\ RetiredRoom \in Nat \ {0}

ASSUME DeliveryAssumed == DeliveryAssumption

VARIABLES
    life,       \* lifecycle_generation of the connection
    comp,       \* compaction_generation of the connection
    reader,     \* the reader's place: [pc, call, why]
    call,       \* each worker's place and the recipient it has read
    pending,    \* DeliveryLedgerV1.pending: outstanding challenges
    retired,    \* DeliveryLedgerV1.retired and retired_order
    writes,     \* pending_reasoning_writes
    confirmed,  \* ReasoningDeliveryLedgerV1.confirmed: the keys
    written,    \* calls whose response and challenge the client has received
    receipts,   \* gateway_delivery_receipts_v2
    grants,     \* gateway_retrieval_grants_v2
    resultOk,   \* whether the stored result is ready and its blobs are whole
    fresh,      \* history: challenges issued since the last change of life
    confirms    \* history: how often a challenge was accepted

vars == <<life, comp, reader, call, pending, retired, writes, confirmed, written,
          receipts, grants, resultOk, fresh, confirms>>
ledger == <<pending, retired>>
store == <<receipts, grants, resultOk>>
history == <<fresh, confirms>>

Key == [conn : 1..MaxLife, comp : 0..MaxComp, life : 1..MaxLife]
NoKey == [conn |-> 1, comp |-> 0, life |-> 1]
NoChallenge == [life |-> 0, comp |-> 0, flushed |-> FALSE]
NoGrant == [life |-> 0, comp |-> 0, state |-> "none"]
Challenge == [life : 1..MaxLife, comp : 0..MaxComp, flushed : BOOLEAN]
Grant == [life : 1..MaxLife, comp : 0..MaxComp,
          state : {"live", "consumed", "retired"}]
CallPc == {"start", "lookup", "full", "compact", "issue", "issuing", "queued",
           "written", "done"}
ReaderPc == {"idle", "ack", "confirm", "reasoning", "retirePending",
             "retireGrants", "bump", "clearLedger", "clearWrites", "compact",
             "closed"}
Invalidation == {"compaction", "cancel", "close"}
NoCall == "none"
Idle == [pc |-> "idle", call |-> NoCall, why |-> "compaction"]

Init ==
    /\ life = 1 /\ comp = 0 /\ reader = Idle
    /\ call = [c \in Call |-> [pc |-> "start", key |-> NoKey, seen |-> 0]]
    /\ pending = [c \in Call |-> NoChallenge] /\ retired = <<>>
    /\ writes = {} /\ confirmed = {} /\ written = {}
    /\ receipts = {} /\ grants = [c \in Call |-> NoGrant] /\ resultOk = TRUE
    /\ fresh = {} /\ confirms = [c \in Call |-> 0]

Goto(c, p) == call' = [call EXCEPT ![c].pc = p]
ReaderAt(p) == reader' = [reader EXCEPT !.pc = p]

-----------------------------------------------------------------------------
(* A worker: attach_reasoning_context_v1, then the end of                  *)
(* process_bytes_inner.                                                    *)

\* current_reasoning_recipient reads the generations one by one
ReadRecipient(c) ==
    /\ call[c].pc = "start"
    /\ call' = [call EXCEPT ![c].pc = "lookup",
                    ![c].key = [conn |-> life, comp |-> comp, life |-> life]]
    /\ UNCHANGED <<life, comp, reader, ledger, writes, confirmed, written, store,
                   history>>

\* The last of the loads, and the search for an acknowledgement of this key.  A
\* candidate may also fail to compile, and then nothing is attached.
Compile(c) ==
    LET k == [call[c].key EXCEPT !.life = life] IN
    /\ call[c].pc = "lookup"
    /\ \E p \in {IF k \in confirmed THEN "compact" ELSE "full", "issue"} :
          call' = [call EXCEPT ![c].pc = p, ![c].key = k]
    /\ UNCHANGED <<life, comp, reader, ledger, writes, confirmed, written, store,
                   history>>

\* A full brief waits for its acknowledgement; a compact reference does not
Attach(c) ==
    /\ call[c].pc \in {"full", "compact"}
    /\ writes' = IF call[c].pc = "full" THEN writes \cup {c} ELSE writes
    /\ Goto(c, "issue")
    /\ UNCHANGED <<life, comp, reader, ledger, confirmed, written, store, history>>

Outstanding == {c \in Call : pending[c] # NoChallenge}

\* remember_retired, for several identifiers at once
LastOf(s, n) == SubSeq(s, IF Len(s) > n THEN Len(s) - n + 1 ELSE 1, Len(s))
IsRetired(c) == \E i \in DOMAIN retired : retired[i] = c
Remembered(S) == {LastOf(retired \o s, RetiredRoom) :
                      s \in {t \in [1..Cardinality(S) -> S] :
                                \A i, j \in 1..Cardinality(S) :
                                    t[i] = t[j] => i = j}}

Retire(S) ==
    /\ pending' = [c \in Call |-> IF c \in S THEN NoChallenge ELSE pending[c]]
    /\ retired' \in Remembered(S)

\* DeliveryLedgerV1::issue, in two steps because the generations are read while
\* the reader may be changing them: the ledger lock is held in between
LedgerFree == \A c \in Call : call[c].pc # "issuing"

IssueBegin(c) ==
    /\ call[c].pc = "issue" /\ LedgerFree
    /\ \E expired \in SUBSET Outstanding :
          /\ Retire(expired)
          /\ IF Cardinality(Outstanding \ expired) < PendingRoom
             THEN /\ call' = [call EXCEPT ![c].pc = "issuing", ![c].seen = comp]
                  /\ UNCHANGED writes
             ELSE /\ Goto(c, "done")
                  /\ writes' = writes \ {c}
    /\ UNCHANGED <<life, comp, reader, confirmed, written, store, history>>

IssueEnd(c) ==
    /\ call[c].pc = "issuing"
    /\ pending' = [pending EXCEPT ![c] =
                      [life |-> life, comp |-> call[c].seen, flushed |-> FALSE]]
    /\ fresh' = fresh \cup {c}
    /\ Goto(c, "queued")
    /\ UNCHANGED <<life, comp, reader, retired, writes, confirmed, written, store,
                   confirms>>

-----------------------------------------------------------------------------
(* The writer.                                                             *)

\* The bytes are with the client before the ledger hears of it
WriteOut(c) ==
    /\ call[c].pc = "queued"
    /\ written' = written \cup {c}
    /\ Goto(c, "written")
    /\ UNCHANGED <<life, comp, reader, ledger, writes, confirmed, store, history>>

MarkFlushed(c) ==
    /\ call[c].pc = "written" /\ LedgerFree
    /\ pending' = IF pending[c] = NoChallenge THEN pending
                  ELSE [pending EXCEPT ![c].flushed = TRUE]
    /\ Goto(c, "done")
    /\ UNCHANGED <<life, comp, reader, retired, writes, confirmed, written, store,
                   history>>

-----------------------------------------------------------------------------
(* The reader: acknowledgements.                                           *)

\* A client can only acknowledge what it has received; it may do so twice
ReceiveAck(c) ==
    /\ reader.pc = "idle" /\ c \in written
    /\ reader' = [reader EXCEPT !.pc = "ack", !.call = c]
    /\ UNCHANGED <<life, comp, call, ledger, writes, confirmed, written, store,
                   history>>

\* The challenge was bound to the generations the connection still has
Acceptable(c) == pending[c].life = life /\ pending[c].comp = comp

\* DeliveryLedgerV1::acknowledge, after the bounded wait for the flush mark,
\* which may run out (late).  The client may send a wrong binding (exact).
Acknowledge ==
    LET c == reader.call IN
    /\ reader.pc = "ack" /\ LedgerFree
    /\ \/ /\ pending[c] = NoChallenge \/ IsRetired(c)
          /\ ReaderAt("idle")
          /\ UNCHANGED <<ledger, confirms>>
       \/ /\ pending[c] # NoChallenge /\ ~IsRetired(c)
          /\ Retire({c})
          /\ \E late, exact \in BOOLEAN :
                IF ~late /\ exact /\ pending[c].flushed /\ Acceptable(c)
                THEN /\ ReaderAt("confirm")
                     /\ confirms' = [confirms EXCEPT ![c] = @ + 1]
                ELSE /\ ReaderAt("idle")
                     /\ UNCHANGED confirms
    /\ UNCHANGED <<life, comp, call, writes, confirmed, written, store, fresh>>

\* load_gateway_result_unbound_snapshot_v2 and get_blob: the row is ready, alone
\* for its binding, completed by the newest lease, and its blobs are whole
Readable == resultOk

\* confirm_gateway_delivery_and_issue_retrieval_v2: receipt and grant in one
\* transaction, or neither; a refusal also gives up the pending brief
ConfirmDelivery ==
    LET c == reader.call IN
    /\ reader.pc = "confirm"
    /\ \/ /\ Readable /\ c \notin receipts
          /\ receipts' = receipts \cup {c}
          /\ grants' = [grants EXCEPT ![c] =
                           [life |-> life, comp |-> comp, state |-> "live"]]
          /\ ReaderAt("reasoning")
          /\ UNCHANGED writes
       \/ /\ writes' = writes \ {c}
          /\ ReaderAt("idle")
          /\ UNCHANGED <<receipts, grants>>
    /\ UNCHANGED <<life, comp, call, ledger, confirmed, written, resultOk, history>>

\* Slip: confirm_reasoning_acknowledgment_v2 without the generation check
ConfirmReasoningBlindly ==
    LET c == reader.call IN
    /\ reader.pc = "reasoning"
    /\ writes' = writes \ {c}
    /\ confirmed' = IF c \in writes THEN confirmed \cup {call[c].key} ELSE confirmed
    /\ ReaderAt("idle")
    /\ UNCHANGED <<life, comp, call, ledger, written, store, history>>

\* confirm_reasoning_acknowledgment_v2: the key enters the ledger unless the
\* connection has changed its generation or the completion fails
ConfirmReasoning ==
    LET c == reader.call IN
    /\ reader.pc = "reasoning"
    /\ writes' = writes \ {c}
    /\ \/ UNCHANGED confirmed
       \/ /\ c \in writes /\ call[c].key.life = life
          /\ confirmed' = confirmed \cup {call[c].key}
    /\ ReaderAt("idle")
    /\ UNCHANGED <<life, comp, call, ledger, written, store, history>>

-----------------------------------------------------------------------------
(* The reader: retrieval of a delivered result, one store transaction.     *)

MatchesAuthority(g) == g.life = life /\ g.comp = comp

Retrieve(c) ==
    /\ reader.pc = "idle" /\ grants[c] # NoGrant /\ grants[c].state = "live"
    /\ \/ grants' = [grants EXCEPT ![c].state = "retired"]           \* expired
       \/ /\ MatchesAuthority(grants[c]) /\ Readable
          /\ grants' = [grants EXCEPT ![c].state = "consumed"]
       \/ /\ MatchesAuthority(grants[c]) /\ ~Readable
          /\ grants' = [d \in Call |->
                IF grants[d] # NoGrant /\ grants[d].state = "live"
                THEN [grants[d] EXCEPT !.state = "retired"] ELSE grants[d]]
    /\ UNCHANGED <<life, comp, reader, call, ledger, writes, confirmed, written,
                   receipts, resultOk, history>>

-----------------------------------------------------------------------------
(* The reader: context_compacted_v1, cancel and the end of                 *)
(* serve_stdio_with_recipient_v1, which share their steps.                 *)

Invalidate(why, c) ==
    /\ reader.pc = "idle" /\ life < MaxLife
    /\ reader' = [pc |-> "retirePending", call |-> c, why |-> why]
    /\ UNCHANGED <<life, comp, call, ledger, writes, confirmed, written, store,
                   history>>

\* A cancellation names one request, the others mean the whole session
RetirePending ==
    /\ reader.pc = "retirePending" /\ LedgerFree
    /\ Retire(IF reader.why = "cancel" THEN Outstanding \cap {reader.call}
              ELSE Outstanding)
    /\ ReaderAt("retireGrants")
    /\ UNCHANGED <<life, comp, call, writes, confirmed, written, store, history>>

\* retire_connection_retrievals_v2 swallows a failure of the store
RetireGrants ==
    /\ reader.pc = "retireGrants"
    /\ \/ UNCHANGED grants
       \/ grants' = [c \in Call |->
             IF grants[c] # NoGrant /\ grants[c].state = "live"
                /\ MatchesAuthority(grants[c])
             THEN [grants[c] EXCEPT !.state = "retired"] ELSE grants[c]]
    /\ ReaderAt("bump")
    /\ UNCHANGED <<life, comp, call, ledger, writes, confirmed, written, receipts,
                   resultOk, history>>

\* invalidate_reasoning_session_v1
BumpLife ==
    /\ reader.pc = "bump"
    /\ life' = life + 1 /\ fresh' = {}
    /\ ReaderAt("clearLedger")
    /\ UNCHANGED <<comp, call, ledger, writes, confirmed, written, store, confirms>>

ClearLedger ==
    /\ reader.pc = "clearLedger"
    /\ confirmed' = {}
    /\ ReaderAt("clearWrites")
    /\ UNCHANGED <<life, comp, call, ledger, writes, written, store, history>>

ClearWrites ==
    /\ reader.pc = "clearWrites"
    /\ writes' = {}
    /\ ReaderAt(CASE reader.why = "compaction" -> "compact"
                  [] reader.why = "cancel" -> "idle"
                  [] reader.why = "close" -> "closed")
    /\ UNCHANGED <<life, comp, call, ledger, confirmed, written, store, history>>

\* A malformed notification invalidates but does not raise the generation
StoreCompaction ==
    /\ reader.pc = "compact"
    /\ \E g \in comp..MaxComp : comp' = g
    /\ ReaderAt("idle")
    /\ UNCHANGED <<life, call, ledger, writes, confirmed, written, store, history>>

\* Another process quarantines the result, or a blob is damaged
LoseResult ==
    /\ resultOk /\ resultOk' = FALSE
    /\ UNCHANGED <<life, comp, reader, call, ledger, writes, confirmed, written,
                   receipts, grants, history>>

-----------------------------------------------------------------------------
WorkerNext(c) ==
    \/ ReadRecipient(c) \/ Compile(c) \/ Attach(c) \/ IssueBegin(c) \/ IssueEnd(c)

WriterNext(c) == WriteOut(c) \/ MarkFlushed(c)

ReaderNext ==
    \/ \E c \in Call : ReceiveAck(c)
    \/ Acknowledge \/ ConfirmDelivery \/ ConfirmReasoning
    \/ \E c \in Call : Retrieve(c)
    \/ \E c \in Call : Invalidate("cancel", c)
    \/ \E why \in Invalidation \ {"cancel"} : Invalidate(why, NoCall)
    \/ RetirePending \/ RetireGrants \/ BumpLife \/ ClearLedger \/ ClearWrites
    \/ StoreCompaction

Next ==
    \/ \E c \in Call : WorkerNext(c) \/ WriterNext(c)
    \/ ReaderNext \/ LoseResult

Spec == Init /\ [][Next]_vars

-----------------------------------------------------------------------------
(* Properties.                                                             *)

DeliveryTypeOK ==
    /\ life \in 1..MaxLife /\ comp \in 0..MaxComp
    /\ reader \in [pc : ReaderPc, call : Call \cup {NoCall}, why : Invalidation]
    /\ call \in [Call -> [pc : CallPc, key : Key, seen : 0..MaxComp]]
    /\ pending \in [Call -> Challenge \cup {NoChallenge}]
    /\ Cardinality(Outstanding) <= PendingRoom
    /\ retired \in Seq(Call) /\ Len(retired) <= RetiredRoom
    /\ writes \subseteq Call /\ confirmed \subseteq Key
    /\ written \subseteq Call /\ receipts \subseteq Call
    /\ grants \in [Call -> Grant \cup {NoGrant}]
    /\ resultOk \in BOOLEAN /\ fresh \subseteq Call

\* No challenge is accepted twice, although the memory of accepted challenges
\* is bounded and forgets the oldest.
ConfirmedOnce == \A c \in Call : confirms[c] <= 1

\* Between invalidations, the ledger that allows a compact reference holds no
\* acknowledgement of an earlier generation: a worker that read its recipient
\* before the invalidation and attached its brief after it does not revive one.
LedgerIsCurrent ==
    reader.pc \notin {"clearLedger"} => \A k \in confirmed : k.life = life

\* A receipt is written only for a challenge that was issued after the last
\* compaction or cancellation, even when the worker issued it between the steps
\* of that invalidation.
ReceiptIsCurrent == \A c \in Call : c \in receipts' \ receipts => c \in fresh

\* A brief is confirmed only if the client had acknowledged the very response
\* that carried it.
BriefWasDelivered ==
    \A k \in confirmed' \ confirmed :
        \E c \in written : c \in receipts /\ call[c].key = k

\* A grant is used only in the generation it was issued in, even when the
\* store failed to retire it.
NoStaleRetrieval ==
    \A c \in Call :
        grants[c] # NoGrant /\ grants'[c].state = "consumed" /\ grants[c].state = "live"
        => grants[c].life = life /\ c \in fresh

\* What no step of the connection may do with a challenge, a brief or a grant.
DeliveryStep == ReceiptIsCurrent /\ BriefWasDelivered /\ NoStaleRetrieval

\* A challenge is accepted once, the ledger that allows compact references
\* holds nothing of an earlier lifecycle, although the worker that confirms a
\* brief read its recipient before the reader invalidated it, and receipts,
\* confirmed briefs and retrieval grants are only ever used for the challenge
\* and the generation they were issued for.
DeliveryIsCurrent ==
    [](DeliveryTypeOK /\ ConfirmedOnce /\ LedgerIsCurrent) /\ [][DeliveryStep]_vars
=============================================================================
