---------------------------- MODULE ContextLedger ----------------------------
(***************************************************************************)
(* The shared context of one task: the append-only events of store.rs, the *)
(* facts and result references derived from them, their retirement when a  *)
(* dependency changes, deliveries with their acknowledgement, and garbage  *)
(* collection at the event quota.  The coordinator's calls come from       *)
(* context_coordinator.rs and agent_gateway_runtime.rs.                    *)
(*                                                                         *)
(* All reads are one request on one file.  A value of the file stands for  *)
(* the binding, the dependency value and the stored result of that value;  *)
(* the values are numbered in the order of the leading digits of their     *)
(* result digests, which is the order of the fact versions.                *)
(***************************************************************************)
EXTENDS Naturals, FiniteSetsExt

CONSTANTS
  Recipients,     \* authenticated connections (agent and session)
  Listeners,      \* those of them that ask for context and get it delivered
  MaxValue,       \* the file has the values 1..MaxValue
  Cited,          \* values whose result has a delivery receipt of the gateway
  None,           \* NULL
  DeltaLimit,     \* MAX_CONTEXT_DELTA_ITEMS_V1
  MaxEvents,      \* MAX_CONTEXT_LEDGER_EVENTS_PER_TASK_V1
  MaxSeq,         \* bound: events ever appended
  MaxWrites,      \* bound: writes of the file
  MaxGeneration   \* bound: lifecycle generations of a connection

Values == 1..MaxValue
Kinds == {"invalidation", "fact", "observation", "reference", "suggestion"}
Envelopes == [kind : Kinds, by : Recipients, life : 1..MaxGeneration, value : 0..MaxValue]
Rows == [adm : 1..MaxSeq, ret : 0..MaxSeq]
Responses == [step : {"snapshot", "sent"}, life : 1..MaxGeneration, through : 0..MaxSeq,
              shown : SUBSET (1..MaxSeq)]

\* What the ledger is defined for
ContextLedgerAssumption ==
  /\ {MaxValue, DeltaLimit, MaxEvents, MaxGeneration} \subseteq Nat \ {0}
  /\ {MaxSeq, MaxWrites} \subseteq Nat
  /\ Cited \subseteq Values
  /\ Listeners \subseteq Recipients
  /\ None \notin Nat \cup Rows /\ None \notin Responses

VARIABLES
  file,     \* [value, writes] the file in the workspace
  events,   \* context_ledger_events_v1
  next,     \* the AUTOINCREMENT sequence
  fact,     \* context_ledger_fact_versions_v1, by value
  ref,      \* context_ledger_result_references_v1, by value
  kept,     \* the largest through_sequence of a delivery receipt
  generation, \* lifecycle generation of each connection
  active,   \* the connections that are active in the task
  ack,      \* LocalContextCoordinatorV1.acknowledged, of the current lifecycle
  seen,     \* history: the events each connection was shown in this lifecycle
  read,     \* the repository read each connection has in progress
  resp      \* the response about the task that is on its way to a connection

contextVars == <<file, events, next, fact, ref, kept, generation, active, ack, seen,
                 read, resp>>
tables == <<events, next, fact, ref>>

NoRead == [step |-> "idle", value |-> 0, life |-> 0]

\* An envelope is the digest of the identity, lifecycle included, and a payload.
Envelope(kind, r, c) == [kind |-> kind, by |-> r, life |-> c.life, value |-> c.value]
Seqs == {e.seq : e \in events}
Latest == Max(Seqs \cup {0})
Current(row) == row # None /\ row.ret = 0

\* ensure_current_context_recipient_v1.
CurrentRecipient(r, l) == r \in active /\ generation[r] = l

\* duplicate_context_envelope_v1.
Duplicate(env) == \E e \in events : e.env = env

----------------------------------------------------------------------------
\* The rows gc_context_ledger_tx_v1 leaves: the retired ones go.
Unretired(rows) == [v \in Values |-> IF Current(rows[v]) THEN rows[v] ELSE None]

\* The events it may remove: after every receipt, of no row, and not the
\* source event of a result that was delivered.
Holds(rows, s) == \E v \in Values : rows[v] # None /\ s \in {rows[v].adm, rows[v].ret}

Removable ==
  {e \in events : /\ e.seq > kept
                  /\ ~Holds(Unretired(fact), e.seq)
                  /\ ~Holds(Unretired(ref), e.seq)
                  /\ e.env.kind \in {"fact", "observation", "reference"}
                       => e.env.value \notin Cited}

\* The oldest of them, as many as are in excess.
Oldest(S, n) == {e \in S : Cardinality({f \in S : f.seq < e.seq}) < n}

\* enforce_context_quota_v1: collect when the task is full.
Room ==
  IF Cardinality(events) < MaxEvents
    THEN [events |-> events, fact |-> fact, ref |-> ref]
    ELSE [events |-> events \ Oldest(Removable, Cardinality(events) + 1 - MaxEvents),
          fact |-> Unretired(fact), ref |-> Unretired(ref)]

HasRoom == Cardinality(Room.events) < MaxEvents /\ next <= MaxSeq

\* insert_context_event_v1.
Insert(env) ==
  /\ HasRoom
  /\ events' = Room.events \cup {[seq |-> next, env |-> env]}
  /\ next' = next + 1

\* Slip: only lower versions are retired.
RetireLower(rows, v, s) ==
  [w \in Values |-> IF Current(rows[w]) /\ w < v THEN [rows[w] EXCEPT !.ret = s] ELSE rows[w]]

\* retire_context_facts_for_changes_v1 and its twin for references.
RetireOthers(rows, v, s) ==
  [w \in Values |-> IF Current(rows[w]) /\ w # v THEN [rows[w] EXCEPT !.ret = s] ELSE rows[w]]

\* admit_context_fact_v1: a lower version is superseded.
Supersede(rows, v, s) ==
  [w \in Values |-> IF Current(rows[w]) /\ w < v THEN [rows[w] EXCEPT !.ret = s] ELSE rows[w]]

NewRow(rows, v) == [rows EXCEPT ![v] = [adm |-> next, ret |-> 0]]

----------------------------------------------------------------------------
ContextInit ==
  /\ file = [value |-> 1, writes |-> 0]
  /\ events = {}
  /\ next = 1
  /\ fact = [v \in Values |-> None]
  /\ ref = [v \in Values |-> None]
  /\ kept = 0
  /\ generation = [r \in Recipients |-> 1]
  /\ active = {}
  /\ ack = [r \in Recipients |-> None]
  /\ seen = [r \in Recipients |-> {}]
  /\ read = [r \in Recipients |-> NoRead]
  /\ resp = [r \in Recipients |-> None]

\* Somebody writes the file.
Write(v) ==
  /\ v # file.value
  /\ file.writes < MaxWrites
  /\ file' = [value |-> v, writes |-> file.writes + 1]
  /\ UNCHANGED <<tables, kept, generation, active, ack, seen, read, resp>>

\* resolve: the request is bound to what the file is now.
Resolve(r) ==
  /\ read[r] = NoRead
  /\ read' = [read EXCEPT ![r] = [step |-> "resolved", value |-> file.value,
                                  life |-> generation[r]]]
  /\ UNCHANGED <<file, tables, kept, generation, active, ack, seen, resp>>

GoTo(r, step) == read' = [read EXCEPT ![r].step = step]
EndCall(r) == read' = [read EXCEPT ![r] = NoRead]

\* observe_dependencies without an active task: the read goes on.
ObserveNothing(r, c) == ~CurrentRecipient(r, c.life) /\ UNCHANGED tables

\* invalidate_context_dependencies_v1: a known envelope changes nothing, a
\* new one retires what was derived from another value.
InvalidateDependencies(r, c) ==
  LET env == Envelope("invalidation", r, c)
  IN  /\ CurrentRecipient(r, c.life)
      /\ IF Duplicate(env) THEN UNCHANGED tables
         ELSE /\ Insert(env)
              /\ fact' = RetireOthers(Room.fact, c.value, next)
              /\ ref' = RetireOthers(Room.ref, c.value, next)

Observe(r) ==
  /\ read[r].step = "resolved"
  /\ ObserveNothing(r, read[r]) \/ InvalidateDependencies(r, read[r])
  /\ GoTo(r, "observed")
  /\ UNCHANGED <<file, kept, generation, active, ack, seen, resp>>

\* The result is executed or loaded, and its binding still is the current one.
Verify(r) ==
  /\ read[r].step = "observed"
  /\ file.value = read[r].value
  /\ GoTo(r, "verified")
  /\ UNCHANGED <<file, tables, kept, generation, active, ack, seen, resp>>

\* admit_verified_result, after the verification of the result.  Its three
\* transactions run in order and the first that fails ends it: a row of the
\* same version is a primary key conflict.
Admit(r, from, kind, to) ==
  /\ read[r].step = from
  /\ CurrentRecipient(r, read[r].life)
  /\ LET c   == read[r]
         env == Envelope(kind, r, c)
     IN  IF Duplicate(env) THEN UNCHANGED tables
         ELSE /\ Insert(env)
              /\ CASE kind = "fact" ->
                      /\ Room.fact[c.value] = None
                      /\ fact' = NewRow(Supersede(Room.fact, c.value, next), c.value)
                      /\ ref' = Room.ref
                   [] kind = "reference" ->
                      /\ Room.ref[c.value] = None
                      /\ ref' = NewRow(Room.ref, c.value)
                      /\ fact' = Room.fact
                   [] OTHER -> fact' = Room.fact /\ ref' = Room.ref
  /\ IF to = "idle" THEN EndCall(r) ELSE GoTo(r, to)
  /\ UNCHANGED <<file, kept, generation, active, ack, seen, resp>>

AdmitFact(r) == Admit(r, "verified", "fact", "fact")
AdmitObservation(r) == Admit(r, "fact", "observation", "observation")
AdmitReference(r) == Admit(r, "observation", "reference", "idle")

\* A refused step: the answer does not depend on the ledger.
Abandon(r) ==
  /\ read[r] # NoRead
  /\ EndCall(r)
  /\ UNCHANGED <<file, tables, kept, generation, active, ack, seen, resp>>

\* context.publish of a suggestion or an unknown.
Publish(r) ==
  LET env == Envelope("suggestion", r, [life |-> generation[r], value |-> 0])
  IN  /\ r \in active
      /\ ~Duplicate(env)
      /\ Insert(env)
      /\ fact' = Room.fact
      /\ ref' = Room.ref
      /\ UNCHANGED <<file, kept, generation, active, ack, seen, read, resp>>

----------------------------------------------------------------------------
\* context_delta_after_v1.
After(n, limit) == LET E == {e \in events : e.seq > n}
                   IN  {e.seq : e \in Oldest(E, limit)}

\* activate: every other tool of the task.
Activate(r) ==
  /\ r \notin active
  /\ active' = active \cup {r}
  /\ UNCHANGED <<file, tables, kept, generation, ack, seen, read, resp>>

\* task.start, first part: activation and the snapshot with its cursor, which
\* is the answer when nothing is acknowledged yet.
Start(r) ==
  /\ resp[r] = None
  /\ active' = active \cup {r}
  /\ resp' = [resp EXCEPT ![r] = [step |-> IF ack[r] = None THEN "sent" ELSE "snapshot",
                                  life |-> generation[r],
                                  through |-> Latest, shown |-> 1..Latest]]
  /\ UNCHANGED <<file, tables, kept, generation, ack, seen, read>>

\* task.start, second part: the delta after what the recipient acknowledged,
\* through the cursor of the snapshot; full context if that is gone.
Present(r) ==
  /\ resp[r] # None
  /\ resp[r].step = "snapshot"
  /\ resp' = IF ack[r] = None \/ resp[r].life # generation[r]
               THEN [resp EXCEPT ![r].step = "sent"]
               ELSE [resp EXCEPT ![r].step = "sent", ![r].shown = After(ack[r], DeltaLimit)]
  /\ UNCHANGED <<file, tables, kept, generation, active, ack, seen, read>>

\* context.delta after a cursor that was acknowledged.
Delta(r, n) ==
  /\ resp[r] = None
  /\ ack[r] # None
  /\ n <= ack[r]
  /\ resp' = [resp EXCEPT ![r] = [step |-> "sent", life |-> generation[r],
                                  through |-> Max(After(n, DeltaLimit) \cup {n}),
                                  shown |-> After(n, DeltaLimit)]]
  /\ active' = active \cup {r}
  /\ UNCHANGED <<file, tables, kept, generation, ack, seen, read>>

\* The response is written and flushed: ContextDeliveryCompletionV1.complete
\* with acknowledge_context_delivery_v1.
Deliver(r) ==
  LET p == resp[r]
  IN  /\ p # None
      /\ p.step = "sent"
      /\ resp' = [resp EXCEPT ![r] = None]
      /\ seen' = IF p.life = generation[r] THEN [seen EXCEPT ![r] = @ \cup p.shown] ELSE seen
      /\ IF CurrentRecipient(r, p.life) /\ p.through <= Latest
           THEN /\ ack' = [ack EXCEPT ![r] = IF @ = None THEN p.through ELSE Max({@, p.through})]
                /\ kept' = Max({kept, p.through})
           ELSE UNCHANGED <<ack, kept>>
      /\ UNCHANGED <<file, tables, generation, active, read>>

\* The response is not written.
Lose(r) ==
  /\ resp[r] # None
  /\ resp' = [resp EXCEPT ![r] = None]
  /\ UNCHANGED <<file, tables, kept, generation, active, ack, seen, read>>

\* retire_recipient, then a new lifecycle: disconnect, compaction, cancellation.
RetireRecipient(r) ==
  /\ generation[r] < MaxGeneration
  /\ generation' = [generation EXCEPT ![r] = @ + 1]
  /\ active' = active \ {r}
  /\ ack' = [ack EXCEPT ![r] = None]
  /\ seen' = [seen EXCEPT ![r] = {}]
  /\ UNCHANGED <<file, tables, kept, read, resp>>

ContextNext ==
  \/ \E v \in Values : Write(v)
  \/ \E r \in Recipients :
       \/ Resolve(r)
       \/ Observe(r)
       \/ Verify(r)
       \/ AdmitFact(r)
       \/ AdmitObservation(r)
       \/ AdmitReference(r)
       \/ Abandon(r)
       \/ Publish(r)
       \/ Activate(r)
       \/ RetireRecipient(r)
  \/ \E r \in Listeners :
       \/ Start(r)
       \/ Present(r)
       \/ \E n \in 0..MaxSeq : Delta(r, n)
       \/ Deliver(r)
       \/ Lose(r)

ContextSpec == ContextInit /\ [][ContextNext]_contextVars

----------------------------------------------------------------------------
ContextTypeOK ==
  /\ file \in [value : Values, writes : 0..MaxWrites]
  /\ events \subseteq [seq : 1..MaxSeq, env : Envelopes]
  /\ Cardinality(events) <= MaxEvents
  /\ next \in 1..(MaxSeq + 1)
  /\ \A v \in Values : /\ fact[v] = None \/ fact[v] \in Rows
                       /\ ref[v] = None \/ ref[v] \in Rows
  /\ kept \in 0..MaxSeq
  /\ generation \in [Recipients -> 1..MaxGeneration]
  /\ active \subseteq Recipients
  /\ \A r \in Recipients : /\ ack[r] = None \/ ack[r] \in 0..MaxSeq
                           /\ seen[r] \subseteq 1..MaxSeq
                           /\ resp[r] = None \/ resp[r] \in Responses

\* Garbage collection keeps the events that facts and references name as
\* their admission and retirement, so no foreign key refuses a later write.
ProvenanceKept ==
  \A rows \in {fact, ref}, v \in Values :
    rows[v] # None => rows[v].adm \in Seqs /\ rows[v].ret \in Seqs \cup {0}

\* What is current was admitted after every recorded change to another value,
\* whoever recorded it, whatever was superseded or collected in between.
AdmittedAfterChange ==
  \A rows \in {fact, ref}, v \in Values : Current(rows[v]) =>
    \A e \in events : e.env.kind = "invalidation" /\ e.env.value # v => e.seq < rows[v].adm

\* What a delivery receipt stands for is kept: no event up to the largest
\* acknowledged cursor of any recipient is collected.
ReceiptStep == \A e \in events : e.seq <= kept => e \in events'

\* An acknowledged cursor means complete delivery: the recipient was shown, in
\* this lifecycle, every event up to it, so that a compact reference or a
\* delta after it leaves nothing out (docs/ROADMAP.md, delivery reuse), in a
\* task that never has more events than a delta may hold.
DeliveredThroughAck ==
  MaxSeq <= DeltaLimit =>
    \A r \in Recipients : ack[r] # None => \A s \in Seqs : s <= ack[r] => s \in seen[r]

\* The context ledger is sound whatever is collected, superseded or lost: what
\* is current was admitted after the last change, the events it names are
\* kept, an acknowledged cursor was delivered in full, and no event that a
\* delivery receipt stands for is collected.
ContextIsKept ==
  /\ [](ContextTypeOK /\ ProvenanceKept /\ AdmittedAfterChange /\ DeliveredThroughAck)
  /\ [][ReceiptStep]_contextVars
=============================================================================
