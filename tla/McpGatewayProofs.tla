------------------------ MODULE McpGatewayProofs ------------------------
(***************************************************************************)
(* The MCP gateway: the stdio session, for any number of workers, ids,     *)
(* frames and responses, and the daemon that serves it, for any clients,   *)
(* daemons and limits.                                                     *)
(***************************************************************************)
EXTENDS McpStdio, GatewayDaemon, FiniteSetTheorems, TLAPS

-----------------------------------------------------------------------------
(***************************************************************************)
(* SessionIsSound.  The reader's wait for the activation carries the       *)
(* argument: a call that is queued, or is held by a worker that has not    *)
(* passed the gate, is the current frame of a reader that waits (GateInv). *)
(* So every earlier call is decided or registered, no call is at the gate  *)
(* when the reader closes the session, and a closed session at the gate is *)
(* one whose writer has failed.  A frame is in one place at a time (HeldInv, *)
(* OutInv), an entry in the active map belongs to the worker that runs its *)
(* call (ActiveInv), and a marked call that succeeded is on its way to     *)
(* complete, where the mark is seen (MarkInv).                             *)
(***************************************************************************)

Held(w) == worker[w].pc \notin {"idle", "exited"}
Waiting(w) == worker[w].pc \in {"register", "gate"}
Registered(w) == worker[w].pc \in {"gate", "run", "complete"}
Queued(f) == \E k \in DOMAIN responses : responses[k] = f

\* The response to a frame has left its worker.
Out(f) == f \in written \/ Queued(f) \/ (writer.pc = "write" /\ writer.frame = f)

Decided(f) == answer[f] # "none" \/ active[IdOf(f)] = f

FrameInv ==
    /\ Current \in Nat /\ Current <= MaxFrames
    /\ reader \in {"dispatch", "await", "reply"} => Current >= 1
    /\ \A f \in 1..Current : frames[f].kind # "other" => frames[f].id \in Id
    /\ reader = "await" => IsCall(Current)

\* A frame is held by one worker, and not while the reader has it.
HeldInv ==
    /\ \A w \in Worker : Held(w) => worker[w].frame \in 1..Current /\ IsCall(worker[w].frame)
    /\ \A w, v \in Worker :
          Held(w) /\ Held(v) /\ worker[w].frame = worker[v].frame => w = v
    /\ \A w \in Worker : Held(w) /\ worker[w].frame = Current =>
          reader \notin {"dispatch", "reply"} /\ jobs = <<>>

\* A call that is not yet activated is the one the reader waits for.
GateInv ==
    /\ jobs # <<>> => /\ jobs = <<Current>> /\ reader = "await" /\ Current \notin signalled
                      /\ \A w \in Worker : ~Waiting(w)
    /\ \A w \in Worker : Waiting(w) =>
          worker[w].frame = Current /\ reader = "await" /\ Current \notin signalled
    /\ signalled \subseteq 1..Current
    /\ reader = "dispatch" => Current \notin signalled

\* What a frame is answered by the time it is somewhere.
AnswerInv ==
    /\ \A f \in Frame : f > Current => answer[f] = "none"
    /\ reader = "dispatch" \/ jobs # <<>> => answer[Current] = "none"
    /\ \A w \in Worker : worker[w].pc \in {"register", "gate", "run"} =>
          answer[worker[w].frame] = "none"
    /\ \A w \in Worker : worker[w].pc = "complete" => answer[worker[w].frame] # "none"

\* An entry of the active map belongs to the worker that runs the call.
ActiveInv ==
    /\ \A w \in Worker : Registered(w) => active[IdOf(worker[w].frame)] = worker[w].frame
    /\ \A i \in Id : active[i] # None =>
          \E w \in Worker : Registered(w) /\ worker[w].frame = active[i] /\ IdOf(active[i]) = i

\* Every call that the reader has passed is decided or registered.
DecidedInv ==
    /\ \A f \in signalled : Decided(f)
    /\ reader \in {"read", "reply"} => \A f \in 1..Current : IsCall(f) => Decided(f)
    /\ reader \in {"dispatch", "await"} => \A f \in 1..(Current - 1) : IsCall(f) => Decided(f)

OutInv ==
    /\ writer.pc = "write" => writer.frame \in Frame
    /\ \A f \in Frame : Out(f) => f <= Current
    /\ reader \in {"dispatch", "reply"} \/ jobs # <<>> => ~Out(Current)
    /\ \A w \in Worker : Held(w) /\ worker[w].pc # "release" => ~Out(worker[w].frame)

\* A marked call that succeeded has its mark before it.
MarkInv ==
    \A f \in cancelReq : answer[f] = "ok" =>
        \E w \in Worker : worker[w].pc = "complete" /\ worker[w].frame = f

\* Who closed the session.
CloseInv ==
    /\ reader \in {"cancelling", "join", "done"} \/ writer.pc \in {"failing", "gone"} => closed
    /\ closed => reader \in {"cancelling", "join", "done"} \/ writer.pc \in {"failing", "gone"}

SessionInv ==
    /\ StdioTypeOK /\ FrameInv /\ HeldInv /\ GateInv /\ AnswerInv /\ ActiveInv
    /\ DecidedInv /\ OutInv /\ MarkInv /\ CloseInv
    /\ NoSyntheticRefusal /\ NothingRunsUncancelled /\ InflightIsExact

WorkerRow == [pc : WorkerPc, frame : Frame \cup {None}]
FrameRow == [kind : {"call", "cancel", "other"}, id : Id \cup {None}]

-----------------------------------------------------------------------------
(* Lemmas about queues and counts.                                         *)

\* What a queue holds after one more entry, and after its first was taken.
LEMMA QueueGrows ==
    ASSUME NEW S, NEW q \in Seq(S), NEW x \in S
    PROVE  /\ Append(q, x) \in Seq(S) /\ Len(q) \in Nat /\ Len(Append(q, x)) = Len(q) + 1
           /\ Append(q, x)[Len(q) + 1] = x
           /\ \A i \in 1..Len(q) : Append(q, x)[i] = q[i]
           /\ \A y : (\E k \in DOMAIN Append(q, x) : Append(q, x)[k] = y)
                       <=> y = x \/ \E k \in DOMAIN q : q[k] = y
  OBVIOUS

\* A queue without its first entry.
LEMMA QueueShrinks ==
    ASSUME NEW S, NEW q \in Seq(S), q # <<>>
    PROVE  /\ Head(q) \in S /\ Tail(q) \in Seq(S) /\ Len(Tail(q)) = Len(q) - 1 /\ Len(q) \in Nat
           /\ \E k \in DOMAIN q : q[k] = Head(q)
           /\ \A y : (\E k \in DOMAIN Tail(q) : Tail(q)[k] = y) => \E k \in DOMAIN q : q[k] = y
  <1>1. Len(q) \in Nat /\ Len(q) >= 1 /\ q[1] = Head(q) /\ Head(q) \in S /\ DOMAIN q = 1..Len(q)
    OBVIOUS
  <1>2. /\ Tail(q) \in Seq(S) /\ Len(Tail(q)) = Len(q) - 1 /\ DOMAIN Tail(q) = 1..(Len(q) - 1)
        /\ \A k \in 1..(Len(q) - 1) : Tail(q)[k] = q[k + 1]
    BY <1>1
  <1>3. \A k \in 1..(Len(q) - 1) : k + 1 \in 1..Len(q)
    BY <1>1
  <1> QED
    BY <1>1, <1>2, <1>3

Busy == {w \in Worker : Held(w)}

\* The counter stays exact while the same workers are busy.
LEMMA CountStays ==
    ASSUME SessionInv, \A w \in Worker : Held(w)' <=> Held(w), UNCHANGED <<jobs, inflight>>
    PROVE  InflightIsExact'
  <1>1. {w \in Worker : worker[w].pc \notin {"idle", "exited"}}'
           = {w \in Worker : worker[w].pc \notin {"idle", "exited"}}
    BY DEF Held
  <1> QED
    BY <1>1 DEF SessionInv, InflightIsExact

\* The set of busy workers with one more or one less.
LEMMA BusyCounts ==
    ASSUME StdioAssumption, NEW w \in Worker, NEW A \in SUBSET Worker
    PROVE  /\ IsFiniteSet(A) /\ Cardinality(A) \in Nat /\ Cardinality(A) <= MaxInflight
           /\ w \in A => Cardinality(A) >= 1 /\ Cardinality(A \ {w}) = Cardinality(A) - 1
           /\ w \notin A => Cardinality(A \cup {w}) = Cardinality(A) + 1
  <1>1. IsFiniteSet(Worker) /\ IsFiniteSet(A) /\ Cardinality(A) <= Cardinality(Worker)
    BY FS_Subset DEF StdioAssumption
  <1>2. Cardinality(A) \in Nat
    BY <1>1, FS_CardinalityType
  <1>3. w \notin A => Cardinality(A \cup {w}) = Cardinality(A) + 1
    BY <1>1, FS_AddElement
  <1>4. w \in A => Cardinality(A \ {w}) = Cardinality(A) - 1
    BY <1>1, FS_RemoveElement
  <1>5. w \in A => Cardinality(A) >= 1
    <2>1. IsFiniteSet(A \ {w}) /\ Cardinality(A \ {w}) \in Nat
      BY <1>1, FS_Subset, FS_CardinalityType
    <2> QED
      BY <1>2, <1>4, <2>1
  <1> QED
    BY <1>1, <1>2, <1>3, <1>4, <1>5 DEF MaxInflight

\* The frames that have been read are frames, and a call of them has an id.
LEMMA Basics ==
    ASSUME StdioAssumption, SessionInv
    PROVE  /\ Current \in Nat /\ MaxFrames \in Nat /\ 1..Current \subseteq Frame /\ None \notin Frame
           /\ Current >= 1 => Current \in Frame /\ Current \in 1..Current
           /\ \A f \in 1..Current : IsCall(f) => IdOf(f) \in Id
           /\ worker \in [Worker -> WorkerRow] /\ frames \in Seq(FrameRow)
  <1>1. FrameInv /\ StdioTypeOK /\ MaxFrames \in Nat
    BY DEF SessionInv, StdioAssumption
  <1>2. Current \in Nat /\ Current <= MaxFrames
    BY <1>1 DEF FrameInv
  <1>3. 1..Current \subseteq Frame /\ None \notin Frame
    BY <1>1, <1>2 DEF Frame, None
  <1>4. Current >= 1 => Current \in 1..Current
    BY <1>2
  <1>5. \A f \in 1..Current : IsCall(f) => IdOf(f) \in Id
    BY <1>1 DEF FrameInv, IsCall, IdOf
  <1> QED
    BY <1>1, <1>2, <1>3, <1>4, <1>5 DEF StdioTypeOK, WorkerRow, FrameRow

-----------------------------------------------------------------------------
(* The reader.                                                             *)

\* End of input comes when the reader waits for nobody.
LEMMA ReadEofKeeps ==
    ASSUME StdioAssumption, SessionInv, ReadEof
    PROVE  SessionInv'
  <1>1. /\ StdioTypeOK /\ FrameInv /\ HeldInv /\ GateInv /\ AnswerInv /\ ActiveInv
        /\ DecidedInv /\ OutInv /\ MarkInv /\ CloseInv
        /\ NoSyntheticRefusal /\ NothingRunsUncancelled /\ InflightIsExact
    BY DEF SessionInv
  <1>2. /\ UNCHANGED <<frames, closed, jobs, inflight, signalled, active, cancelReq,
                       worker, answer, responses, written, writer>>
        /\ reader = "read" /\ reader' = "closing"
    BY DEF ReadEof, poolVars, callVars, outVars
  <1>3. StdioTypeOK'
    BY <1>1, <1>2, Basics DEF StdioTypeOK, ReaderPc, Current
  <1>4. FrameInv'
    BY <1>1, <1>2 DEF FrameInv, IsCall, Current
  <1>5. HeldInv'
    BY <1>1, <1>2 DEF HeldInv, Held, IsCall, Current
  <1>6. GateInv'
    BY <1>1, <1>2 DEF GateInv, Waiting, Current
  <1>7. AnswerInv'
    BY <1>1, <1>2 DEF AnswerInv, Current
  <1>8. ActiveInv'
    BY <1>1, <1>2 DEF ActiveInv, Registered, IdOf, Current
  <1>9. DecidedInv'
    BY <1>1, <1>2 DEF DecidedInv, Decided, IsCall, IdOf, Current
  <1>10. OutInv'
    BY <1>1, <1>2 DEF OutInv, Out, Queued, Held, Current
  <1>11. MarkInv'
    BY <1>1, <1>2 DEF MarkInv, Current
  <1>12. CloseInv'
    BY <1>1, <1>2 DEF CloseInv, Current
  <1>13. NoSyntheticRefusal'
    BY <1>1, <1>2 DEF NoSyntheticRefusal, Current
  <1>14. NothingRunsUncancelled'
    BY <1>1, <1>2 DEF NothingRunsUncancelled, WriterGone, Current
  <1>15. InflightIsExact'
    BY <1>2, CountStays DEF Held
  <1> QED
    BY <1>3, <1>4, <1>5, <1>6, <1>7, <1>8, <1>9, <1>10, <1>11, <1>12, <1>13, <1>14, <1>15 DEF SessionInv

\* The current call has passed the gate, or is decided.
LEMMA ActivatedKeeps ==
    ASSUME StdioAssumption, SessionInv, Activated
    PROVE  SessionInv'
  <1>1. /\ StdioTypeOK /\ FrameInv /\ HeldInv /\ GateInv /\ AnswerInv /\ ActiveInv
        /\ DecidedInv /\ OutInv /\ MarkInv /\ CloseInv
        /\ NoSyntheticRefusal /\ NothingRunsUncancelled /\ InflightIsExact
    BY DEF SessionInv
  <1>2. /\ UNCHANGED <<frames, closed, jobs, inflight, signalled, active, cancelReq,
                       worker, answer, responses, written, writer>>
        /\ reader = "await" /\ reader' = "read" /\ Current \in signalled
    BY DEF Activated, poolVars, callVars, outVars
  <1>3. StdioTypeOK'
    BY <1>1, <1>2, Basics DEF StdioTypeOK, ReaderPc, Current
  <1>4. FrameInv'
    BY <1>1, <1>2 DEF FrameInv, IsCall, Current
  <1>5. HeldInv'
    BY <1>1, <1>2 DEF HeldInv, Held, IsCall, Current
  <1>6. GateInv'
    BY <1>1, <1>2 DEF GateInv, Waiting, Current
  <1>7. AnswerInv'
    BY <1>1, <1>2 DEF AnswerInv, Current
  <1>8. ActiveInv'
    BY <1>1, <1>2 DEF ActiveInv, Registered, IdOf, Current
  <1>9. DecidedInv'
    BY <1>1, <1>2 DEF DecidedInv, Decided, IsCall, IdOf, Current
  <1>10. OutInv'
    BY <1>1, <1>2 DEF OutInv, Out, Queued, Held, Current
  <1>11. MarkInv'
    BY <1>1, <1>2 DEF MarkInv, Current
  <1>12. CloseInv'
    BY <1>1, <1>2 DEF CloseInv, Current
  <1>13. NoSyntheticRefusal'
    BY <1>1, <1>2 DEF NoSyntheticRefusal, Current
  <1>14. NothingRunsUncancelled'
    BY <1>1, <1>2 DEF NothingRunsUncancelled, WriterGone, Current
  <1>15. InflightIsExact'
    BY <1>2, CountStays DEF Held
  <1> QED
    BY <1>3, <1>4, <1>5, <1>6, <1>7, <1>8, <1>9, <1>10, <1>11, <1>12, <1>13, <1>14, <1>15 DEF SessionInv

\* No call is at the gate.
LEMMA CloseSessionKeeps ==
    ASSUME StdioAssumption, SessionInv, CloseSession
    PROVE  SessionInv'
  <1>1. /\ StdioTypeOK /\ FrameInv /\ HeldInv /\ GateInv /\ AnswerInv /\ ActiveInv
        /\ DecidedInv /\ OutInv /\ MarkInv /\ CloseInv
        /\ NoSyntheticRefusal /\ NothingRunsUncancelled /\ InflightIsExact
    BY DEF SessionInv
  <1>2. /\ UNCHANGED <<frames, jobs, inflight, signalled, active, cancelReq, worker,
                       answer, responses, written, writer>>
        /\ reader = "closing" /\ reader' = "cancelling" /\ closed' = TRUE
    BY DEF CloseSession, poolVars, callVars, outVars
  <1>3. StdioTypeOK'
    BY <1>1, <1>2, Basics DEF StdioTypeOK, ReaderPc, Current
  <1>4. FrameInv'
    BY <1>1, <1>2 DEF FrameInv, IsCall, Current
  <1>5. HeldInv'
    BY <1>1, <1>2 DEF HeldInv, Held, IsCall, Current
  <1>6. GateInv'
    BY <1>1, <1>2 DEF GateInv, Waiting, Current
  <1>7. AnswerInv'
    BY <1>1, <1>2 DEF AnswerInv, Current
  <1>8. ActiveInv'
    BY <1>1, <1>2 DEF ActiveInv, Registered, IdOf, Current
  <1>9. DecidedInv'
    BY <1>1, <1>2 DEF DecidedInv, Decided, IsCall, IdOf, Current
  <1>10. OutInv'
    BY <1>1, <1>2 DEF OutInv, Out, Queued, Held, Current
  <1>11. MarkInv'
    BY <1>1, <1>2 DEF MarkInv, Current
  <1>12. CloseInv'
    BY <1>1, <1>2 DEF CloseInv, Current
  <1>13. NoSyntheticRefusal'
    BY <1>1, <1>2 DEF NoSyntheticRefusal, Current
  <1>14. NothingRunsUncancelled'
    BY <1>1, <1>2 DEF NothingRunsUncancelled, CloseInv, WriterGone
  <1>15. InflightIsExact'
    BY <1>2, CountStays DEF Held
  <1> QED
    BY <1>3, <1>4, <1>5, <1>6, <1>7, <1>8, <1>9, <1>10, <1>11, <1>12, <1>13, <1>14, <1>15 DEF SessionInv

\* The workers and the writer are gone.
LEMMA JoinedKeeps ==
    ASSUME StdioAssumption, SessionInv, Joined
    PROVE  SessionInv'
  <1>1. /\ StdioTypeOK /\ FrameInv /\ HeldInv /\ GateInv /\ AnswerInv /\ ActiveInv
        /\ DecidedInv /\ OutInv /\ MarkInv /\ CloseInv
        /\ NoSyntheticRefusal /\ NothingRunsUncancelled /\ InflightIsExact
    BY DEF SessionInv
  <1>2. /\ UNCHANGED <<frames, closed, jobs, inflight, signalled, active, cancelReq,
                       worker, answer, responses, written, writer>>
        /\ reader = "join" /\ reader' = "done"
    BY DEF Joined, poolVars, callVars, outVars
  <1>3. StdioTypeOK'
    BY <1>1, <1>2, Basics DEF StdioTypeOK, ReaderPc, Current
  <1>4. FrameInv'
    BY <1>1, <1>2 DEF FrameInv, IsCall, Current
  <1>5. HeldInv'
    BY <1>1, <1>2 DEF HeldInv, Held, IsCall, Current
  <1>6. GateInv'
    BY <1>1, <1>2 DEF GateInv, Waiting, Current
  <1>7. AnswerInv'
    BY <1>1, <1>2 DEF AnswerInv, Current
  <1>8. ActiveInv'
    BY <1>1, <1>2 DEF ActiveInv, Registered, IdOf, Current
  <1>9. DecidedInv'
    BY <1>1, <1>2 DEF DecidedInv, Decided, IsCall, IdOf, Current
  <1>10. OutInv'
    BY <1>1, <1>2 DEF OutInv, Out, Queued, Held, Current
  <1>11. MarkInv'
    BY <1>1, <1>2 DEF MarkInv, Current
  <1>12. CloseInv'
    BY <1>1, <1>2 DEF CloseInv, Current
  <1>13. NoSyntheticRefusal'
    BY <1>1, <1>2 DEF NoSyntheticRefusal, Current
  <1>14. NothingRunsUncancelled'
    BY <1>1, <1>2 DEF NothingRunsUncancelled, WriterGone, Current
  <1>15. InflightIsExact'
    BY <1>2, CountStays DEF Held
  <1> QED
    BY <1>3, <1>4, <1>5, <1>6, <1>7, <1>8, <1>9, <1>10, <1>11, <1>12, <1>13, <1>14, <1>15 DEF SessionInv

\* A call over the limit is answered at once, and so is every other request.
LEMMA InlineKeeps ==
    ASSUME StdioAssumption, SessionInv, Refuse \/ HandleInline
    PROVE  SessionInv'
  <1>1. /\ StdioTypeOK /\ FrameInv /\ HeldInv /\ GateInv /\ AnswerInv /\ ActiveInv
        /\ DecidedInv /\ OutInv /\ MarkInv /\ CloseInv
        /\ NoSyntheticRefusal /\ NothingRunsUncancelled /\ InflightIsExact
    BY DEF SessionInv
  <1>2. /\ UNCHANGED <<frames, closed, jobs, inflight, signalled, active, cancelReq,
                       worker, responses, written, writer>>
        /\ reader = "dispatch" /\ reader' = "reply"
        /\ \E x \in {"busy", "reply"} : answer' = [answer EXCEPT ![Current] = x]
    BY DEF Refuse, HandleInline, poolVars, callVars, outVars
  <1>3. /\ answer' \in [Frame -> Outcome] /\ answer'[Current] \in {"busy", "reply"}
        /\ \A f \in Frame : f # Current => answer'[f] = answer[f]
        /\ Current \in Frame /\ Current \in 1..Current /\ 1..Current \subseteq Frame
    BY <1>1, <1>2, Basics DEF StdioTypeOK, Outcome, FrameInv
  <1>4. /\ jobs = <<>> /\ \A w \in Worker : ~Waiting(w)
        /\ \A w \in Worker : Held(w) => worker[w].frame # Current /\ worker[w].frame \in Frame
    BY <1>1, <1>2, <1>3 DEF HeldInv, GateInv
  <1>5. StdioTypeOK'
    BY <1>1, <1>2, <1>3 DEF StdioTypeOK, ReaderPc
  <1>6. FrameInv'
    BY <1>1, <1>2 DEF FrameInv, IsCall, Current
  <1>7. HeldInv'
    BY <1>1, <1>2 DEF HeldInv, Held, IsCall, Current
  <1>8. GateInv'
    BY <1>1, <1>2 DEF GateInv, Waiting, Current
  <1>9. AnswerInv'
    <2>1. \A f \in Frame : f > Current => answer'[f] = "none"
      BY <1>1, <1>3, Basics DEF AnswerInv, Frame
    <2>2. \A w \in Worker : Held(w) => answer'[worker[w].frame] = answer[worker[w].frame]
      BY <1>3, <1>4
    <2> QED
      BY <1>1, <1>2, <1>4, <2>1, <2>2 DEF AnswerInv, Held, Current
  <1>10. ActiveInv'
    BY <1>1, <1>2 DEF ActiveInv, Registered, IdOf, Current
  <1>11. DecidedInv'
    <2>1. \A f \in Frame : Decided(f) => Decided(f)'
      BY <1>2, <1>3 DEF Decided, IdOf
    <2>2. \A f \in Frame : f = Current => Decided(f)'
      BY <1>2, <1>3 DEF Decided
    <2>3. \A f \in 1..Current : f = Current \/ f \in 1..(Current - 1)
      BY Basics
    <2>4. signalled \subseteq Frame
      BY <1>1 DEF StdioTypeOK
    <2>5. \A f \in signalled : Decided(f)'
      BY <1>1, <2>1, <2>4 DEF DecidedInv
    <2>6. \A f \in 1..Current : IsCall(f) => Decided(f)'
      BY <1>1, <1>2, <1>3, <2>1, <2>2, <2>3 DEF DecidedInv
    <2> QED
      BY <1>2, <2>5, <2>6 DEF DecidedInv, IsCall, Current
  <1>12. OutInv'
    BY <1>1, <1>2 DEF OutInv, Out, Queued, Held, Current
  <1>13. MarkInv'
    BY <1>1, <1>2, <1>3 DEF MarkInv, StdioTypeOK
  <1>14. CloseInv'
    BY <1>1, <1>2 DEF CloseInv, Current
  <1>15. NoSyntheticRefusal'
    BY <1>1, <1>2, <1>3 DEF NoSyntheticRefusal
  <1>16. NothingRunsUncancelled'
    BY <1>1, <1>2 DEF NothingRunsUncancelled, WriterGone, Current
  <1>17. InflightIsExact'
    BY <1>2, CountStays DEF Held
  <1> QED
    BY <1>5, <1>6, <1>7, <1>8, <1>9, <1>10, <1>11, <1>12, <1>13, <1>14, <1>15, <1>16, <1>17 DEF SessionInv

\* A frame is read: it is the only one that is new.
LEMMA ReadFrameKeeps ==
    ASSUME StdioAssumption, SessionInv, NEW kind \in {"call", "cancel", "other"},
           NEW i \in Id \cup {None}, kind # "other" => i \in Id, ReadFrame(kind, i)
    PROVE  SessionInv'
  <1>1. /\ StdioTypeOK /\ FrameInv /\ HeldInv /\ GateInv /\ AnswerInv /\ ActiveInv
        /\ DecidedInv /\ OutInv /\ MarkInv /\ CloseInv
        /\ NoSyntheticRefusal /\ NothingRunsUncancelled /\ InflightIsExact
    BY DEF SessionInv
  <1>2. /\ UNCHANGED <<closed, jobs, inflight, signalled, active, cancelReq, worker, answer,
                       responses, written, writer>>
        /\ reader = "read" /\ reader' \in {"closing", "dispatch"} /\ Current < MaxFrames
        /\ frames' = Append(frames, [kind |-> kind, id |-> i])
    BY DEF ReadFrame, poolVars, callVars, outVars
  <1>3. /\ Current \in Nat /\ Current' = Current + 1 /\ frames' \in Seq(FrameRow)
        /\ frames'[Current + 1] = [kind |-> kind, id |-> i]
        /\ \A f \in 1..Current : frames'[f] = frames[f]
    <2>1. frames \in Seq(FrameRow) /\ [kind |-> kind, id |-> i] \in FrameRow
      BY Basics DEF FrameRow
    <2> QED
      BY <1>2, <2>1, QueueGrows DEF Current
  <1>4. /\ 1..Current \subseteq Frame /\ 1..Current \subseteq 1..(Current + 1)
        /\ Current + 1 \in Frame /\ Current + 1 \notin 1..Current
        /\ \A f \in 1..(Current + 1) : f = Current + 1 \/ f \in 1..Current
        /\ \A f \in 1..Current : IsCall(f) <=> IsCall(f)'
        /\ \A f \in 1..Current : IdOf(f)' = IdOf(f)
        /\ Current' - 1 = Current
    <2>1. /\ 1..Current \subseteq Frame /\ 1..Current \subseteq 1..(Current + 1)
          /\ Current + 1 \in Frame /\ Current + 1 \notin 1..Current
          /\ \A f \in 1..(Current + 1) : f = Current + 1 \/ f \in 1..Current
          /\ Current' - 1 = Current
      BY <1>2, <1>3, Basics DEF Frame
    <2> QED
      BY <1>3, <2>1 DEF IsCall, IdOf
  <1>5. jobs = <<>> /\ \A w \in Worker : ~Waiting(w)
    BY <1>1, <1>2 DEF GateInv
  <1>6. StdioTypeOK'
    BY <1>1, <1>2, <1>3 DEF StdioTypeOK, ReaderPc, FrameRow
  <1>7. FrameInv'
    <2>1. \A f \in 1..(Current + 1) : frames'[f].kind # "other" => frames'[f].id \in Id
      BY <1>1, <1>3, <1>4 DEF FrameInv
    <2>2. Current + 1 \in Nat /\ Current + 1 <= MaxFrames /\ Current + 1 >= 1
      BY <1>2, <1>3 DEF StdioAssumption
    <2> QED
      BY <1>2, <1>3, <2>1, <2>2 DEF FrameInv
  <1>8. HeldInv'
    BY <1>1, <1>2, <1>3, <1>4, <1>5 DEF HeldInv, Held
  <1>9. GateInv'
    BY <1>1, <1>2, <1>3, <1>4, <1>5 DEF GateInv, Waiting
  <1>10. AnswerInv'
    <2>1. answer[Current + 1] = "none"
      BY <1>1, <1>3, <1>4 DEF AnswerInv
    <2>2. \A f \in Frame : f > Current + 1 => f > Current
      BY <1>3 DEF Frame
    <2> QED
      BY <1>1, <1>2, <1>3, <1>5, <2>1, <2>2 DEF AnswerInv
  <1>11. ActiveInv'
    <2>1. \A w \in Worker : Registered(w) => worker[w].frame \in 1..Current
      BY <1>1 DEF HeldInv, Held, Registered
    <2> QED
      BY <1>1, <1>2, <1>4, <2>1 DEF ActiveInv, Registered
  <1>12. DecidedInv'
    <2>1. \A f \in 1..Current : Decided(f) <=> Decided(f)'
      BY <1>2, <1>4 DEF Decided
    <2>2. \A f \in signalled : Decided(f)'
      BY <1>1, <2>1 DEF DecidedInv, GateInv
    <2>3. \A f \in 1..Current : IsCall(f)' => Decided(f)'
      BY <1>1, <1>2, <1>4, <2>1 DEF DecidedInv
    <2> QED
      BY <1>2, <1>4, <2>2, <2>3 DEF DecidedInv
  <1>13. OutInv'
    <2>1. \A f \in Frame : Out(f)' <=> Out(f)
      BY <1>2 DEF Out, Queued
    <2>2. \A f \in Frame : Out(f) => f <= Current
      BY <1>1 DEF OutInv
    <2>3. ~(Current + 1 <= Current) /\ \A f \in Frame : f <= Current => f <= Current + 1
      BY <1>3 DEF Frame
    <2>4. ~Out(Current + 1)
      BY <1>4, <2>2, <2>3
    <2>5. ~Out(Current)'
      BY <1>2, <1>3, <2>4 DEF Out, Queued
    <2>6. \A w \in Worker : Held(w) => worker[w].frame \in Frame
      BY <1>1, <1>4 DEF HeldInv
    <2>7. \A w \in Worker : Held(w) /\ worker[w].pc # "release" => ~Out(worker[w].frame)
      BY <1>1 DEF OutInv
    <2>8. \A w \in Worker : (Held(w) /\ worker[w].pc # "release")' => ~Out(worker[w].frame)'
      BY <1>2, <2>7 DEF Out, Queued, Held
    <2>9. (writer.pc = "write" => writer.frame \in Frame)'
      BY <1>1, <1>2 DEF OutInv
    <2> QED
      BY <1>2, <1>3, <2>1, <2>2, <2>3, <2>5, <2>8, <2>9 DEF OutInv
  <1>14. MarkInv' /\ NoSyntheticRefusal'
    BY <1>1, <1>2 DEF MarkInv, NoSyntheticRefusal
  <1>15. CloseInv'
    BY <1>1, <1>2 DEF CloseInv
  <1>16. NothingRunsUncancelled'
    BY <1>1, <1>2 DEF NothingRunsUncancelled, WriterGone
  <1>17. InflightIsExact'
    BY <1>2, CountStays DEF Held
  <1> QED
    BY <1>6, <1>7, <1>8, <1>9, <1>10, <1>11, <1>12, <1>13, <1>14, <1>15, <1>16, <1>17
       DEF SessionInv

\* The calls that a cancellation finds are running or about to complete.
LEMMA MarksActive ==
    ASSUME StdioAssumption, SessionInv, NEW X \in SUBSET ActiveFrames,
           cancelReq' = cancelReq \cup X, UNCHANGED <<answer, worker>>
    PROVE  MarkInv' /\ cancelReq' \subseteq Frame
  <1>1. StdioTypeOK /\ ActiveInv /\ AnswerInv /\ MarkInv
    BY DEF SessionInv
  <1>2. ASSUME NEW f \in ActiveFrames, answer[f] = "ok"
        PROVE  \E w \in Worker : worker[w].pc = "complete" /\ worker[w].frame = f
    <2>1. PICK w \in Worker : Registered(w) /\ worker[w].frame = f
      BY <1>1 DEF ActiveFrames, ActiveInv
    <2> QED
      BY <1>1, <1>2, <2>1 DEF AnswerInv, Registered
  <1>3. ActiveFrames \subseteq Frame
    BY <1>1 DEF ActiveFrames, StdioTypeOK
  <1> QED
    BY <1>1, <1>2, <1>3 DEF MarkInv, StdioTypeOK

\* A call that runs is found.
LEMMA RunsAreActive ==
    ASSUME StdioAssumption, SessionInv, NEW w \in Worker, Registered(w)
    PROVE  worker[w].frame \in ActiveFrames
  <1>1. ActiveInv /\ HeldInv /\ Held(w)
    BY DEF SessionInv, Held, Registered
  <1>2. worker[w].frame \in 1..Current /\ IsCall(worker[w].frame)
    BY <1>1 DEF HeldInv
  <1>3. IdOf(worker[w].frame) \in Id /\ worker[w].frame # None
    BY <1>2, Basics
  <1> QED
    BY <1>1, <1>3 DEF ActiveFrames, ActiveInv

\* A cancellation marks the call that is registered for its id.
LEMMA HandleCancelKeeps ==
    ASSUME StdioAssumption, SessionInv, HandleCancel
    PROVE  SessionInv'
  <1>1. /\ StdioTypeOK /\ FrameInv /\ HeldInv /\ GateInv /\ AnswerInv /\ ActiveInv
        /\ DecidedInv /\ OutInv /\ MarkInv /\ CloseInv
        /\ NoSyntheticRefusal /\ NothingRunsUncancelled /\ InflightIsExact
    BY DEF SessionInv
  <1>2. /\ UNCHANGED <<frames, closed, jobs, inflight, signalled, active, worker,
                       answer, responses, written, writer>>
        /\ reader = "dispatch" /\ reader' = "read" /\ frames[Current].kind = "cancel"
        /\ \E X \in {{}, {active[IdOf(Current)]} \ {None}} : cancelReq' = cancelReq \cup X
    BY DEF HandleCancel, poolVars, callVars, outVars
  <1>3. MarkInv' /\ cancelReq' \subseteq Frame
    <2>1. Current \in 1..Current
      BY <1>1, <1>2, Basics DEF FrameInv
    <2>2. IdOf(Current) \in Id
      BY <1>1, <1>2, <2>1 DEF FrameInv, IdOf
    <2>3. {active[IdOf(Current)]} \ {None} \in SUBSET ActiveFrames
      BY <2>2 DEF ActiveFrames
    <2>4. \E X \in SUBSET ActiveFrames : cancelReq' = cancelReq \cup X
      BY <1>2, <2>3
    <2> QED
      BY <1>2, <2>4, MarksActive
  <1>4. StdioTypeOK'
    BY <1>1, <1>2, <1>3 DEF StdioTypeOK, ReaderPc
  <1>5. FrameInv'
    BY <1>1, <1>2 DEF FrameInv, IsCall, Current
  <1>6. HeldInv'
    BY <1>1, <1>2 DEF HeldInv, Held, IsCall, Current
  <1>7. GateInv'
    BY <1>1, <1>2 DEF GateInv, Waiting, Current
  <1>8. AnswerInv'
    BY <1>1, <1>2 DEF AnswerInv, Current
  <1>9. ActiveInv'
    BY <1>1, <1>2 DEF ActiveInv, Registered, IdOf, Current
  <1>10. DecidedInv'
    <2>1. \A f \in 1..Current : f = Current \/ f \in 1..(Current - 1)
      BY Basics
    <2>2. ~IsCall(Current)
      BY <1>2 DEF IsCall
    <2>3. \A f \in 1..Current : IsCall(f) => Decided(f)
      BY <1>1, <1>2, <2>1, <2>2 DEF DecidedInv
    <2> QED
      BY <1>1, <1>2, <2>3 DEF DecidedInv, Decided, IsCall, IdOf, Current
  <1>11. OutInv'
    BY <1>1, <1>2 DEF OutInv, Out, Queued, Held, Current
  <1>12. MarkInv'
    BY <1>3
  <1>13. CloseInv'
    BY <1>1, <1>2 DEF CloseInv, Current
  <1>14. NoSyntheticRefusal'
    BY <1>1, <1>2 DEF NoSyntheticRefusal, Current
  <1>15. NothingRunsUncancelled'
    BY <1>1, <1>2 DEF NothingRunsUncancelled, WriterGone, Current
  <1>16. InflightIsExact'
    BY <1>2, CountStays DEF Held
  <1> QED
    BY <1>4, <1>5, <1>6, <1>7, <1>8, <1>9, <1>10, <1>11, <1>12, <1>13, <1>14, <1>15, <1>16 DEF SessionInv

\* The end of the session marks every call that runs.
LEMMA ReaderCancelsKeeps ==
    ASSUME StdioAssumption, SessionInv, ReaderCancels
    PROVE  SessionInv'
  <1>1. /\ StdioTypeOK /\ FrameInv /\ HeldInv /\ GateInv /\ AnswerInv /\ ActiveInv
        /\ DecidedInv /\ OutInv /\ MarkInv /\ CloseInv
        /\ NoSyntheticRefusal /\ NothingRunsUncancelled /\ InflightIsExact
    BY DEF SessionInv
  <1>2. /\ UNCHANGED <<frames, closed, jobs, inflight, signalled, active, worker,
                       answer, responses, written, writer>>
        /\ reader = "cancelling" /\ reader' = "join" /\ cancelReq' = cancelReq \cup ActiveFrames
    BY DEF ReaderCancels, poolVars, callVars, outVars
  <1>3. MarkInv' /\ cancelReq' \subseteq Frame
    BY <1>2, MarksActive
  <1>4. StdioTypeOK'
    BY <1>1, <1>2, <1>3 DEF StdioTypeOK, ReaderPc
  <1>5. FrameInv'
    BY <1>1, <1>2 DEF FrameInv, IsCall, Current
  <1>6. HeldInv'
    BY <1>1, <1>2 DEF HeldInv, Held, IsCall, Current
  <1>7. GateInv'
    BY <1>1, <1>2 DEF GateInv, Waiting, Current
  <1>8. AnswerInv'
    BY <1>1, <1>2 DEF AnswerInv, Current
  <1>9. ActiveInv'
    BY <1>1, <1>2 DEF ActiveInv, Registered, IdOf, Current
  <1>10. DecidedInv'
    BY <1>1, <1>2 DEF DecidedInv, Decided, IsCall, IdOf, Current
  <1>11. OutInv'
    BY <1>1, <1>2 DEF OutInv, Out, Queued, Held, Current
  <1>12. MarkInv'
    BY <1>3
  <1>13. CloseInv'
    BY <1>1, <1>2 DEF CloseInv, Current
  <1>14. NoSyntheticRefusal'
    BY <1>1, <1>2 DEF NoSyntheticRefusal, Current
  <1>15. NothingRunsUncancelled'
    <2>1. \A w \in Worker : worker[w].pc = "run" => worker[w].frame \in ActiveFrames
      BY RunsAreActive DEF Registered
    <2> QED
      BY <1>2, <2>1 DEF NothingRunsUncancelled
  <1>16. InflightIsExact'
    BY <1>2, CountStays DEF Held
  <1> QED
    BY <1>4, <1>5, <1>6, <1>7, <1>8, <1>9, <1>10, <1>11, <1>12, <1>13, <1>14, <1>15, <1>16 DEF SessionInv

\* A call is queued: nothing else is, and no worker is before its gate.
LEMMA AdmitKeeps ==
    ASSUME StdioAssumption, SessionInv, Admit
    PROVE  SessionInv'
  <1>1. /\ StdioTypeOK /\ FrameInv /\ HeldInv /\ GateInv /\ AnswerInv /\ ActiveInv
        /\ DecidedInv /\ OutInv /\ MarkInv /\ CloseInv
        /\ NoSyntheticRefusal /\ NothingRunsUncancelled /\ InflightIsExact
    BY DEF SessionInv
  <1>2. /\ UNCHANGED <<frames, closed, signalled, active, cancelReq, worker, answer,
                       responses, written, writer>>
        /\ reader = "dispatch" /\ reader' = "await" /\ IsCall(Current) /\ inflight < MaxInflight
        /\ inflight' = inflight + 1 /\ jobs' = Append(jobs, Current)
    BY DEF Admit, poolVars, callVars, outVars
  <1>3. Current \in Frame /\ jobs = <<>> /\ \A w \in Worker : ~Waiting(w)
    BY <1>1, <1>2, Basics DEF FrameInv, GateInv
  <1>4. jobs' = <<Current>> /\ jobs' \in Seq(Frame) /\ Len(jobs') = 1 /\ Len(jobs) = 0 /\ jobs' # <<>>
    BY <1>2, <1>3
  <1>5. StdioTypeOK'
    <2>1. inflight' \in 0..MaxInflight
      <3>1. MaxInflight \in Nat
        BY FS_CardinalityType DEF StdioAssumption, MaxInflight
      <3> QED
        BY <1>1, <1>2, <3>1 DEF StdioTypeOK
    <2> QED
      BY <1>1, <1>2, <1>4, <2>1 DEF StdioTypeOK, ReaderPc
  <1>6. FrameInv'
    BY <1>1, <1>2 DEF FrameInv, IsCall, Current
  <1>7. HeldInv'
    BY <1>1, <1>2 DEF HeldInv, Held, IsCall, Current
  <1>8. GateInv'
    BY <1>1, <1>2, <1>3, <1>4 DEF GateInv, Waiting, Current
  <1>9. AnswerInv'
    BY <1>1, <1>2 DEF AnswerInv, Current
  <1>10. ActiveInv'
    BY <1>1, <1>2 DEF ActiveInv, Registered, IdOf, Current
  <1>11. DecidedInv'
    BY <1>1, <1>2 DEF DecidedInv, Decided, IsCall, IdOf, Current
  <1>12. OutInv'
    BY <1>1, <1>2 DEF OutInv, Out, Queued, Held, Current
  <1>13. MarkInv'
    BY <1>1, <1>2 DEF MarkInv, Current
  <1>14. CloseInv'
    BY <1>1, <1>2 DEF CloseInv, Current
  <1>15. NoSyntheticRefusal'
    BY <1>1, <1>2 DEF NoSyntheticRefusal, Current
  <1>16. NothingRunsUncancelled'
    BY <1>1, <1>2 DEF NothingRunsUncancelled, WriterGone, Current
  <1>17. InflightIsExact'
    <2> DEFINE B == {w \in Worker : worker[w].pc \notin {"idle", "exited"}}
    <2>1. inflight = Len(jobs) + Cardinality(B) /\ Cardinality(B)' = Cardinality(B)
      BY <1>1, <1>2 DEF InflightIsExact
    <2>2. Cardinality(B) \in Nat
      <3>1. B \in SUBSET Worker /\ IsFiniteSet(Worker)
        BY DEF StdioAssumption
      <3> QED
        BY <3>1, FS_Subset, FS_CardinalityType
    <2>3. inflight' = 1 + Cardinality(B)
      BY <1>2, <1>4, <2>1, <2>2
    <2> QED
      BY <1>4, <2>1, <2>3 DEF InflightIsExact
  <1> QED
    BY <1>5, <1>6, <1>7, <1>8, <1>9, <1>10, <1>11, <1>12, <1>13, <1>14, <1>15, <1>16, <1>17 DEF SessionInv

-----------------------------------------------------------------------------
(* Responses.                                                              *)

\* A step that only moves responses: what is out is known, and no frame that is
\* still held goes out.
LEMMA ResponsesMove ==
    ASSUME StdioAssumption, SessionInv,
           UNCHANGED <<frames, jobs, inflight, signalled, active, worker, answer>>,
           reader' \in ReaderPc, closed' \in BOOLEAN, responses' \in Seq(Frame),
           Len(responses') <= QueueRoom, written' \subseteq Frame,
           writer' \in [pc : {"recv", "write", "failing", "gone"}, frame : Frame \cup {None}],
           \/ reader' = reader
           \/ reader = "reply" /\ reader' \in {"read", "closing"},
           \A f \in Frame : Out(f)' => Out(f) \/ (f = Current /\ reader = "reply" /\ reader' = "read"),
           cancelReq' \subseteq Frame, MarkInv', CloseInv', NothingRunsUncancelled',
           writer.pc \in {"failing", "gone"} => writer'.pc \in {"failing", "gone"},
           writer'.pc = "write" => writer'.frame \in Frame
    PROVE  SessionInv'
  <1>1. /\ StdioTypeOK /\ FrameInv /\ HeldInv /\ GateInv /\ AnswerInv /\ ActiveInv
        /\ DecidedInv /\ OutInv /\ MarkInv /\ CloseInv
        /\ NoSyntheticRefusal /\ NothingRunsUncancelled /\ InflightIsExact
    BY DEF SessionInv
  <1>2. StdioTypeOK' /\ FrameInv'
    BY <1>1 DEF StdioTypeOK, FrameInv, IsCall, Current
  <1>3. HeldInv' /\ GateInv'
    BY <1>1 DEF HeldInv, GateInv, Held, Waiting, IsCall, Current
  <1>4. AnswerInv' /\ ActiveInv'
    BY <1>1 DEF AnswerInv, ActiveInv, Registered, IdOf, Current
  <1>5. DecidedInv'
    BY <1>1 DEF DecidedInv, Decided, IsCall, IdOf, Current
  <1>6. OutInv'
    <2>1. \A f \in Frame : Out(f)' => f <= Current
      <3>1. Current <= Current
        BY Basics
      <3> QED
        BY <1>1, <3>1 DEF OutInv
    <2>2. Current \in Frame /\ (reader \in {"dispatch", "reply"} \/ jobs # <<>>)
             /\ ~(reader = "reply" /\ reader' = "read") => \A f \in Frame : f = Current => ~Out(f)'
      BY <1>1 DEF OutInv
    <2>3. reader' \in {"dispatch", "reply"} \/ jobs # <<>> =>
             reader = reader' /\ Current \in Frame /\ (reader \in {"dispatch", "reply"} \/ jobs # <<>>)
      BY <1>1, Basics DEF FrameInv, GateInv
    <2>4. reader' \in {"dispatch", "reply"} \/ jobs # <<>> => \A f \in Frame : f = Current => ~Out(f)'
      BY <2>2, <2>3
    <2>5. \A w \in Worker : Held(w) => worker[w].frame \in Frame
      BY <1>1, Basics DEF HeldInv
    <2>6. \A w \in Worker : Held(w) /\ reader = "reply" => worker[w].frame # Current
      BY <1>1 DEF HeldInv
    <2>7. ASSUME NEW w \in Worker, Held(w), worker[w].pc # "release"
          PROVE  \A f \in Frame : f = worker[w].frame => ~Out(f)'
      BY <1>1, <2>5, <2>6, <2>7 DEF OutInv
    <2>8. Current' = Current
      BY DEF Current
    <2>9. reader' \in {"dispatch", "reply"} \/ jobs' # <<>> => ~Out(Current)'
      BY <2>3, <2>4, <2>8 DEF Out, Queued
    <2>10. \A w \in Worker : (Held(w) /\ worker[w].pc # "release")' => ~Out(worker[w].frame)'
      BY <2>5, <2>7 DEF Held, Out, Queued
    <2> QED
      BY <2>1, <2>8, <2>9, <2>10 DEF OutInv
  <1>7. NoSyntheticRefusal'
    BY <1>1 DEF NoSyntheticRefusal
  <1>8. InflightIsExact'
    BY CountStays DEF Held
  <1> QED
    BY <1>2, <1>3, <1>4, <1>5, <1>6, <1>7, <1>8 DEF SessionInv

\* The reader's own answer is queued, or the writer is gone.
LEMMA EnqueueReplyKeeps ==
    ASSUME StdioAssumption, SessionInv, EnqueueReply
    PROVE  SessionInv'
  <1>1. StdioTypeOK /\ FrameInv /\ MarkInv /\ CloseInv /\ NothingRunsUncancelled
    BY DEF SessionInv
  <1>2. /\ UNCHANGED <<frames, closed, jobs, inflight, signalled, active, cancelReq, worker,
                       answer, written, writer>>
        /\ reader = "reply"
        /\ \/ /\ Len(responses) < QueueRoom /\ responses' = Append(responses, Current)
              /\ reader' = "read"
           \/ reader' = "closing" /\ UNCHANGED responses
    BY DEF EnqueueReply, poolVars, callVars
  <1>3. Current \in Frame /\ responses \in Seq(Frame)
    BY <1>1, <1>2, Basics DEF FrameInv, StdioTypeOK
  <1>4. /\ Append(responses, Current) \in Seq(Frame) /\ Len(responses) \in Nat
        /\ Len(Append(responses, Current)) = Len(responses) + 1
        /\ \A f : (\E k \in DOMAIN Append(responses, Current) : Append(responses, Current)[k] = f)
                     <=> f = Current \/ Queued(f)
    BY <1>3, QueueGrows DEF Queued
  <1>5. responses' \in Seq(Frame) /\ Len(responses') <= QueueRoom
    <2>1. QueueRoom \in Nat /\ Len(responses) <= QueueRoom
      BY <1>1 DEF StdioTypeOK, StdioAssumption
    <2>2. CASE Len(responses) < QueueRoom /\ responses' = Append(responses, Current)
      BY <1>4, <2>1, <2>2
    <2> QED
      BY <1>2, <1>3, <2>1, <2>2
  <1>6. \A f \in Frame : Out(f)' => Out(f) \/ (f = Current /\ reader = "reply" /\ reader' = "read")
    <2>1. ASSUME NEW f \in Frame PROVE Queued(f)' => Queued(f) \/ (f = Current /\ reader' = "read")
      BY <1>2, <1>4 DEF Queued
    <2> QED
      BY <1>2, <2>1 DEF Out
  <1>7. reader' \in ReaderPc /\ MarkInv' /\ CloseInv' /\ NothingRunsUncancelled'
    BY <1>1, <1>2 DEF ReaderPc, MarkInv, CloseInv, NothingRunsUncancelled, WriterGone
  <1>8. writer'.pc = "write" => writer'.frame \in Frame
    BY <1>2 DEF SessionInv, OutInv
  <1>9. /\ closed' \in BOOLEAN /\ written' \subseteq Frame /\ cancelReq' \subseteq Frame
        /\ writer' \in [pc : {"recv", "write", "failing", "gone"}, frame : Frame \cup {None}]
    BY <1>1, <1>2 DEF StdioTypeOK
  <1> QED
    BY <1>2, <1>5, <1>6, <1>7, <1>8, <1>9, ResponsesMove

\* The writer takes a response and writes it.
LEMMA WriterMovesKeep ==
    ASSUME StdioAssumption, SessionInv, WriterTake \/ WriterWrite \/ WriterFail
    PROVE  SessionInv'
  <1>1. StdioTypeOK /\ FrameInv /\ MarkInv /\ CloseInv /\ NothingRunsUncancelled
    BY DEF SessionInv
  <1>2. /\ UNCHANGED <<frames, reader, jobs, inflight, signalled, active, cancelReq, worker, answer>>
        /\ writer.pc \in {"recv", "write"} /\ writer'.pc # "gone"
    <2>1. CASE WriterTake
      BY <2>1 DEF WriterTake, poolVars, callVars
    <2>2. CASE WriterWrite
      BY <2>2 DEF WriterWrite, poolVars, callVars
    <2>3. CASE WriterFail
      BY <2>3 DEF WriterFail, poolVars, callVars
    <2> QED
      BY <2>1, <2>2, <2>3
  <1>3. reader' \in ReaderPc /\ cancelReq' \subseteq Frame /\ closed' \in BOOLEAN
    <2>1. UNCHANGED closed \/ closed' = TRUE
      BY DEF WriterTake, WriterWrite, WriterFail
    <2> QED
      BY <1>1, <1>2, <2>1 DEF StdioTypeOK
  <1>4. MarkInv' /\ NothingRunsUncancelled'
    BY <1>1, <1>2 DEF MarkInv, NothingRunsUncancelled, WriterGone
  <1>5. CASE WriterTake
    <2>1. /\ responses # <<>> /\ responses \in Seq(Frame) /\ responses' = Tail(responses)
          /\ writer' = [pc |-> "write", frame |-> Head(responses)] /\ UNCHANGED <<closed, written>>
      BY <1>1, <1>5 DEF WriterTake, StdioTypeOK
    <2>2. /\ Head(responses) \in Frame /\ responses' \in Seq(Frame)
          /\ Len(responses') = Len(responses) - 1 /\ Len(responses) \in Nat
          /\ Queued(Head(responses)) /\ \A f \in Frame : Queued(f)' => Queued(f)
      BY <2>1, QueueShrinks DEF Queued
    <2>3. Len(responses') <= QueueRoom
      BY <1>1, <2>2 DEF StdioTypeOK, StdioAssumption
    <2>4. \A f \in Frame : Out(f)' => Out(f)
      BY <2>1, <2>2 DEF Out
    <2>5. /\ writer' \in [pc : {"recv", "write", "failing", "gone"}, frame : Frame \cup {None}]
          /\ written' \subseteq Frame /\ CloseInv'
      BY <1>1, <1>2, <1>5, <2>1, <2>2 DEF StdioTypeOK, CloseInv, WriterTake
    <2>6. writer'.pc = "write" => writer'.frame \in Frame
      BY <2>1, <2>2
    <2> QED
      BY <1>2, <1>3, <1>4, <2>2, <2>3, <2>4, <2>5, <2>6, ResponsesMove
  <1>6. CASE WriterWrite
    <2>1. /\ writer.pc = "write" /\ written' = written \cup {writer.frame}
          /\ writer' = [pc |-> "recv", frame |-> None] /\ UNCHANGED <<closed, responses>>
      BY <1>6 DEF WriterWrite
    <2>2. \A f \in Frame : Out(f)' => Out(f)
      BY <2>1 DEF Out, Queued
    <2>3. /\ writer' \in [pc : {"recv", "write", "failing", "gone"}, frame : Frame \cup {None}]
          /\ responses' \in Seq(Frame) /\ Len(responses') <= QueueRoom /\ CloseInv'
      BY <1>1, <1>2, <2>1 DEF StdioTypeOK, CloseInv
    <2>4. written' \subseteq Frame
      <3>1. writer.frame \in Frame
        BY <2>1 DEF SessionInv, OutInv
      <3> QED
        BY <1>1, <2>1, <3>1 DEF StdioTypeOK
    <2>5. writer'.pc # "write"
      BY <2>1
    <2> QED
      BY <1>2, <1>3, <1>4, <2>2, <2>3, <2>4, <2>5, ResponsesMove
  <1>7. CASE WriterFail
    <2>1. /\ closed' = TRUE /\ writer' = [pc |-> "failing", frame |-> None]
          /\ UNCHANGED <<responses, written>>
      BY <1>7 DEF WriterFail
    <2>2. \A f \in Frame : Out(f)' => Out(f)
      BY <2>1 DEF Out, Queued
    <2>3. /\ writer' \in [pc : {"recv", "write", "failing", "gone"}, frame : Frame \cup {None}]
          /\ responses' \in Seq(Frame) /\ Len(responses') <= QueueRoom /\ written' \subseteq Frame
          /\ CloseInv'
      BY <1>1, <2>1 DEF StdioTypeOK, CloseInv
    <2>4. writer'.pc # "write"
      BY <2>1
    <2> QED
      BY <1>2, <1>3, <1>4, <2>2, <2>3, <2>4, ResponsesMove
  <1> QED
    BY <1>5, <1>6, <1>7

\* The writer leaves: a failed one marks the calls that run, and another one goes
\* when every worker has.
LEMMA WriterLeavesKeep ==
    ASSUME StdioAssumption, SessionInv, WriterCancels \/ WriterExit
    PROVE  SessionInv'
  <1>1. StdioTypeOK /\ FrameInv /\ MarkInv /\ CloseInv /\ NothingRunsUncancelled
    BY DEF SessionInv
  <1>2. /\ UNCHANGED <<frames, reader, closed, jobs, inflight, signalled, active, worker, answer,
                       written>>
        /\ writer' = [pc |-> "gone", frame |-> None] /\ responses' = <<>>
    BY DEF WriterCancels, WriterExit, poolVars, callVars
  <1>3. /\ MarkInv' /\ cancelReq' \subseteq Frame /\ NothingRunsUncancelled' /\ CloseInv'
    <2>1. CASE WriterCancels
      <3>1. writer.pc = "failing" /\ cancelReq' = cancelReq \cup ActiveFrames
        BY <2>1 DEF WriterCancels
      <3>2. \A w \in Worker : worker[w].pc = "run" => worker[w].frame \in ActiveFrames
        BY RunsAreActive DEF Registered
      <3>3. NothingRunsUncancelled' /\ CloseInv'
        BY <1>1, <1>2, <3>1, <3>2 DEF NothingRunsUncancelled, CloseInv
      <3> QED
        BY <1>2, <3>1, <3>3, MarksActive
    <2>2. CASE WriterExit
      <3>1. reader = "join" /\ UNCHANGED cancelReq
        BY <2>2 DEF WriterExit, callVars
      <3> QED
        BY <1>1, <1>2, <3>1 DEF MarkInv, StdioTypeOK, NothingRunsUncancelled, CloseInv
    <2> QED
      BY <2>1, <2>2
  <1>4. responses' \in Seq(Frame) /\ Len(responses') <= QueueRoom
    <2>1. <<>> \in Seq(Frame) /\ Len(<<>>) = 0
      OBVIOUS
    <2> QED
      BY <1>2, <2>1 DEF StdioAssumption
  <1>5. \A f \in Frame : Out(f)' => Out(f)
    <2>1. \A f \in Frame : ~Queued(f)'
      BY <1>2 DEF Queued
    <2> QED
      BY <1>2, <2>1 DEF Out
  <1>6. /\ writer' \in [pc : {"recv", "write", "failing", "gone"}, frame : Frame \cup {None}]
        /\ reader' \in ReaderPc /\ closed' \in BOOLEAN /\ written' \subseteq Frame
    BY <1>1, <1>2 DEF StdioTypeOK
  <1> QED
    BY <1>2, <1>3, <1>4, <1>5, <1>6, ResponsesMove

-----------------------------------------------------------------------------
(* A worker.                                                               *)

\* A worker that holds a call moves on with it: the call is its own.
LEMMA HeldMoves ==
    ASSUME StdioAssumption, SessionInv, NEW w \in Worker, Held(w),
           NEW p \in WorkerPc \ {"idle", "exited"}, Goto(w, p),
           UNCHANGED <<frames, reader, closed, jobs, inflight, writer>>
    PROVE  /\ worker \in [Worker -> WorkerRow] /\ worker' \in [Worker -> WorkerRow]
           /\ worker'[w].pc = p /\ worker'[w].frame = worker[w].frame
           /\ \A v \in Worker : v # w => worker'[v] = worker[v]
           /\ worker[w].frame \in Frame /\ worker[w].frame \in 1..Current
           /\ IsCall(worker[w].frame) /\ IdOf(worker[w].frame) \in Id
           /\ \A v \in Worker : v # w /\ Held(v) => worker[v].frame # worker[w].frame
           /\ worker[w].frame = Current => reader \notin {"dispatch", "reply"} /\ jobs = <<>>
           /\ FrameInv' /\ HeldInv' /\ CloseInv' /\ InflightIsExact'
  <1>1. FrameInv /\ HeldInv /\ CloseInv
    BY DEF SessionInv
  <1>2. worker \in [Worker -> WorkerRow]
    BY Basics
  <1>3. /\ worker' \in [Worker -> WorkerRow] /\ worker'[w].pc = p
        /\ worker'[w].frame = worker[w].frame /\ \A v \in Worker : v # w => worker'[v] = worker[v]
    BY <1>2 DEF Goto, WorkerRow
  <1>4. /\ worker[w].frame \in Frame /\ worker[w].frame \in 1..Current
        /\ IsCall(worker[w].frame) /\ IdOf(worker[w].frame) \in Id
    BY <1>1, Basics DEF HeldInv
  <1>5. /\ \A v \in Worker : v # w /\ Held(v) => worker[v].frame # worker[w].frame
        /\ worker[w].frame = Current => reader \notin {"dispatch", "reply"} /\ jobs = <<>>
    BY <1>1 DEF HeldInv
  <1>6. FrameInv' /\ CloseInv'
    BY <1>1 DEF FrameInv, CloseInv, IsCall, Current
  <1>7. \A v \in Worker : (Held(v)' <=> Held(v)) /\ worker'[v].frame = worker[v].frame
    BY <1>3 DEF Held
  <1>8. HeldInv'
    BY <1>1, <1>7 DEF HeldInv, IsCall, Current
  <1>9. InflightIsExact'
    BY <1>7, CountStays
  <1> QED
    BY <1>2, <1>3, <1>4, <1>5, <1>6, <1>8, <1>9

\* No response leaves with it.
LEMMA NothingSent ==
    ASSUME StdioAssumption, SessionInv, NEW w \in Worker, Held(w), worker[w].pc # "release",
           NEW p \in WorkerPc \ {"idle", "exited"}, Goto(w, p),
           UNCHANGED <<frames, reader, closed, jobs, inflight, writer, responses, written>>
    PROVE  OutInv'
  <1>1. OutInv
    BY DEF SessionInv
  <1>2. \A v \in Worker : /\ worker'[v].frame = worker[v].frame
                          /\ (Held(v) /\ worker[v].pc # "release")' => Held(v) /\ worker[v].pc # "release"
    BY HeldMoves DEF Held
  <1> QED
    BY <1>1, <1>2 DEF OutInv, Out, Queued, Current

\* A worker that leaves the gate, or fails before it, releases the reader.
LEMMA GateOpens ==
    ASSUME StdioAssumption, SessionInv, NEW w \in Worker, Waiting(w),
           NEW p \in WorkerPc \ {"idle", "exited", "register", "gate"}, Goto(w, p),
           UNCHANGED <<frames, reader, closed, jobs, inflight, writer>>,
           signalled' = signalled \cup {worker[w].frame}
    PROVE  /\ GateInv' /\ worker[w].frame = Current /\ reader = "await" /\ jobs = <<>>
           /\ \A v \in Worker : v # w => ~Waiting(v)
  <1>1. GateInv /\ Held(w)
    BY DEF SessionInv, Waiting, Held
  <1>2. worker[w].frame = Current /\ reader = "await"
    BY <1>1 DEF GateInv
  <1>3. /\ jobs = <<>> /\ Current \in 1..Current /\ worker'[w].pc = p
        /\ \A v \in Worker : v # w => worker'[v] = worker[v]
        /\ \A v \in Worker : v # w /\ Held(v) => worker[v].frame # worker[w].frame
    BY <1>1, <1>2, HeldMoves
  <1>4. \A v \in Worker : v # w => ~Waiting(v)
    BY <1>1, <1>2, <1>3 DEF GateInv, Waiting, Held
  <1>5. \A v \in Worker : ~Waiting(v)'
    BY <1>3, <1>4 DEF Waiting
  <1>6. GateInv'
    BY <1>1, <1>2, <1>3, <1>5 DEF GateInv, Current
  <1> QED
    BY <1>2, <1>3, <1>4, <1>6

\* What was decided stays decided, and so is what is signalled.
LEMMA DecidedStays ==
    ASSUME StdioAssumption, SessionInv, UNCHANGED <<frames, reader>>,
           \A g \in Frame : Decided(g) => Decided(g)',
           \A g \in signalled' : g \in signalled \/ (g \in Frame /\ Decided(g)')
    PROVE  DecidedInv'
  <1>1. DecidedInv /\ signalled \subseteq Frame
    BY DEF SessionInv, StdioTypeOK
  <1>2. Current \in Nat /\ 1..Current \subseteq Frame /\ 1..(Current - 1) \subseteq Frame
    <2>1. Current \in Nat /\ 1..Current \subseteq Frame
      BY Basics
    <2>2. 1..(Current - 1) \subseteq 1..Current
      BY <2>1
    <2> QED
      BY <2>1, <2>2
  <1>3. \A g \in signalled' : Decided(g)'
    BY <1>1 DEF DecidedInv
  <1>4. Current' = Current /\ \A g \in 1..Current : IsCall(g)' <=> IsCall(g)
    BY DEF Current, IsCall
  <1>5. (reader \in {"read", "reply"} => \A g \in 1..Current : IsCall(g) => Decided(g))'
    BY <1>1, <1>2, <1>4 DEF DecidedInv
  <1>6. (reader \in {"dispatch", "await"} => \A g \in 1..(Current - 1) : IsCall(g) => Decided(g))'
    BY <1>1, <1>2, <1>4 DEF DecidedInv, IsCall
  <1> QED
    BY <1>3, <1>5, <1>6 DEF DecidedInv

\* A call that fails before it is registered.
LEMMA RejectKeeps ==
    ASSUME StdioAssumption, SessionInv, NEW w \in Worker, Reject(w)
    PROVE  SessionInv'
  <1> DEFINE f == worker[w].frame
  <1>1. /\ StdioTypeOK /\ FrameInv /\ HeldInv /\ GateInv /\ AnswerInv /\ ActiveInv
        /\ DecidedInv /\ OutInv /\ MarkInv /\ CloseInv
        /\ NoSyntheticRefusal /\ NothingRunsUncancelled /\ InflightIsExact
    BY DEF SessionInv
  <1>2. /\ UNCHANGED <<frames, reader, closed, jobs, inflight, active, cancelReq,
                       responses, written, writer>>
        /\ worker[w].pc = "register" /\ Goto(w, "send") /\ signalled' = signalled \cup {f}
        /\ \E o \in {"error", "duplicate"} : answer' = [answer EXCEPT ![f] = o]
    BY DEF Reject, Ends, callVars, outVars
  <1>3. Held(w) /\ Waiting(w) /\ "send" \in WorkerPc \ {"idle", "exited", "register", "gate"}
    BY <1>2 DEF Held, Waiting, WorkerPc
  <1>4. /\ FrameInv' /\ HeldInv' /\ CloseInv' /\ InflightIsExact'
        /\ worker' \in [Worker -> WorkerRow] /\ worker'[w].pc = "send"
        /\ \A v \in Worker : v # w => worker'[v] = worker[v]
        /\ f \in Frame /\ f \in 1..Current
        /\ \A v \in Worker : v # w /\ Held(v) => worker[v].frame # f
    BY <1>2, <1>3, HeldMoves
  <1>5. GateInv' /\ f = Current /\ reader = "await" /\ jobs = <<>>
    BY <1>2, <1>3, GateOpens
  <1>6. OutInv'
    BY <1>2, <1>3, NothingSent
  <1>7. /\ answer' \in [Frame -> Outcome] /\ answer'[f] \in {"error", "duplicate"}
        /\ \A g \in Frame : g # f => answer'[g] = answer[g]
    BY <1>1, <1>2, <1>4 DEF StdioTypeOK, Outcome
  <1>8. StdioTypeOK'
    BY <1>1, <1>2, <1>4, <1>7 DEF StdioTypeOK, WorkerRow
  <1>9. AnswerInv'
    <2>1. f <= Current /\ f \in Frame
      BY <1>4
    <2>2. \A v \in Worker : worker'[v].pc \in {"register", "gate", "run", "complete"} =>
             v # w /\ worker'[v] = worker[v] /\ worker[v].frame \in Frame /\ worker[v].frame # f
      BY <1>1, <1>4, Basics DEF HeldInv, Held
    <2> QED
      BY <1>1, <1>2, <1>4, <1>5, <1>7, <2>1, <2>2, Basics DEF AnswerInv, Current
  <1>10. ActiveInv'
    BY <1>1, <1>2, <1>4 DEF ActiveInv, Registered, IdOf
  <1>11. DecidedInv'
    <2>1. \A g \in Frame : Decided(g) => Decided(g)'
      BY <1>2, <1>7 DEF Decided, IdOf
    <2>2. \A g \in Frame : g = f => Decided(g)'
      BY <1>7 DEF Decided
    <2> QED
      BY <1>2, <1>4, <2>1, <2>2, DecidedStays
  <1>12. MarkInv'
    BY <1>1, <1>2, <1>4, <1>7 DEF MarkInv, StdioTypeOK
  <1>13. NoSyntheticRefusal'
    BY <1>1, <1>2, <1>7 DEF NoSyntheticRefusal
  <1>14. NothingRunsUncancelled'
    BY <1>1, <1>2, <1>4 DEF NothingRunsUncancelled, WriterGone
  <1> QED
    BY <1>4, <1>5, <1>6, <1>8, <1>9, <1>10, <1>11, <1>12, <1>13, <1>14 DEF SessionInv

\* The id is free, and becomes the call's.
LEMMA RegisterKeeps ==
    ASSUME StdioAssumption, SessionInv, NEW w \in Worker, Register(w)
    PROVE  SessionInv'
  <1> DEFINE f == worker[w].frame
  <1>1. /\ StdioTypeOK /\ FrameInv /\ HeldInv /\ GateInv /\ AnswerInv /\ ActiveInv
        /\ DecidedInv /\ OutInv /\ MarkInv /\ CloseInv
        /\ NoSyntheticRefusal /\ NothingRunsUncancelled /\ InflightIsExact
    BY DEF SessionInv
  <1>2. /\ UNCHANGED <<frames, reader, closed, jobs, inflight, signalled, cancelReq,
                       answer, responses, written, writer>>
        /\ worker[w].pc = "register" /\ Goto(w, "gate") /\ active[IdOf(f)] = None
        /\ active' = [active EXCEPT ![IdOf(f)] = f]
    BY DEF Register, outVars
  <1>3. Held(w) /\ Waiting(w) /\ "gate" \in WorkerPc \ {"idle", "exited"} /\ worker[w].pc # "release"
    BY <1>2 DEF Held, Waiting, WorkerPc
  <1>4. /\ FrameInv' /\ HeldInv' /\ CloseInv' /\ InflightIsExact'
        /\ worker' \in [Worker -> WorkerRow] /\ worker'[w].pc = "gate" /\ worker'[w].frame = f
        /\ \A v \in Worker : v # w => worker'[v] = worker[v]
        /\ f \in Frame /\ f \in 1..Current /\ IdOf(f) \in Id
        /\ \A v \in Worker : v # w /\ Held(v) => worker[v].frame # f
    BY <1>2, <1>3, HeldMoves
  <1>5. \A v \in Worker : (Waiting(v)' <=> Waiting(v)) /\ worker'[v].frame = worker[v].frame
    BY <1>2, <1>4 DEF Waiting
  <1>6. GateInv'
    BY <1>1, <1>2, <1>5 DEF GateInv, Current
  <1>7. OutInv'
    BY <1>2, <1>3, NothingSent
  <1>8. /\ active' \in [Id -> Frame \cup {None}] /\ active'[IdOf(f)] = f
        /\ \A i \in Id : i # IdOf(f) => active'[i] = active[i]
    BY <1>1, <1>2, <1>4 DEF StdioTypeOK
  <1>9. StdioTypeOK'
    BY <1>1, <1>2, <1>4, <1>8 DEF StdioTypeOK, WorkerRow
  <1>10. AnswerInv'
    BY <1>1, <1>2, <1>4 DEF AnswerInv, Current
  <1>11. ActiveInv'
    <2>1. ASSUME NEW v \in Worker, Registered(v)'
          PROVE  (active[IdOf(worker[v].frame)] = worker[v].frame)'
      <3>1. CASE v = w
        BY <1>2, <1>4, <1>8, <3>1 DEF IdOf
      <3>2. CASE v # w
        <4>1. Registered(v) /\ worker'[v] = worker[v]
          BY <1>4, <2>1, <3>2 DEF Registered
        <4>2. /\ active[IdOf(worker[v].frame)] = worker[v].frame
              /\ worker[v].frame \in Frame /\ IdOf(worker[v].frame) \in Id
          BY <1>1, <4>1, Basics DEF ActiveInv, HeldInv, Held, Registered
        <4>3. IdOf(worker[v].frame) # IdOf(f)
          BY <1>2, <4>2, Basics
        <4> QED
          BY <1>2, <1>8, <4>1, <4>2, <4>3 DEF IdOf
      <3> QED
        BY <3>1, <3>2
    <2>2. ASSUME NEW i \in Id, active'[i] # None
          PROVE  (\E v \in Worker : Registered(v) /\ worker[v].frame = active[i] /\ IdOf(active[i]) = i)'
      <3>1. CASE i = IdOf(f)
        BY <1>2, <1>4, <1>8, <3>1 DEF Registered, IdOf
      <3>2. CASE i # IdOf(f)
        <4>1. active'[i] = active[i]
          BY <1>8, <3>2
        <4>2. PICK v \in Worker : Registered(v) /\ worker[v].frame = active[i] /\ IdOf(active[i]) = i
          BY <1>1, <2>2, <4>1 DEF ActiveInv
        <4>3. v # w
          BY <1>2, <4>2 DEF Registered
        <4> QED
          BY <1>2, <1>4, <4>1, <4>2, <4>3 DEF Registered, IdOf
      <3> QED
        BY <3>1, <3>2
    <2> QED
      BY <2>1, <2>2 DEF ActiveInv
  <1>12. DecidedInv'
    <2>1. ASSUME NEW g \in Frame, Decided(g) PROVE Decided(g)'
      <3>1. CASE answer[g] # "none"
        BY <1>2, <3>1 DEF Decided
      <3>2. CASE active[IdOf(g)] = g
        <4>1. IdOf(g) # IdOf(f)
          BY <1>2, <3>2, Basics
        <4>2. active'[IdOf(g)] = active[IdOf(g)]
          BY <1>1, <1>2, <4>1 DEF StdioTypeOK
        <4> QED
          BY <1>2, <3>2, <4>2 DEF Decided, IdOf
      <3> QED
        BY <2>1, <3>1, <3>2 DEF Decided
    <2> QED
      BY <1>2, <2>1, DecidedStays
  <1>13. MarkInv'
    BY <1>1, <1>2, <1>4 DEF MarkInv
  <1>14. NoSyntheticRefusal' /\ NothingRunsUncancelled'
    BY <1>1, <1>2, <1>4 DEF NoSyntheticRefusal, NothingRunsUncancelled, WriterGone
  <1> QED
    BY <1>4, <1>6, <1>7, <1>9, <1>10, <1>11, <1>12, <1>13, <1>14 DEF SessionInv

\* The provider has answered: what it says is not yet an answer.
LEMMA ExecuteKeeps ==
    ASSUME StdioAssumption, SessionInv, NEW w \in Worker, Execute(w)
    PROVE  SessionInv'
  <1> DEFINE f == worker[w].frame
  <1>1. /\ StdioTypeOK /\ FrameInv /\ HeldInv /\ GateInv /\ AnswerInv /\ ActiveInv
        /\ DecidedInv /\ OutInv /\ MarkInv /\ CloseInv
        /\ NoSyntheticRefusal /\ NothingRunsUncancelled /\ InflightIsExact
    BY DEF SessionInv
  <1>2. /\ UNCHANGED <<frames, reader, closed, jobs, inflight, signalled, active, cancelReq,
                       responses, written, writer>>
        /\ worker[w].pc = "run" /\ Goto(w, "complete")
        /\ \E o \in {"ok", "error"} : answer' = [answer EXCEPT ![f] = o]
    BY DEF Execute, callVars, outVars
  <1>3. Held(w) /\ "complete" \in WorkerPc \ {"idle", "exited"} /\ worker[w].pc # "release"
    BY <1>2 DEF Held, WorkerPc
  <1>4. /\ FrameInv' /\ HeldInv' /\ CloseInv' /\ InflightIsExact'
        /\ worker' \in [Worker -> WorkerRow] /\ worker'[w].pc = "complete" /\ worker'[w].frame = f
        /\ \A v \in Worker : v # w => worker'[v] = worker[v]
        /\ f \in Frame /\ f \in 1..Current
        /\ \A v \in Worker : v # w /\ Held(v) => worker[v].frame # f
        /\ f = Current => reader \notin {"dispatch", "reply"} /\ jobs = <<>>
    BY <1>2, <1>3, HeldMoves
  <1>5. GateInv'
    <2>1. \A v \in Worker : (Waiting(v)' <=> Waiting(v)) /\ worker'[v].frame = worker[v].frame
      BY <1>2, <1>4 DEF Waiting
    <2> QED
      BY <1>1, <1>2, <2>1 DEF GateInv, Current
  <1>6. OutInv'
    BY <1>2, <1>3, NothingSent
  <1>7. /\ answer' \in [Frame -> Outcome] /\ answer'[f] \in {"ok", "error"}
        /\ \A g \in Frame : g # f => answer'[g] = answer[g]
    BY <1>1, <1>2, <1>4 DEF StdioTypeOK, Outcome
  <1>8. StdioTypeOK'
    BY <1>1, <1>2, <1>4, <1>7 DEF StdioTypeOK, WorkerRow
  <1>9. AnswerInv'
    <2>1. f <= Current /\ f \in Frame
      BY <1>4
    <2>2. \A v \in Worker : v # w /\ worker'[v].pc \in {"register", "gate", "run", "complete"} =>
             worker'[v] = worker[v] /\ worker[v].frame \in Frame /\ worker[v].frame # f
      BY <1>1, <1>4, Basics DEF HeldInv, Held
    <2> QED
      BY <1>1, <1>2, <1>4, <1>7, <2>1, <2>2, Basics DEF AnswerInv, Current, FrameInv, GateInv
  <1>10. ActiveInv'
    <2>1. \A v \in Worker : (Registered(v)' <=> Registered(v)) /\ worker'[v].frame = worker[v].frame
      BY <1>2, <1>4 DEF Registered
    <2> QED
      BY <1>1, <1>2, <2>1 DEF ActiveInv, IdOf
  <1>11. DecidedInv'
    <2>1. \A g \in Frame : Decided(g) => Decided(g)'
      BY <1>2, <1>7 DEF Decided, IdOf
    <2> QED
      BY <1>2, <2>1, DecidedStays
  <1>12. MarkInv'
    <2>1. SUFFICES ASSUME NEW g \in cancelReq, answer'[g] = "ok"
                   PROVE  \E v \in Worker : worker'[v].pc = "complete" /\ worker'[v].frame = g
      BY <1>2 DEF MarkInv
    <2>2. CASE g = f
      BY <1>4, <2>2
    <2>3. CASE g # f
      <3>1. answer[g] = "ok"
        BY <1>1, <1>7, <2>1, <2>3 DEF StdioTypeOK
      <3>2. PICK v \in Worker : worker[v].pc = "complete" /\ worker[v].frame = g
        BY <1>1, <3>1 DEF MarkInv
      <3> QED
        BY <1>2, <1>4, <3>2
    <2> QED
      BY <2>2, <2>3
  <1>13. NoSyntheticRefusal'
    BY <1>1, <1>2, <1>7 DEF NoSyntheticRefusal
  <1>14. NothingRunsUncancelled'
    BY <1>1, <1>2, <1>4 DEF NothingRunsUncancelled, WriterGone
  <1> QED
    BY <1>4, <1>5, <1>6, <1>8, <1>9, <1>10, <1>11, <1>12, <1>13, <1>14 DEF SessionInv

\* The entry of a call is removed with its worker: it is this attempt's own.
LEMMA EntryRemoved ==
    ASSUME StdioAssumption, SessionInv, NEW w \in Worker, Registered(w),
           Goto(w, "send"), Unregister(worker[w].frame),
           UNCHANGED <<frames, reader, closed, jobs, inflight, writer>>
    PROVE  /\ ActiveInv' /\ active' \in [Id -> Frame \cup {None}]
           /\ active[IdOf(worker[w].frame)] = worker[w].frame
           /\ \A g \in Frame : g # worker[w].frame /\ active[IdOf(g)] = g => (active[IdOf(g)] = g)'
  <1> DEFINE f == worker[w].frame
  <1>1. StdioTypeOK /\ HeldInv /\ ActiveInv /\ Held(w) /\ "send" \in WorkerPc \ {"idle", "exited"}
    BY DEF SessionInv, Registered, Held, WorkerPc
  <1>2. /\ worker'[w].pc = "send" /\ \A v \in Worker : v # w => worker'[v] = worker[v]
        /\ f \in Frame /\ IdOf(f) \in Id
        /\ \A v \in Worker : v # w /\ Held(v) => worker[v].frame # f
    BY <1>1, HeldMoves
  <1>3. active[IdOf(f)] = f
    BY <1>1 DEF ActiveInv
  <1>4. active' = [active EXCEPT ![IdOf(f)] = None]
    BY <1>1, <1>2, <1>3 DEF Unregister, StdioTypeOK
  <1>5. active' \in [Id -> Frame \cup {None}] /\ active'[IdOf(f)] = None
    BY <1>1, <1>2, <1>4 DEF StdioTypeOK
  <1>6. \A i : i # IdOf(f) => active'[i] = active[i]
    BY <1>1, <1>4 DEF StdioTypeOK
  <1>7. ASSUME NEW g \in Frame, g # f, active[IdOf(g)] = g
        PROVE  (active[IdOf(g)] = g)'
    <2>1. IdOf(g) # IdOf(f)
      BY <1>3, <1>7
    <2>2. active'[IdOf(g)] = g
      BY <1>6, <1>7, <2>1
    <2> QED
      BY <2>2 DEF IdOf
  <1>8. ASSUME NEW v \in Worker, Registered(v)'
        PROVE  (active[IdOf(worker[v].frame)] = worker[v].frame)'
    <2>1. v # w /\ worker'[v] = worker[v]
      BY <1>2, <1>8 DEF Registered
    <2>2. Registered(v) /\ Held(v)
      BY <1>8, <2>1 DEF Registered, Held
    <2>3. worker[v].frame # f /\ worker[v].frame \in Frame /\ active[IdOf(worker[v].frame)] = worker[v].frame
      BY <1>1, <1>2, <2>1, <2>2, Basics DEF ActiveInv, HeldInv
    <2> QED
      BY <1>7, <2>1, <2>3 DEF IdOf
  <1>9. ASSUME NEW i \in Id, active'[i] # None
        PROVE  (\E v \in Worker : Registered(v) /\ worker[v].frame = active[i] /\ IdOf(active[i]) = i)'
    <2>1. i # IdOf(f) /\ active'[i] = active[i]
      BY <1>5, <1>6, <1>9
    <2>2. PICK v \in Worker : Registered(v) /\ worker[v].frame = active[i] /\ IdOf(active[i]) = i
      BY <1>1, <1>9, <2>1 DEF ActiveInv
    <2>3. v # w
      BY <2>1, <2>2
    <2> QED
      BY <1>2, <2>1, <2>2, <2>3 DEF Registered, IdOf
  <1>10. ActiveInv'
    BY <1>8, <1>9 DEF ActiveInv
  <1> QED
    BY <1>3, <1>5, <1>7, <1>10

\* The session is closed: only a failed writer closes it while the reader waits.
LEMMA GateRefusesKeeps ==
    ASSUME StdioAssumption, SessionInv, NEW w \in Worker, Gate(w), closed
    PROVE  SessionInv'
  <1> DEFINE f == worker[w].frame
  <1>1. /\ StdioTypeOK /\ FrameInv /\ HeldInv /\ GateInv /\ AnswerInv /\ ActiveInv
        /\ DecidedInv /\ OutInv /\ MarkInv /\ CloseInv
        /\ NoSyntheticRefusal /\ NothingRunsUncancelled /\ InflightIsExact
    BY DEF SessionInv
  <1>2. /\ UNCHANGED <<frames, reader, closed, jobs, inflight, cancelReq, responses, written, writer>>
        /\ worker[w].pc = "gate" /\ Goto(w, "send") /\ signalled' = signalled \cup {f}
        /\ Unregister(f) /\ answer' = [answer EXCEPT ![f] = "refused"]
    BY DEF Gate, Ends, outVars
  <1>3. /\ Held(w) /\ Waiting(w) /\ Registered(w)
        /\ "send" \in WorkerPc \ {"idle", "exited", "register", "gate"}
    BY <1>2 DEF Held, Waiting, Registered, WorkerPc
  <1>4. /\ FrameInv' /\ HeldInv' /\ CloseInv' /\ InflightIsExact'
        /\ worker' \in [Worker -> WorkerRow] /\ worker'[w].pc = "send"
        /\ \A v \in Worker : v # w => worker'[v] = worker[v]
        /\ f \in Frame /\ f \in 1..Current
        /\ \A v \in Worker : v # w /\ Held(v) => worker[v].frame # f
    BY <1>2, <1>3, HeldMoves
  <1>5. GateInv' /\ f = Current /\ reader = "await" /\ jobs = <<>>
    BY <1>2, <1>3, GateOpens
  <1>6. OutInv'
    BY <1>2, <1>3, NothingSent
  <1>7. /\ answer' \in [Frame -> Outcome] /\ answer'[f] = "refused"
        /\ \A g \in Frame : g # f => answer'[g] = answer[g]
    BY <1>1, <1>2, <1>4 DEF StdioTypeOK, Outcome
  <1>8. /\ ActiveInv' /\ active' \in [Id -> Frame \cup {None}]
        /\ \A g \in Frame : g # f /\ active[IdOf(g)] = g => (active[IdOf(g)] = g)'
    BY <1>2, <1>3, EntryRemoved
  <1>9. StdioTypeOK'
    BY <1>1, <1>2, <1>4, <1>7, <1>8 DEF StdioTypeOK, WorkerRow
  <1>10. AnswerInv'
    <2>1. f <= Current /\ f \in Frame
      BY <1>4
    <2>2. \A v \in Worker : worker'[v].pc \in {"register", "gate", "run", "complete"} =>
             v # w /\ worker'[v] = worker[v] /\ worker[v].frame \in Frame /\ worker[v].frame # f
      BY <1>1, <1>4, Basics DEF HeldInv, Held
    <2> QED
      BY <1>1, <1>2, <1>4, <1>5, <1>7, <2>1, <2>2, Basics DEF AnswerInv, Current
  <1>11. DecidedInv'
    <2>1. \A g \in Frame : g = f => Decided(g)'
      BY <1>7 DEF Decided
    <2>2. \A g \in Frame : Decided(g) => Decided(g)'
      BY <1>7, <1>8, <2>1 DEF Decided
    <2> QED
      BY <1>2, <1>4, <2>1, <2>2, DecidedStays
  <1>12. MarkInv'
    BY <1>1, <1>2, <1>4, <1>7 DEF MarkInv, StdioTypeOK
  <1>13. NoSyntheticRefusal'
    <2>1. writer.pc \in {"failing", "gone"}
      BY <1>1, <1>5 DEF CloseInv
    <2> QED
      BY <1>2, <2>1 DEF NoSyntheticRefusal
  <1>14. NothingRunsUncancelled'
    BY <1>1, <1>2, <1>4 DEF NothingRunsUncancelled, WriterGone
  <1> QED
    BY <1>4, <1>5, <1>6, <1>8, <1>9, <1>10, <1>11, <1>12, <1>13, <1>14 DEF SessionInv

\* The session is open: the call runs, and the reader goes on.
LEMMA GatePassesKeeps ==
    ASSUME StdioAssumption, SessionInv, NEW w \in Worker, Gate(w), ~closed
    PROVE  SessionInv'
  <1> DEFINE f == worker[w].frame
  <1>1. /\ StdioTypeOK /\ FrameInv /\ HeldInv /\ GateInv /\ AnswerInv /\ ActiveInv
        /\ DecidedInv /\ OutInv /\ MarkInv /\ CloseInv
        /\ NoSyntheticRefusal /\ NothingRunsUncancelled /\ InflightIsExact
    BY DEF SessionInv
  <1>2. /\ UNCHANGED <<frames, reader, closed, jobs, inflight, active, cancelReq, answer,
                       responses, written, writer>>
        /\ worker[w].pc = "gate" /\ Goto(w, "run") /\ signalled' = signalled \cup {f}
    BY DEF Gate, outVars
  <1>3. /\ Held(w) /\ Waiting(w) /\ Registered(w)
        /\ "run" \in WorkerPc \ {"idle", "exited", "register", "gate"}
    BY <1>2 DEF Held, Waiting, Registered, WorkerPc
  <1>4. /\ FrameInv' /\ HeldInv' /\ CloseInv' /\ InflightIsExact'
        /\ worker' \in [Worker -> WorkerRow] /\ worker'[w].pc = "run" /\ worker'[w].frame = f
        /\ \A v \in Worker : v # w => worker'[v] = worker[v]
        /\ f \in Frame
    BY <1>2, <1>3, HeldMoves
  <1>5. GateInv' /\ reader = "await"
    BY <1>2, <1>3, GateOpens
  <1>6. OutInv'
    BY <1>2, <1>3, NothingSent
  <1>7. StdioTypeOK'
    BY <1>1, <1>2, <1>4 DEF StdioTypeOK, WorkerRow
  <1>8. AnswerInv'
    BY <1>1, <1>2, <1>4 DEF AnswerInv, Current
  <1>9. ActiveInv'
    <2>1. \A v \in Worker : (Registered(v)' <=> Registered(v)) /\ worker'[v].frame = worker[v].frame
      BY <1>2, <1>4 DEF Registered
    <2> QED
      BY <1>1, <1>2, <2>1 DEF ActiveInv, IdOf
  <1>10. DecidedInv'
    <2>1. \A g \in Frame : Decided(g) => Decided(g)'
      BY <1>2 DEF Decided, IdOf
    <2>2. Decided(f)
      BY <1>1, <1>3 DEF ActiveInv, Decided
    <2> QED
      BY <1>2, <1>4, <2>1, <2>2, DecidedStays
  <1>11. MarkInv'
    BY <1>1, <1>2, <1>4 DEF MarkInv
  <1>12. NoSyntheticRefusal'
    BY <1>1, <1>2 DEF NoSyntheticRefusal
  <1>13. NothingRunsUncancelled'
    BY <1>2, <1>5 DEF NothingRunsUncancelled
  <1> QED
    BY <1>4, <1>5, <1>6, <1>7, <1>8, <1>9, <1>10, <1>11, <1>12, <1>13 DEF SessionInv

\* A marked call that succeeded is answered as cancelled.
LEMMA CompleteKeeps ==
    ASSUME StdioAssumption, SessionInv, NEW w \in Worker, Complete(w)
    PROVE  SessionInv'
  <1> DEFINE f == worker[w].frame
  <1>1. /\ StdioTypeOK /\ FrameInv /\ HeldInv /\ GateInv /\ AnswerInv /\ ActiveInv
        /\ DecidedInv /\ OutInv /\ MarkInv /\ CloseInv
        /\ NoSyntheticRefusal /\ NothingRunsUncancelled /\ InflightIsExact
    BY DEF SessionInv
  <1>2. /\ UNCHANGED <<frames, reader, closed, jobs, inflight, signalled, cancelReq,
                       responses, written, writer>>
        /\ worker[w].pc = "complete" /\ Goto(w, "send") /\ Unregister(f)
        /\ answer' = [answer EXCEPT ![f] =
              IF answer[f] = "ok" /\ active[IdOf(f)] = f /\ f \in cancelReq THEN "cancelled" ELSE answer[f]]
    BY <1>1 DEF Complete, outVars, StdioTypeOK
  <1>3. Held(w) /\ Registered(w) /\ "send" \in WorkerPc \ {"idle", "exited"} /\ worker[w].pc # "release"
    BY <1>2 DEF Held, Registered, WorkerPc
  <1>4. /\ FrameInv' /\ HeldInv' /\ CloseInv' /\ InflightIsExact'
        /\ worker' \in [Worker -> WorkerRow] /\ worker'[w].pc = "send"
        /\ \A v \in Worker : v # w => worker'[v] = worker[v]
        /\ \A v \in Worker : worker'[v].frame = worker[v].frame
        /\ f \in Frame /\ f \in 1..Current
        /\ \A v \in Worker : v # w /\ Held(v) => worker[v].frame # f
        /\ f = Current => reader \notin {"dispatch", "reply"} /\ jobs = <<>>
    BY <1>2, <1>3, HeldMoves
  <1>5. GateInv'
    <2>1. \A v \in Worker : (Waiting(v)' <=> Waiting(v)) /\ worker'[v].frame = worker[v].frame
      BY <1>2, <1>4 DEF Waiting
    <2> QED
      BY <1>1, <1>2, <2>1 DEF GateInv, Current
  <1>6. OutInv'
    BY <1>2, <1>3, NothingSent
  <1>7. /\ ActiveInv' /\ active' \in [Id -> Frame \cup {None}] /\ active[IdOf(f)] = f
        /\ \A g \in Frame : g # f /\ active[IdOf(g)] = g => (active[IdOf(g)] = g)'
    BY <1>2, <1>3, EntryRemoved
  <1>8. answer[f] \in Outcome /\ answer[f] # "none"
    BY <1>1, <1>2, <1>4 DEF AnswerInv, StdioTypeOK
  <1>9. /\ answer' \in [Frame -> Outcome] /\ answer'[f] \in {answer[f], "cancelled"}
        /\ f \in cancelReq => answer'[f] # "ok"
        /\ \A g \in Frame : g # f => answer'[g] = answer[g]
    <2>1. answer \in [Frame -> Outcome] /\ "cancelled" \in Outcome
      BY <1>1 DEF StdioTypeOK, Outcome
    <2> QED
      BY <1>2, <1>4, <1>7, <1>8, <2>1
  <1>10. StdioTypeOK'
    BY <1>1, <1>2, <1>4, <1>7, <1>9 DEF StdioTypeOK, WorkerRow
  <1>11. AnswerInv'
    <2>1. f <= Current /\ f \in Frame
      BY <1>4
    <2>2. \A v \in Worker : worker'[v].pc \in {"register", "gate", "run", "complete"} =>
             worker'[v] = worker[v] /\ worker[v].frame \in Frame /\ worker[v].frame # f
      BY <1>1, <1>4, Basics DEF HeldInv, Held
    <2> QED
      BY <1>1, <1>2, <1>4, <1>9, <2>1, <2>2, Basics DEF AnswerInv, Current, FrameInv, GateInv
  <1>12. DecidedInv'
    <2>1. \A g \in Frame : g = f => Decided(g)'
      BY <1>8, <1>9 DEF Decided
    <2>2. \A g \in Frame : Decided(g) => Decided(g)'
      BY <1>7, <1>9, <2>1 DEF Decided
    <2> QED
      BY <1>2, <2>2, DecidedStays
  <1>13. MarkInv'
    <2>1. SUFFICES ASSUME NEW g \in cancelReq, answer'[g] = "ok"
                   PROVE  \E v \in Worker : worker'[v].pc = "complete" /\ worker'[v].frame = g
      BY <1>2 DEF MarkInv
    <2>2. g \in Frame /\ g # f /\ answer[g] = "ok"
      BY <1>1, <1>9, <2>1 DEF StdioTypeOK
    <2>3. PICK v \in Worker : worker[v].pc = "complete" /\ worker[v].frame = g
      BY <1>1, <2>2 DEF MarkInv
    <2> QED
      BY <1>4, <2>2, <2>3
  <1>14. NoSyntheticRefusal'
    BY <1>1, <1>2, <1>4, <1>9 DEF NoSyntheticRefusal
  <1>15. NothingRunsUncancelled'
    BY <1>1, <1>2, <1>4 DEF NothingRunsUncancelled, WriterGone
  <1> QED
    BY <1>4, <1>5, <1>6, <1>7, <1>10, <1>11, <1>12, <1>13, <1>14, <1>15 DEF SessionInv

\* A worker without a call, or whose call is answered, is held by nothing.
LEMMA LeavesKeep ==
    ASSUME StdioAssumption, SessionInv, NEW w \in Worker,
           worker[w].pc \in {"idle", "send", "release"},
           worker' \in [Worker -> WorkerRow], worker'[w].pc \in {"idle", "exited"},
           \A v \in Worker : v # w => worker'[v] = worker[v],
           inflight' = IF Held(w) THEN inflight - 1 ELSE inflight,
           UNCHANGED <<frames, reader, closed, jobs, signalled, active, cancelReq, answer,
                       responses, written, writer>>
    PROVE  SessionInv'
  <1>1. /\ StdioTypeOK /\ FrameInv /\ HeldInv /\ GateInv /\ AnswerInv /\ ActiveInv
        /\ DecidedInv /\ OutInv /\ MarkInv /\ CloseInv
        /\ NoSyntheticRefusal /\ NothingRunsUncancelled /\ InflightIsExact
    BY DEF SessionInv
  <1>2. InflightIsExact' /\ inflight' \in 0..MaxInflight
    <2>1. Busy \in SUBSET Worker /\ inflight = Len(jobs) + Cardinality(Busy)
      BY <1>1 DEF InflightIsExact, Busy, Held
    <2>2. Busy' = IF Held(w) THEN Busy \ {w} ELSE Busy
      BY DEF Busy, Held
    <2>3. Len(jobs) \in Nat /\ MaxInflight \in Nat /\ inflight \in 0..MaxInflight
      BY <1>1, FS_CardinalityType DEF StdioTypeOK, StdioAssumption, MaxInflight
    <2>4. Cardinality(Busy) \in Nat
      BY <2>1, BusyCounts
    <2>5. CASE Held(w)
      <3>1. Cardinality(Busy) >= 1 /\ Cardinality(Busy \ {w}) = Cardinality(Busy) - 1
        BY <2>1, <2>5, BusyCounts DEF Busy
      <3>2. inflight' = Len(jobs') + Cardinality(Busy') /\ inflight' \in 0..MaxInflight
        BY <2>1, <2>2, <2>3, <2>4, <2>5, <3>1
      <3> QED
        BY <3>2 DEF InflightIsExact, Busy, Held
    <2>6. CASE ~Held(w)
      <3>1. inflight' = Len(jobs') + Cardinality(Busy') /\ inflight' \in 0..MaxInflight
        BY <2>1, <2>2, <2>3, <2>6
      <3> QED
        BY <3>1 DEF InflightIsExact, Busy, Held
    <2> QED
      BY <2>5, <2>6
  <1>3. StdioTypeOK'
    BY <1>1, <1>2 DEF StdioTypeOK, WorkerRow
  <1>4. FrameInv' /\ CloseInv' /\ NoSyntheticRefusal'
    BY <1>1 DEF FrameInv, CloseInv, NoSyntheticRefusal, IsCall, Current
  <1>5. HeldInv'
    BY <1>1 DEF HeldInv, Held, IsCall, Current
  <1>6. GateInv'
    BY <1>1 DEF GateInv, Waiting, Current
  <1>7. AnswerInv'
    BY <1>1 DEF AnswerInv, Current
  <1>8. ActiveInv'
    BY <1>1 DEF ActiveInv, Registered, IdOf
  <1>9. DecidedInv'
    BY <1>1 DEF DecidedInv, Decided, IsCall, IdOf, Current
  <1>10. OutInv'
    BY <1>1 DEF OutInv, Out, Queued, Held, Current
  <1>11. MarkInv'
    BY <1>1 DEF MarkInv
  <1>12. NothingRunsUncancelled'
    BY <1>1 DEF NothingRunsUncancelled, WriterGone
  <1> QED
    BY <1>2, <1>3, <1>4, <1>5, <1>6, <1>7, <1>8, <1>9, <1>10, <1>11, <1>12 DEF SessionInv

\* A worker is done with its call, or with the session.
LEMMA ReleaseKeeps ==
    ASSUME StdioAssumption, SessionInv, NEW w \in Worker, Release(w) \/ ExitPool(w)
    PROVE  SessionInv'
  <1>1. worker \in [Worker -> WorkerRow]
    BY Basics
  <1>2. UNCHANGED <<frames, reader, closed, jobs, signalled, active, cancelReq, answer,
                    responses, written, writer>>
    BY DEF Release, ExitPool, callVars, outVars
  <1>3. CASE Release(w)
    <2>1. /\ worker[w].pc = "release" /\ inflight' = inflight - 1
          /\ worker' = [worker EXCEPT ![w] = [pc |-> "idle", frame |-> None]]
      BY <1>3 DEF Release
    <2>2. /\ worker' \in [Worker -> WorkerRow] /\ worker'[w].pc \in {"idle", "exited"}
          /\ \A v \in Worker : v # w => worker'[v] = worker[v]
      BY <1>1, <2>1 DEF WorkerRow, WorkerPc
    <2> QED
      BY <1>2, <2>1, <2>2, LeavesKeep DEF Held
  <1>4. CASE ExitPool(w)
    <2>1. worker[w].pc = "idle" /\ inflight' = inflight /\ worker' = [worker EXCEPT ![w].pc = "exited"]
      BY <1>4 DEF ExitPool, Goto
    <2>2. /\ worker' \in [Worker -> WorkerRow] /\ worker'[w].pc \in {"idle", "exited"}
          /\ \A v \in Worker : v # w => worker'[v] = worker[v]
      BY <1>1, <2>1 DEF WorkerRow, WorkerPc
    <2> QED
      BY <1>2, <2>1, <2>2, LeavesKeep DEF Held
  <1> QED
    BY <1>3, <1>4

\* The response is queued, or there is nobody to write it.
LEMMA SendKeeps ==
    ASSUME StdioAssumption, SessionInv, NEW w \in Worker, Send(w)
    PROVE  SessionInv'
  <1> DEFINE f == worker[w].frame
  <1>1. /\ StdioTypeOK /\ FrameInv /\ HeldInv /\ GateInv /\ AnswerInv /\ ActiveInv
        /\ DecidedInv /\ OutInv /\ MarkInv /\ CloseInv
        /\ NoSyntheticRefusal /\ NothingRunsUncancelled /\ InflightIsExact
    BY DEF SessionInv
  <1>2. /\ UNCHANGED <<frames, reader, closed, jobs, signalled, active, cancelReq, answer,
                       written, writer>>
        /\ worker[w].pc = "send" /\ Held(w)
    BY DEF Send, callVars, Held
  <1>3. CASE /\ Len(responses) < QueueRoom /\ responses' = Append(responses, f)
             /\ Goto(w, "release") /\ UNCHANGED inflight
    <2>1. "release" \in WorkerPc \ {"idle", "exited"}
      BY DEF WorkerPc
    <2>2. /\ FrameInv' /\ HeldInv' /\ CloseInv' /\ InflightIsExact'
          /\ worker' \in [Worker -> WorkerRow] /\ worker'[w].pc = "release" /\ worker'[w].frame = f
          /\ \A v \in Worker : v # w => worker'[v] = worker[v]
          /\ f \in Frame /\ f \in 1..Current
          /\ \A v \in Worker : v # w /\ Held(v) => worker[v].frame # f
          /\ f = Current => reader \notin {"dispatch", "reply"} /\ jobs = <<>>
      BY <1>2, <1>3, <2>1, HeldMoves
    <2>3. responses \in Seq(Frame) /\ QueueRoom \in Nat
      BY <1>1 DEF StdioTypeOK, StdioAssumption
    <2>4. /\ responses' \in Seq(Frame) /\ Len(responses) \in Nat
          /\ Len(responses') = Len(responses) + 1
          /\ \A g : (\E k \in DOMAIN responses' : responses'[k] = g) <=> g = f \/ Queued(g)
      BY <1>3, <2>2, <2>3, QueueGrows DEF Queued
    <2>5. Len(responses') <= QueueRoom
      BY <1>3, <2>3, <2>4
    <2>6. StdioTypeOK'
      BY <1>1, <1>2, <1>3, <2>2, <2>4, <2>5 DEF StdioTypeOK, WorkerRow
    <2>7. GateInv'
      <3>1. \A v \in Worker : (Waiting(v)' <=> Waiting(v)) /\ worker'[v].frame = worker[v].frame
        BY <1>2, <2>2 DEF Waiting
      <3> QED
        BY <1>1, <1>2, <3>1 DEF GateInv, Current
    <2>8. AnswerInv'
      BY <1>1, <1>2, <2>2 DEF AnswerInv, Current
    <2>9. ActiveInv'
      BY <1>1, <1>2, <2>2 DEF ActiveInv, Registered, IdOf
    <2>10. DecidedInv'
      BY <1>1, <1>2 DEF DecidedInv, Decided, IsCall, IdOf, Current
    <2>11. OutInv'
      <3>1. \A g \in Frame : Out(g)' => g = f \/ Out(g)
        BY <1>2, <2>4 DEF Out, Queued
      <3>2. f <= Current /\ Current' = Current /\ (writer.pc = "write" => writer.frame \in Frame)'
        BY <1>1, <1>2, <2>2, Basics DEF Current, OutInv
      <3>3. \A g \in Frame : Out(g)' => g <= Current
        BY <1>1, <3>1, <3>2 DEF OutInv
      <3>4. reader \in {"dispatch", "reply"} \/ jobs # <<>> =>
              Current \in Frame /\ Current # f /\ ~Out(Current)
        BY <1>1, <2>2, Basics DEF OutInv, FrameInv, GateInv
      <3>5. reader \in {"dispatch", "reply"} \/ jobs # <<>> => \A g \in Frame : g = Current => ~Out(g)'
        BY <3>1, <3>4
      <3>6. (reader \in {"dispatch", "reply"} \/ jobs # <<>> => ~Out(Current))'
        BY <1>2, <3>2, <3>4, <3>5 DEF Out, Queued
      <3>7. ASSUME NEW v \in Worker, (Held(v) /\ worker[v].pc # "release")'
            PROVE  \A g \in Frame : g = worker[v].frame => ~Out(g)'
        <4>1. v # w /\ Held(v) /\ worker[v].pc # "release"
          BY <2>2, <3>7 DEF Held
        <4>2. worker[v].frame # f /\ ~Out(worker[v].frame)
          BY <1>1, <2>2, <4>1 DEF OutInv
        <4> QED
          BY <3>1, <4>2
      <3>8. \A v \in Worker : Held(v)' => worker'[v].frame \in Frame /\ worker'[v].frame = worker[v].frame
        BY <1>1, <1>2, <2>2, Basics DEF HeldInv, Held
      <3>9. \A v \in Worker : (Held(v) /\ worker[v].pc # "release" => ~Out(worker[v].frame))'
        BY <3>7, <3>8 DEF Out, Queued
      <3> QED
        BY <3>2, <3>3, <3>6, <3>9 DEF OutInv
    <2>12. MarkInv'
      BY <1>1, <1>2, <2>2 DEF MarkInv
    <2>13. NoSyntheticRefusal' /\ NothingRunsUncancelled'
      BY <1>1, <1>2, <2>2 DEF NoSyntheticRefusal, NothingRunsUncancelled, WriterGone
    <2> QED
      BY <2>2, <2>6, <2>7, <2>8, <2>9, <2>10, <2>11, <2>12, <2>13 DEF SessionInv
  <1>4. CASE inflight' = inflight - 1 /\ Goto(w, "exited") /\ UNCHANGED responses
    <2>1. /\ worker' \in [Worker -> WorkerRow] /\ worker'[w].pc \in {"idle", "exited"}
          /\ \A v \in Worker : v # w => worker'[v] = worker[v]
      BY <1>4, Basics DEF Goto, WorkerRow, WorkerPc
    <2> QED
      BY <1>2, <1>4, <2>1, LeavesKeep
  <1> QED
    BY <1>3, <1>4 DEF Send

\* The queued call becomes the worker's.
LEMMA TakeJobKeeps ==
    ASSUME StdioAssumption, SessionInv, NEW w \in Worker, TakeJob(w)
    PROVE  SessionInv'
  <1>1. /\ StdioTypeOK /\ FrameInv /\ HeldInv /\ GateInv /\ AnswerInv /\ ActiveInv
        /\ DecidedInv /\ OutInv /\ MarkInv /\ CloseInv
        /\ NoSyntheticRefusal /\ NothingRunsUncancelled /\ InflightIsExact
    BY DEF SessionInv
  <1>2. /\ UNCHANGED <<frames, reader, closed, inflight, signalled, active, cancelReq,
                       answer, responses, written, writer>>
        /\ worker[w].pc = "idle" /\ jobs # <<>> /\ jobs' = Tail(jobs)
        /\ worker' = [worker EXCEPT ![w] = [pc |-> "register", frame |-> Head(jobs)]]
    BY DEF TakeJob, callVars, outVars
  <1>3. /\ jobs = <<Current>> /\ reader = "await" /\ Current \notin signalled
        /\ \A v \in Worker : ~Waiting(v)
    BY <1>1, <1>2 DEF GateInv
  <1>4. Current \in Frame /\ Current \in 1..Current /\ IsCall(Current)
    BY <1>1, <1>3, Basics DEF FrameInv
  <1>5. Head(jobs) = Current /\ jobs' = <<>> /\ jobs' \in Seq(Frame) /\ Len(jobs') = 0 /\ Len(jobs) = 1
    BY <1>2, <1>3
  <1>6. /\ worker' \in [Worker -> WorkerRow] /\ worker'[w] = [pc |-> "register", frame |-> Current]
        /\ \A v \in Worker : v # w => worker'[v] = worker[v]
    <2>1. worker \in [Worker -> WorkerRow] /\ [pc |-> "register", frame |-> Current] \in WorkerRow
      BY <1>4, Basics DEF WorkerRow, WorkerPc
    <2> QED
      BY <1>2, <1>5, <2>1
  <1>7. StdioTypeOK'
    BY <1>1, <1>2, <1>5, <1>6 DEF StdioTypeOK, WorkerRow
  <1>8. FrameInv' /\ CloseInv' /\ NoSyntheticRefusal'
    BY <1>1, <1>2 DEF FrameInv, CloseInv, NoSyntheticRefusal, IsCall, Current
  <1>9. HeldInv'
    <2>1. \A v \in Worker : Held(v) => worker[v].frame # Current
      BY <1>1, <1>2 DEF HeldInv
    <2> QED
      BY <1>1, <1>2, <1>3, <1>4, <1>5, <1>6, <2>1 DEF HeldInv, Held, IsCall, Current
  <1>10. GateInv'
    BY <1>1, <1>2, <1>3, <1>5, <1>6 DEF GateInv, Waiting, Current
  <1>11. AnswerInv'
    BY <1>1, <1>2, <1>3, <1>5, <1>6 DEF AnswerInv, Current
  <1>12. ActiveInv'
    BY <1>1, <1>2, <1>6 DEF ActiveInv, Registered, IdOf
  <1>13. DecidedInv'
    BY <1>1, <1>2 DEF DecidedInv, Decided, IsCall, IdOf, Current
  <1>14. OutInv'
    <2>1. \A v \in Worker : (Held(v) /\ worker[v].pc # "release")' =>
             \/ worker'[v].frame = Current
             \/ Held(v) /\ worker[v].pc # "release" /\ worker'[v] = worker[v]
      BY <1>6 DEF Held
    <2>2. ~Out(Current)
      BY <1>1, <1>2 DEF OutInv
    <2> QED
      BY <1>1, <1>2, <1>3, <1>5, <2>1, <2>2 DEF OutInv, Out, Queued, Current
  <1>15. MarkInv'
    BY <1>1, <1>2, <1>6 DEF MarkInv
  <1>16. NothingRunsUncancelled'
    BY <1>1, <1>2, <1>6 DEF NothingRunsUncancelled, WriterGone
  <1>17. InflightIsExact'
    <2>1. Busy \in SUBSET Worker /\ w \notin Busy /\ inflight = Len(jobs) + Cardinality(Busy)
      BY <1>1, <1>2 DEF InflightIsExact, Busy, Held
    <2>2. Busy' = Busy \cup {w}
      BY <1>6 DEF Busy, Held
    <2>3. Cardinality(Busy \cup {w}) = Cardinality(Busy) + 1 /\ Cardinality(Busy) \in Nat
      BY <2>1, BusyCounts
    <2>4. inflight' = Len(jobs') + Cardinality(Busy')
      <3>1. Cardinality(Busy') = Cardinality(Busy) + 1
        BY <2>2, <2>3
      <3>2. inflight' = 1 + Cardinality(Busy) /\ Len(jobs') = 0
        BY <1>2, <1>5, <2>1
      <3> QED
        BY <2>3, <3>1, <3>2
    <2> QED
      BY <2>4 DEF InflightIsExact, Busy, Held
  <1> QED
    BY <1>7, <1>8, <1>9, <1>10, <1>11, <1>12, <1>13, <1>14, <1>15, <1>16, <1>17 DEF SessionInv

-----------------------------------------------------------------------------
(* The session.                                                            *)

\* A session starts with nothing read.
LEMMA SessionStarts ==
    ASSUME StdioAssumption, Init
    PROVE  SessionInv
  <1>1. /\ frames = <<>> /\ reader = "read" /\ closed = FALSE
        /\ jobs = <<>> /\ inflight = 0 /\ signalled = {}
        /\ active = [i \in Id |-> None] /\ cancelReq = {}
        /\ worker = [w \in Worker |-> [pc |-> "idle", frame |-> None]]
        /\ answer = [f \in Frame |-> "none"]
        /\ responses = <<>> /\ written = {} /\ writer = [pc |-> "recv", frame |-> None]
    BY DEF Init
  <1>2. /\ Current = 0 /\ Len(jobs) = 0 /\ Len(responses) = 0
        /\ frames \in Seq(FrameRow) /\ jobs \in Seq(Frame) /\ responses \in Seq(Frame)
        /\ DOMAIN responses = {} /\ 1..Current = {}
    BY <1>1 DEF Current
  <1>3. \A w \in Worker : worker[w].pc = "idle"
    BY <1>1
  <1>4. MaxInflight \in Nat /\ QueueRoom \in Nat /\ MaxFrames \in Nat
    BY FS_CardinalityType DEF StdioAssumption, MaxInflight
  <1>5. StdioTypeOK
    <2>1. /\ active \in [Id -> Frame \cup {None}] /\ answer \in [Frame -> Outcome]
          /\ worker \in [Worker -> [pc : WorkerPc, frame : Frame \cup {None}]]
      BY <1>1 DEF WorkerPc, Outcome
    <2>2. inflight \in 0..MaxInflight /\ Len(responses) <= QueueRoom
      BY <1>1, <1>2, <1>4
    <2>3. reader \in ReaderPc /\ closed \in BOOLEAN
      BY <1>1 DEF ReaderPc
    <2>4. writer \in [pc : {"recv", "write", "failing", "gone"}, frame : Frame \cup {None}]
      BY <1>1
    <2> QED
      BY <1>1, <1>2, <2>1, <2>2, <2>3, <2>4 DEF StdioTypeOK, FrameRow
  <1>6. FrameInv /\ CloseInv
    BY <1>1, <1>2, <1>4 DEF FrameInv, CloseInv
  <1>7. HeldInv /\ GateInv
    BY <1>1, <1>2, <1>3 DEF HeldInv, GateInv, Held, Waiting
  <1>8. AnswerInv /\ ActiveInv
    BY <1>1, <1>2, <1>3 DEF AnswerInv, ActiveInv, Registered
  <1>9. DecidedInv
    BY <1>1, <1>2 DEF DecidedInv
  <1>10. OutInv
    BY <1>1, <1>2, <1>3 DEF OutInv, Out, Queued, Held
  <1>11. MarkInv /\ NoSyntheticRefusal /\ NothingRunsUncancelled
    BY <1>1, <1>3 DEF MarkInv, NoSyntheticRefusal, NothingRunsUncancelled
  <1>12. InflightIsExact
    <2>1. {w \in Worker : worker[w].pc \notin {"idle", "exited"}} = {}
      BY <1>3
    <2> QED
      BY <1>1, <1>2, <2>1, FS_EmptySet DEF InflightIsExact
  <1> QED
    BY <1>5, <1>6, <1>7, <1>8, <1>9, <1>10, <1>11, <1>12 DEF SessionInv

\* Every step of a thread keeps the invariant.
LEMMA SessionSteps ==
    ASSUME StdioAssumption, SessionInv, [Next]_vars
    PROVE  SessionInv'
  <1>1. CASE ReaderNext
    <2>1. CASE \/ \E i \in Id : ReadFrame("call", i) \/ ReadFrame("cancel", i)
               \/ ReadFrame("other", None)
      BY <2>1, ReadFrameKeeps
    <2>2. CASE ReadEof \/ Admit \/ Refuse \/ Activated
      BY <2>2, ReadEofKeeps, AdmitKeeps, InlineKeeps, ActivatedKeeps
    <2>3. CASE HandleInline \/ HandleCancel \/ EnqueueReply
      BY <2>3, InlineKeeps, HandleCancelKeeps, EnqueueReplyKeeps
    <2>4. CASE CloseSession \/ ReaderCancels \/ Joined
      BY <2>4, CloseSessionKeeps, ReaderCancelsKeeps, JoinedKeeps
    <2> QED
      BY <1>1, <2>1, <2>2, <2>3, <2>4 DEF ReaderNext
  <1>2. CASE WriterNext
    BY <1>2, WriterMovesKeep, WriterLeavesKeep DEF WriterNext
  <1>3. ASSUME NEW w \in Worker, WorkerNext(w) PROVE SessionInv'
    <2>1. CASE Gate(w)
      BY <2>1, GateRefusesKeeps, GatePassesKeeps
    <2>2. CASE TakeJob(w) \/ ExitPool(w) \/ Reject(w) \/ Register(w)
      BY <2>2, TakeJobKeeps, ReleaseKeeps, RejectKeeps, RegisterKeeps
    <2>3. CASE Execute(w) \/ Complete(w) \/ Send(w) \/ Release(w)
      BY <2>3, ExecuteKeeps, CompleteKeeps, SendKeeps, ReleaseKeeps
    <2> QED
      BY <1>3, <2>1, <2>2, <2>3 DEF WorkerNext
  <1>4. CASE UNCHANGED vars
    <2>1. UNCHANGED <<frames, reader, closed, jobs, inflight, signalled, active, cancelReq, worker,
                      answer, responses, written, writer>>
      BY <1>4 DEF vars
    <2>2. /\ StdioTypeOK /\ FrameInv /\ HeldInv /\ GateInv /\ AnswerInv /\ ActiveInv
          /\ DecidedInv /\ OutInv /\ MarkInv /\ CloseInv
          /\ NoSyntheticRefusal /\ NothingRunsUncancelled /\ InflightIsExact
      BY DEF SessionInv
    <2>3. MarkInv' /\ CloseInv' /\ NothingRunsUncancelled'
      BY <2>1, <2>2 DEF MarkInv, CloseInv, NothingRunsUncancelled, WriterGone
    <2>4. \A f \in Frame : Out(f)' => Out(f)
      BY <2>1 DEF Out, Queued
    <2>5. /\ reader' \in ReaderPc /\ closed' \in BOOLEAN /\ responses' \in Seq(Frame)
          /\ Len(responses') <= QueueRoom /\ written' \subseteq Frame /\ cancelReq' \subseteq Frame
          /\ writer' \in [pc : {"recv", "write", "failing", "gone"}, frame : Frame \cup {None}]
      BY <2>1, <2>2 DEF StdioTypeOK
    <2>6. writer'.pc = "write" => writer'.frame \in Frame
      BY <2>1, <2>2 DEF OutInv
    <2> QED
      BY <2>1, <2>3, <2>4, <2>5, <2>6, ResponsesMove
  <1> QED
    BY <1>1, <1>2, <1>3, <1>4 DEF Next

\* What the invariant is for.
LEMMA SessionImplies ==
    ASSUME StdioAssumption, SessionInv
    PROVE  SessionIsSound
  <1>1. StdioTypeOK /\ DecidedInv /\ OutInv /\ MarkInv
    BY DEF SessionInv
  <1>2. CancelFindsCall
    BY <1>1 DEF CancelFindsCall, DecidedInv, Decided
  <1>3. CancelledIsNotAnswered
    <2>1. SUFFICES ASSUME NEW f \in cancelReq, Out(f), answer[f] = "ok" PROVE FALSE
      BY DEF CancelledIsNotAnswered, Out, Queued
    <2>2. PICK w \in Worker : worker[w].pc = "complete" /\ worker[w].frame = f
      BY <1>1, <2>1 DEF MarkInv
    <2> QED
      BY <1>1, <2>1, <2>2 DEF OutInv, Held
  <1> QED
    BY <1>1, <1>2, <1>3 DEF SessionInv, SessionIsSound

\* A stdio session is sound for any number of workers, ids and frames: a
\* cancellation finds the call it names, a marked call is not answered with its
\* result, only a failed writer has a call refused, nothing runs unmarked after
\* the session was cancelled, and the admission counter is exact.
THEOREM SessionSound ==
    ASSUME StdioAssumption
    PROVE  Spec => []SessionIsSound
  <1>1. Init => SessionInv
    BY SessionStarts
  <1>2. SessionInv /\ [Next]_vars => SessionInv'
    BY SessionSteps
  <1>3. SessionInv => SessionIsSound
    BY SessionImplies
  <1> QED
    BY <1>1, <1>2, <1>3, PTL DEF Spec

-----------------------------------------------------------------------------
(***************************************************************************)
(* DaemonIsKept: a daemon that serves can be found, one that ends by itself *)
(* leaves no file behind, its count of connections is exact, and it outlives *)
(* the sessions it granted.  The files belong to the holder of the instance *)
(* lock: FileInv says, for each place of a daemon, which files are its own, *)
(* and nobody else's step touches them.  CountInv ties the two counters to *)
(* the connections.                                                        *)
(***************************************************************************)

DmRow == [pc : DaemonPc, stop : BOOLEAN, active : 0..MaxActive, leaving : 0..MaxActive]
ClRow == [pc : ClientPc, at : {"outer", "recheck", "inner"}, seen : Daemon \cup {Nobody},
          err : Error, child : Daemon \cup {Nobody}]
ConnRow == [to : Daemon \cup {Nobody}, st : Open \cup {"none"}, reply : Code \cup {Nobody}]

Dead == {"unborn", "gone"}
Closing == {"close", "rmsock", "stat", "rmend", "unlock"}
Starting == {"lock", "sweep", "unlink", "bind", "rename"}
Holding == {"sweep", "unlink", "bind", "rename", "check", "accept"} \cup Closing
Working == {"held", "build", "session", "stopping"}

\* What a daemon at its place knows of the files, the lock and its counters.
FileInv(d, r, K, e, S, l) ==
    /\ r.pc \in Holding => l = d
    /\ r.pc \in {"rename", "check", "accept", "close", "rmsock"} => d \in S
    /\ r.pc \in {"check", "accept", "close", "rmsock", "stat", "rmend"} => e = d
    /\ r.pc \in {"unborn", "unlock"} \cup Starting => e # d
    /\ r.pc \in {"unborn", "lock", "sweep", "unlink", "bind", "stat", "rmend", "unlock"} => d \notin S
    /\ r.pc = "gone" /\ d \notin K => e # d /\ d \notin S
    /\ r.pc \in {"unborn"} \cup Starting \/ (r.pc \in Closing /\ d \notin K) => r.active = 0
    /\ r.pc = "unborn" => r.leaving = 0

\* What a client at its place knows of its connection.
LinkInv(r, x) ==
    /\ r.pc \in {"read", "dial", "error", "elect", "spawn", "failed"} => x.st = "none"
    /\ x.st \in {"queued", "held", "build"} => x.reply = Nobody
    /\ x.st \in {"session", "stopping"} => x.reply = "ready"
    /\ r.at = "inner" => r.child \in Daemon

WorkersOf(cn, d) == {c \in Client : cn[c].to = d /\ cn[c].st \in Working}

\* Each worker is counted by the daemon that runs it, and only a daemon that
\* is alive has any.
CountInv(D, cn) ==
    /\ \A c \in Client : cn[c].st \in Working => cn[c].to \in Daemon /\ D[cn[c].to].pc \notin Dead
    /\ \A d \in Daemon : D[d].pc \notin Dead =>
         D[d].active = Cardinality(WorkersOf(cn, d)) + D[d].leaving

Tables ==
    /\ dm \in [Daemon -> DmRow] /\ cl \in [Client -> ClRow] /\ conn \in [Client -> ConnRow]

Outside ==
    /\ endpoint \in Daemon \cup {Nobody} /\ sockets \subseteq Daemon
    /\ instLock \in Daemon \cup {Nobody} /\ startLock \in Client \cup {Nobody}
    /\ kills \in 0..MaxKills /\ killed \subseteq Daemon /\ acked \subseteq Daemon

DaemonInv ==
    /\ Tables /\ Outside
    /\ \A d \in Daemon : FileInv(d, dm[d], killed, endpoint, sockets, instLock)
    /\ \A c \in Client : LinkInv(cl[c], conn[c])
    /\ CountInv(dm, conn)

-----------------------------------------------------------------------------
LEMMA InitInv == DaemonInit => DaemonInv
<1> SUFFICES ASSUME DaemonInit PROVE DaemonInv OBVIOUS
<1> USE DaemonAssumed DEF DaemonAssumption
<1>1. Tables BY DEF DaemonInit, Tables, DmRow, ClRow, ConnRow, DaemonPc, ClientPc, Error, NoConn, Code, Open
<1>2. Outside BY DEF DaemonInit, Outside
<1>3. \A d \in Daemon : FileInv(d, dm[d], killed, endpoint, sockets, instLock)
  BY DEF DaemonInit, FileInv, Holding, Closing, Starting
<1>4. \A c \in Client : LinkInv(cl[c], conn[c]) BY DEF DaemonInit, LinkInv, NoConn
<1>5. CountInv(dm, conn) BY DEF DaemonInit, CountInv, NoConn, Working, Dead
<1> QED BY <1>1, <1>2, <1>3, <1>4, <1>5 DEF DaemonInv

\* Daemon h moves: either it holds the instance lock and touches no file but its
\* own and the locator, or it touches none.  The others keep what they know.
LEMMA FileFrame ==
    ASSUME NEW d \in Daemon, NEW h \in Daemon, d # h, NEW r, NEW K, NEW e, NEW S, NEW l,
           FileInv(d, r, K, e, S, l), NEW K2, NEW e2, NEW S2, NEW l2, K \subseteq K2,
           \/ l = h /\ e2 \in {e, h, Nobody} /\ S2 \subseteq S \cup {h}
           \/ e2 = e /\ S2 = S /\ (l2 = l \/ l \in {h, Nobody})
    PROVE  FileInv(d, r, K2, e2, S2, l2)
<1>1. d # Nobody BY DaemonAssumed DEF DaemonAssumption
<1>2. CASE l = h /\ e2 \in {e, h, Nobody} /\ S2 \subseteq S \cup {h}
  BY <1>1, <1>2 DEF FileInv, Holding, Closing, Starting
<1>3. CASE e2 = e /\ S2 = S /\ (l2 = l \/ l \in {h, Nobody})
  BY <1>1, <1>3 DEF FileInv
<1> QED BY <1>2, <1>3

\* A step of daemon h that leaves clients and connections alone.
LEMMA DaemonMoves ==
    ASSUME DaemonInv, NEW h \in Daemon, NEW r \in DmRow, dm' = [dm EXCEPT ![h] = r],
           UNCHANGED <<cl, conn, startLock>>, Outside',
           FileInv(h, r, killed', endpoint', sockets', instLock'), killed \subseteq killed',
           \/ instLock = h /\ endpoint' \in {endpoint, h, Nobody} /\ sockets' \subseteq sockets \cup {h}
           \/ UNCHANGED <<endpoint, sockets>> /\ (instLock' = instLock \/ instLock \in {h, Nobody}),
           dm[h].pc \notin Dead,
           r.pc \in Dead => WorkersOf(conn, h) = {},
           r.active - r.leaving = dm[h].active - dm[h].leaving
    PROVE  DaemonInv'
<1>1. Tables' BY DEF DaemonInv, Tables
<1>2. ASSUME NEW d \in Daemon
      PROVE  FileInv(d, dm'[d], killed', endpoint', sockets', instLock')
  <2>1. CASE d = h BY <2>1 DEF DaemonInv, Tables
  <2>2. CASE d # h
    <3>1. dm'[d] = dm[d] /\ FileInv(d, dm[d], killed, endpoint, sockets, instLock)
      BY <2>2 DEF DaemonInv, Tables
    <3> QED BY <3>1, <2>2, FileFrame
  <2> QED BY <2>1, <2>2
<1>3. CountInv(dm, conn)' 
  <2>1. ASSUME NEW c \in Client, conn[c].st \in Working
        PROVE  conn[c].to \in Daemon /\ dm'[conn[c].to].pc \notin Dead
    BY <2>1 DEF DaemonInv, CountInv, Tables, WorkersOf
  <2>2. ASSUME NEW d \in Daemon, dm'[d].pc \notin Dead
        PROVE  dm'[d].active = Cardinality(WorkersOf(conn, d)) + dm'[d].leaving
    <3>1. CASE d # h BY <2>2, <3>1 DEF DaemonInv, CountInv, Tables
    <3>2. CASE d = h
      <4>1. dm'[d] = r BY <3>2 DEF DaemonInv, Tables
      <4>2. dm[h].active = Cardinality(WorkersOf(conn, h)) + dm[h].leaving BY DEF DaemonInv, CountInv
      <4>3. WorkersOf(conn, h) \subseteq Client BY DEF WorkersOf
      <4>4. Cardinality(WorkersOf(conn, h)) \in Nat
        BY <4>3, FS_Subset, FS_CardinalityType, DaemonAssumed DEF DaemonAssumption
      <4>5. /\ dm[h].active \in Int /\ dm[h].leaving \in Int /\ r.active \in Int /\ r.leaving \in Int
        BY DaemonAssumed DEF DaemonInv, Tables, DmRow, DaemonAssumption
      <4> HIDE DEF DaemonInv
      <4> QED BY <3>2, <4>1, <4>2, <4>4, <4>5
    <3> QED BY <3>1, <3>2
  <2> QED BY <2>1, <2>2 DEF CountInv, WorkersOf
<1>4. \A c \in Client : LinkInv(cl'[c], conn'[c]) BY DEF DaemonInv
<1> QED BY <1>1, <1>2, <1>3, <1>4 DEF DaemonInv

\* A daemon whose accept thread has not published has no worker.
LEMMA NoWorkersYet ==
    ASSUME DaemonInv, NEW h \in Daemon, dm[h].pc \notin Dead, dm[h].active = 0
    PROVE  WorkersOf(conn, h) = {} /\ dm[h].leaving = 0
<1>1. IsFiniteSet(WorkersOf(conn, h))
  BY FS_Subset, DaemonAssumed DEF DaemonAssumption, WorkersOf
<1>2. Cardinality(WorkersOf(conn, h)) \in Nat BY <1>1, FS_CardinalityType
<1>3. dm[h].leaving \in Nat BY DaemonAssumed DEF DaemonInv, Tables, DmRow, DaemonAssumption
<1>4. 0 = Cardinality(WorkersOf(conn, h)) + dm[h].leaving BY DEF DaemonInv, CountInv
<1>5. Cardinality(WorkersOf(conn, h)) = 0 /\ dm[h].leaving = 0 BY <1>2, <1>3, <1>4
<1> QED BY <1>1, <1>5, FS_EmptySet

\* The same step where only the place of the accept thread changes.
LEMMA PlaceMoves ==
    ASSUME DaemonInv, NEW h \in Daemon, NEW b \in DaemonPc, DaemonGoto(h, b),
           UNCHANGED <<cl, conn, startLock, kills, acked>>,
           endpoint' \in {endpoint, h, Nobody}, sockets' \subseteq sockets \cup {h},
           instLock' \in {instLock, h, Nobody}, killed' \in {killed, killed \cup {h}},
           \A r \in DmRow : /\ r.pc = b /\ r.active = dm[h].active /\ r.leaving = dm[h].leaving
                            /\ FileInv(h, dm[h], killed, endpoint, sockets, instLock)
                            => FileInv(h, r, killed', endpoint', sockets', instLock'),
           \/ instLock = h
           \/ UNCHANGED <<endpoint, sockets>> /\ (instLock' = instLock \/ instLock \in {h, Nobody}),
           dm[h].pc \notin Dead, b \in Dead => dm[h].active = 0
    PROVE  DaemonInv'
<1> DEFINE r == [dm[h] EXCEPT !.pc = b]
<1>1. dm[h] \in DmRow BY DEF DaemonInv, Tables
<1>2. /\ r \in DmRow /\ r.pc = b /\ r.active = dm[h].active /\ r.leaving = dm[h].leaving
  BY <1>1 DEF DmRow
<1>3. dm' = [dm EXCEPT ![h] = r] BY DEF DaemonGoto
<1>4. Outside' BY DEF DaemonInv, Outside
<1>5. FileInv(h, dm[h], killed, endpoint, sockets, instLock) BY DEF DaemonInv
<1> HIDE DEF r
<1>6. FileInv(h, r, killed', endpoint', sockets', instLock') BY <1>2, <1>5
<1>7. r.pc \in Dead => WorkersOf(conn, h) = {} BY <1>2, NoWorkersYet
<1>8. r.active - r.leaving = dm[h].active - dm[h].leaving BY <1>2
<1> QED BY <1>2, <1>3, <1>4, <1>6, <1>7, <1>8, DaemonMoves

-----------------------------------------------------------------------------
(* One lemma per action of a daemon.                                       *)

LEMMA TakeInstanceLockKeeps ==
    ASSUME DaemonInv, NEW d \in Daemon, TakeInstanceLock(d) PROVE DaemonInv'
<1> USE DEF TakeInstanceLock, files, history
<1>1. FileInv(d, dm[d], killed, endpoint, sockets, instLock) BY DEF DaemonInv
<1>2. dm[d].active = 0 /\ endpoint # d /\ d \notin sockets BY <1>1 DEF FileInv, Starting
<1>3. CASE instLock = Nobody /\ instLock' = d /\ DaemonGoto(d, "sweep")
  BY <1>2, <1>3, PlaceMoves DEF DaemonPc, Dead, FileInv, Holding, Closing, Starting
<1>4. CASE instLock # Nobody /\ DaemonGoto(d, "gone") /\ UNCHANGED instLock
  BY <1>2, <1>4, PlaceMoves DEF DaemonPc, Dead, FileInv, Holding, Closing, Starting
<1> QED BY <1>3, <1>4

LEMMA SweepSocketKeeps ==
    ASSUME DaemonInv, NEW d \in Daemon, SweepSocket(d) PROVE DaemonInv'
<1> USE DEF SweepSocket, locks, history
<1>1. FileInv(d, dm[d], killed, endpoint, sockets, instLock) BY DEF DaemonInv
<1>2. dm[d].active = 0 /\ instLock = d /\ endpoint # d /\ d \notin sockets BY <1>1 DEF FileInv, Starting, Holding
<1>3. CASE endpoint = Nobody /\ DaemonGoto(d, "bind") /\ UNCHANGED sockets
  BY <1>2, <1>3, PlaceMoves DEF DaemonPc, Dead, FileInv, Holding, Closing, Starting
<1>4. CASE endpoint # Nobody /\ sockets' = sockets \ {endpoint} /\ DaemonGoto(d, "unlink")
  BY <1>2, <1>4, PlaceMoves DEF DaemonPc, Dead, FileInv, Holding, Closing, Starting
<1> QED BY <1>3, <1>4

LEMMA SweepEndpointKeeps ==
    ASSUME DaemonInv, NEW d \in Daemon, SweepEndpoint(d) PROVE DaemonInv'
<1> USE DEF SweepEndpoint, locks, history
<1>1. FileInv(d, dm[d], killed, endpoint, sockets, instLock) /\ Nobody # d
  BY DaemonAssumed DEF DaemonInv, DaemonAssumption
<1>2. dm[d].active = 0 /\ instLock = d /\ d \notin sockets BY <1>1 DEF FileInv, Starting, Holding
<1> QED BY <1>1, <1>2, PlaceMoves DEF DaemonPc, Dead, FileInv, Holding, Closing, Starting

LEMMA BindSocketKeeps ==
    ASSUME DaemonInv, NEW d \in Daemon, BindSocket(d) PROVE DaemonInv'
<1> USE DEF BindSocket, locks, history
<1>1. FileInv(d, dm[d], killed, endpoint, sockets, instLock) BY DEF DaemonInv
<1>2. dm[d].active = 0 /\ instLock = d /\ endpoint # d BY <1>1 DEF FileInv, Starting, Holding
<1> QED BY <1>2, PlaceMoves DEF DaemonPc, Dead, FileInv, Holding, Closing, Starting

LEMMA BindFailsKeeps ==
    ASSUME DaemonInv, NEW d \in Daemon, BindFails(d) PROVE DaemonInv'
<1> USE DEF BindFails, history
<1>1. FileInv(d, dm[d], killed, endpoint, sockets, instLock) BY DEF DaemonInv
<1>2. dm[d].active = 0 /\ instLock = d /\ endpoint # d BY <1>1 DEF FileInv, Starting, Holding
<1> QED BY <1>2, PlaceMoves DEF DaemonPc, Dead, FileInv, Holding, Closing, Starting

LEMMA PublishEndpointKeeps ==
    ASSUME DaemonInv, NEW d \in Daemon, PublishEndpoint(d) PROVE DaemonInv'
<1> USE DEF PublishEndpoint, locks, history
<1>1. FileInv(d, dm[d], killed, endpoint, sockets, instLock) BY DEF DaemonInv
<1>2. instLock = d /\ d \in sockets BY <1>1 DEF FileInv, Holding
<1> QED BY <1>2, PlaceMoves DEF DaemonPc, Dead, FileInv, Holding, Closing, Starting

\* A signal, the lifetime and the idle limit set the flag and nothing else.
LEMMA AskStopKeeps ==
    ASSUME DaemonInv, NEW d \in Daemon, AskStop(d) \/ Idle(d) PROVE DaemonInv'
<1> DEFINE r == [dm[d] EXCEPT !.stop = TRUE]
<1>1. dm' = [dm EXCEPT ![d] = r] /\ UNCHANGED <<files, locks, cl, conn, history>> /\ dm[d].pc = "check"
  BY DEF AskStop, Idle
<1>2. dm[d] \in DmRow BY DEF DaemonInv, Tables
<1>3. r \in DmRow /\ r.pc = dm[d].pc /\ r.active = dm[d].active /\ r.leaving = dm[d].leaving
  BY <1>2 DEF DmRow
<1> HIDE DEF r
<1>4. FileInv(d, r, killed, endpoint, sockets, instLock) BY <1>3 DEF DaemonInv, FileInv
<1>5. Outside' BY <1>1 DEF DaemonInv, Outside, files, locks, history
<1>6. r.active - r.leaving = dm[d].active - dm[d].leaving BY <1>3
<1> QED BY <1>1, <1>3, <1>4, <1>5, <1>6, DaemonMoves DEF files, locks, history, Dead

LEMMA CheckKeeps ==
    ASSUME DaemonInv, NEW d \in Daemon, Check(d) PROVE DaemonInv'
<1> USE DEF Check, files, locks, history
<1>1. FileInv(d, dm[d], killed, endpoint, sockets, instLock) BY DEF DaemonInv
<1>2. CASE dm[d].stop /\ dm[d].active = 0
  BY <1>1, <1>2, PlaceMoves DEF DaemonPc, Dead, FileInv, Holding, Closing, Starting
<1>3. CASE ~(dm[d].stop /\ dm[d].active = 0)
  BY <1>1, <1>3, PlaceMoves DEF DaemonPc, Dead, FileInv, Holding, Closing, Starting
<1> QED BY <1>2, <1>3

LEMMA NoConnectionKeeps ==
    ASSUME DaemonInv, NEW d \in Daemon, NoConnection(d) PROVE DaemonInv'
BY PlaceMoves DEF NoConnection, files, locks, history, DaemonPc, Dead, FileInv, Holding, Closing, Starting

\* accept fails: the daemon ends although its workers may still run.
LEMMA AcceptFailsKeeps ==
    ASSUME DaemonInv, NEW d \in Daemon, AcceptFails(d) PROVE DaemonInv'
BY PlaceMoves DEF AcceptFails, files, locks, DaemonPc, Dead, FileInv, Holding, Closing, Starting

LEMMA RemoveSocketKeeps ==
    ASSUME DaemonInv, NEW d \in Daemon, RemoveSocket(d) PROVE DaemonInv'
<1>1. FileInv(d, dm[d], killed, endpoint, sockets, instLock) BY DEF DaemonInv
<1>2. instLock = d /\ endpoint = d BY <1>1 DEF FileInv, Holding, Closing, RemoveSocket
<1> QED BY <1>2, PlaceMoves DEF RemoveSocket, locks, history, DaemonPc, Dead, FileInv, Holding, Closing, Starting

LEMMA StatEndpointKeeps ==
    ASSUME DaemonInv, NEW d \in Daemon, StatEndpoint(d) PROVE DaemonInv'
<1>1. FileInv(d, dm[d], killed, endpoint, sockets, instLock) BY DEF DaemonInv
<1>2. endpoint = d BY <1>1 DEF FileInv, StatEndpoint
<1> QED BY <1>2, PlaceMoves DEF StatEndpoint, files, locks, history, DaemonPc, Dead, FileInv, Holding, Closing, Starting

LEMMA RemoveEndpointKeeps ==
    ASSUME DaemonInv, NEW d \in Daemon, RemoveEndpoint(d) PROVE DaemonInv'
<1>1. FileInv(d, dm[d], killed, endpoint, sockets, instLock) /\ Nobody # d
  BY DaemonAssumed DEF DaemonInv, DaemonAssumption
<1>2. instLock = d BY <1>1 DEF FileInv, Holding, Closing, RemoveEndpoint
<1> QED BY <1>1, <1>2, PlaceMoves DEF RemoveEndpoint, locks, history, DaemonPc, Dead, FileInv, Holding, Closing, Starting

\* ActiveConnectionGuardV1::drop takes one off both counts.
LEMMA LeaveKeeps ==
    ASSUME DaemonInv, NEW d \in Daemon, Leave(d) PROVE DaemonInv'
<1> DEFINE r == [dm[d] EXCEPT !.leaving = @ - 1, !.active = @ - 1]
<1>1. dm' = [dm EXCEPT ![d] = r] BY DEF Leave
<1>2. dm[d] \in DmRow /\ dm[d].pc \notin Dead /\ dm[d].leaving > 0
  BY DEF DaemonInv, Tables, Leave, Alive, Dead
<1>3. dm[d].active # 0 BY <1>2, NoWorkersYet
<1>a. dm[d].leaving - 1 \in 0..MaxActive /\ dm[d].active - 1 \in 0..MaxActive
  BY <1>2, <1>3, DaemonAssumed DEF DmRow, DaemonAssumption
<1>4. /\ r \in DmRow /\ r.pc = dm[d].pc /\ r.leaving = dm[d].leaving - 1 /\ r.active = dm[d].active - 1
  BY <1>2, <1>a DEF DmRow
<1> HIDE DEF r
<1>5. FileInv(d, dm[d], killed, endpoint, sockets, instLock) BY DEF DaemonInv
<1>6. FileInv(d, r, killed, endpoint, sockets, instLock) BY <1>2, <1>3, <1>4, <1>5 DEF FileInv, Dead
<1>7. Outside' BY DEF Leave, DaemonInv, Outside, files, locks, history
<1>8. r.active - r.leaving = dm[d].active - dm[d].leaving
  BY <1>2, <1>4, DaemonAssumed DEF DmRow, DaemonAssumption
<1> QED BY <1>1, <1>2, <1>4, <1>6, <1>7, <1>8, DaemonMoves DEF Leave, files, locks, history

-----------------------------------------------------------------------------
(* Connections and the count of their workers.                             *)

LEMMA WorkersFinite ==
    ASSUME NEW cn, NEW d
    PROVE  IsFiniteSet(WorkersOf(cn, d)) /\ Cardinality(WorkersOf(cn, d)) \in Nat
<1>1. IsFiniteSet(WorkersOf(cn, d))
  BY FS_Subset, DaemonAssumed DEF DaemonAssumption, WorkersOf
<1> QED BY <1>1, FS_CardinalityType

\* A connection changes from w to x: a worker begins (gain = 1), ends
\* (gain = -1), or is there as before; and daemon h counts what has changed.
Turns(w, x, h, gain) ==
    /\ gain \in {-1, 0, 1}
    /\ gain = 1 => w.st \notin Working /\ x.st \in Working /\ x.to = h
    /\ gain = -1 => w.st \in Working /\ w.to = h /\ x.st \notin Working
    /\ gain = 0 => \/ w.st \notin Working /\ x.st \notin Working
                   \/ w.st \in Working /\ x.st \in Working /\ x.to = w.to

Counts(s, r, gain) ==
    s.pc \notin Dead /\ r.pc \notin Dead /\ r.active - r.leaving = s.active - s.leaving + gain

LEMMA CountStep ==
    ASSUME NEW D \in [Daemon -> DmRow], NEW cn \in [Client -> ConnRow], CountInv(D, cn),
           NEW c \in Client, NEW h \in Daemon, NEW x \in ConnRow, NEW r \in DmRow,
           NEW gain, Turns(cn[c], x, h, gain), Counts(D[h], r, gain)
    PROVE  CountInv([D EXCEPT ![h] = r], [cn EXCEPT ![c] = x])
<1> USE DEF Turns, Counts
<1> DEFINE D2 == [D EXCEPT ![h] = r]
           cn2 == [cn EXCEPT ![c] = x]
<1>1. D2 \in [Daemon -> DmRow] /\ cn2 \in [Client -> ConnRow] OBVIOUS
<1>2. ASSUME NEW e \in Client, cn2[e].st \in Working
      PROVE  cn2[e].to \in Daemon /\ D2[cn2[e].to].pc \notin Dead
  BY <1>2 DEF CountInv
<1>3. ASSUME NEW d \in Daemon, d # h PROVE WorkersOf(cn2, d) = WorkersOf(cn, d)
  BY <1>3 DEF WorkersOf
<1>4. /\ gain = 1 => WorkersOf(cn2, h) = WorkersOf(cn, h) \cup {c} /\ c \notin WorkersOf(cn, h)
      /\ gain = -1 => WorkersOf(cn2, h) = WorkersOf(cn, h) \ {c} /\ c \in WorkersOf(cn, h)
      /\ gain = 0 => WorkersOf(cn2, h) = WorkersOf(cn, h)
  BY DEF WorkersOf
<1>5. Cardinality(WorkersOf(cn2, h)) = Cardinality(WorkersOf(cn, h)) + gain
  <2>1. CASE gain = 1
    <3>1. Cardinality(WorkersOf(cn2, h)) = Cardinality(WorkersOf(cn, h)) + 1
      BY <1>4, <2>1, WorkersFinite, FS_AddElement
    <3> QED BY <3>1, <2>1
  <2>2. CASE gain = -1
    <3>1. Cardinality(WorkersOf(cn2, h)) = Cardinality(WorkersOf(cn, h)) - 1
      BY <1>4, <2>2, WorkersFinite, FS_RemoveElement
    <3> QED BY <3>1, <2>2, WorkersFinite
  <2>3. CASE gain = 0 BY <1>4, <2>3, WorkersFinite
  <2> QED BY <2>1, <2>2, <2>3
<1>6. ASSUME NEW d \in Daemon, D2[d].pc \notin Dead
      PROVE  D2[d].active = Cardinality(WorkersOf(cn2, d)) + D2[d].leaving
  <2>1. CASE d # h BY <1>3, <1>6, <2>1 DEF CountInv
  <2>2. CASE d = h
    <3>1. D2[d] = r /\ D[h].active = Cardinality(WorkersOf(cn, h)) + D[h].leaving
      BY <2>2 DEF CountInv
    <3>2. /\ D[h].active \in Int /\ D[h].leaving \in Int /\ r.active \in Int /\ r.leaving \in Int
      BY DaemonAssumed DEF DmRow, DaemonAssumption
    <3>3. Cardinality(WorkersOf(cn, h)) \in Nat /\ gain \in Int BY WorkersFinite
    <3> HIDE DEF D2, cn2
    <3> QED BY <2>2, <3>1, <3>2, <3>3, <1>5
  <2> QED BY <2>1, <2>2
<1> QED BY <1>2, <1>6 DEF CountInv

\* A step that concerns the connection of c and the counters of daemon h.
LEMMA WorkerMoves ==
    ASSUME DaemonInv, NEW c \in Client, NEW h \in Daemon,
           NEW x \in ConnRow, NEW y \in ClRow, NEW r \in DmRow,
           conn' = [conn EXCEPT ![c] = x], cl' = [cl EXCEPT ![c] = y], dm' = [dm EXCEPT ![h] = r],
           UNCHANGED <<endpoint, sockets, instLock, killed>>, Outside', LinkInv(y, x),
           FileInv(h, r, killed, endpoint, sockets, instLock),
           NEW gain, Turns(conn[c], x, h, gain), Counts(dm[h], r, gain)
    PROVE  DaemonInv'
<1>1. /\ dm \in [Daemon -> DmRow] /\ conn \in [Client -> ConnRow] /\ cl \in [Client -> ClRow]
      /\ CountInv(dm, conn)
  BY DEF DaemonInv, Tables
<1>2. CountInv(dm', conn') BY <1>1, CountStep
<1>3. Tables' BY <1>1 DEF Tables
<1>4. \A d \in Daemon : FileInv(d, dm'[d], killed, endpoint, sockets, instLock)
  BY <1>1 DEF DaemonInv
<1>5. \A e \in Client : LinkInv(cl'[e], conn'[e]) BY <1>1 DEF DaemonInv
<1>6. CountInv(dm, conn)' BY <1>2 DEF CountInv, WorkersOf
<1> QED BY <1>3, <1>4, <1>5, <1>6 DEF DaemonInv

\* A step of client c that no daemon's counters see.
LEMMA ClientMoves ==
    ASSUME DaemonInv, NEW c \in Client, NEW x \in ConnRow, NEW y \in ClRow,
           conn' = [conn EXCEPT ![c] = x], cl' = [cl EXCEPT ![c] = y],
           UNCHANGED <<dm, endpoint, sockets, instLock, killed>>, Outside', LinkInv(y, x),
           \/ conn[c].st \notin Working /\ x.st \notin Working
           \/ conn[c].st \in Working /\ x.st \in Working /\ x.to = conn[c].to
    PROVE  DaemonInv'
<1>1. /\ dm \in [Daemon -> DmRow] /\ conn \in [Client -> ConnRow] /\ cl \in [Client -> ClRow]
      /\ CountInv(dm, conn)
  BY DEF DaemonInv, Tables
<1>2. Tables' BY <1>1 DEF Tables
<1>3. \A e \in Client : LinkInv(cl'[e], conn'[e]) BY <1>1 DEF DaemonInv
<1>4. ASSUME NEW d \in Daemon PROVE WorkersOf(conn, d)' = WorkersOf(conn, d)
  BY <1>1 DEF WorkersOf
<1>5. \A e \in Client : conn'[e].st \in Working =>
        conn'[e].to \in Daemon /\ dm[conn'[e].to].pc \notin Dead
  BY <1>1 DEF CountInv
<1>6. CountInv(dm, conn)' BY <1>1, <1>4, <1>5 DEF CountInv
<1> QED BY <1>2, <1>3, <1>6 DEF DaemonInv

\* What a hangup leaves of a connection.
LEMMA HangupRows ==
    ASSUME NEW C, conn \in [Client -> ConnRow]
    PROVE  /\ Hangup(C) \in [Client -> ConnRow]
           /\ \A c \in Client : c \notin C => Hangup(C)[c] = conn[c]
           /\ \A c \in Client : c \in C => Hangup(C)[c].st = "none" /\ Hangup(C)[c].to = conn[c].to
<1>1. ASSUME NEW c \in Client
      PROVE  /\ Hangup(C)[c] \in ConnRow
             /\ c \notin C => Hangup(C)[c] = conn[c]
             /\ c \in C => Hangup(C)[c].st = "none" /\ Hangup(C)[c].to = conn[c].to
  BY DEF Hangup, ConnRow, Code
<1>2. Hangup(C) = [c \in Client |-> Hangup(C)[c]] BY DEF Hangup
<1> QED BY <1>1, <1>2

\* The end of daemon d, by its loop or by its death: its connections are hung up.
LEMMA EndOfDaemon ==
    ASSUME DaemonInv, NEW d \in Daemon, DaemonGoto(d, "gone"), conn' = Hangup(At(d, Open)),
           instLock' = Without(instLock, d), killed' \in {killed, killed \cup {d}},
           UNCHANGED <<endpoint, sockets>>, Outside',
           d \notin killed' => dm[d].pc = "unlock",
           cl' \in [Client -> ClRow],
           \A c \in Client : LinkInv(cl[c], conn[c]) /\ conn'[c] = conn[c] => LinkInv(cl'[c], conn'[c]),
           \A c \in Client : cl'[c] = cl[c] \/ conn[c].st = "none"
    PROVE  DaemonInv'
<1> DEFINE r == [dm[d] EXCEPT !.pc = "gone"]
<1>1. /\ dm \in [Daemon -> DmRow] /\ conn \in [Client -> ConnRow] /\ cl \in [Client -> ClRow]
      /\ CountInv(dm, conn)
  BY DEF DaemonInv, Tables
<1>2. r \in DmRow /\ r.pc = "gone" /\ dm' = [dm EXCEPT ![d] = r]
  BY <1>1 DEF DmRow, DaemonPc, DaemonGoto
<1> HIDE DEF r
<1>3. /\ conn' \in [Client -> ConnRow]
      /\ \A c \in Client : c \notin At(d, Open) => conn'[c] = conn[c]
      /\ \A c \in Client : c \in At(d, Open) => conn'[c].st = "none" /\ conn'[c].to = conn[c].to
  BY <1>1, HangupRows
<1>4. Tables' BY <1>1, <1>2, <1>3 DEF Tables
<1>5. ASSUME NEW e \in Daemon
      PROVE  FileInv(e, dm'[e], killed', endpoint', sockets', instLock')
  <2>1. FileInv(e, dm[e], killed, endpoint, sockets, instLock) BY DEF DaemonInv
  <2>2. CASE e = d
    <3>1. dm'[e] = r BY <1>1, <1>2, <2>2
    <3> QED BY <1>2, <2>1, <2>2, <3>1 DEF FileInv, Holding, Closing, Starting
  <2>3. CASE e # d
    <3>1. dm'[e] = dm[e] BY <1>1, <1>2, <2>3
    <3>2. instLock' = instLock \/ instLock \in {d, Nobody} BY DEF Without
    <3> QED BY <2>1, <2>3, <3>1, <3>2, FileFrame
  <2> QED BY <2>2, <2>3
<1>6. ASSUME NEW c \in Client PROVE LinkInv(cl'[c], conn'[c])
  <2>1. LinkInv(cl[c], conn[c]) BY DEF DaemonInv
  <2>2. CASE c \notin At(d, Open) BY <1>3, <2>1, <2>2
  <2>3. CASE c \in At(d, Open)
    <3>1. cl'[c] = cl[c] BY <2>3 DEF At, Open
    <3> QED BY <1>3, <2>1, <2>3, <3>1 DEF LinkInv
  <2> QED BY <2>2, <2>3
<1>7. ASSUME NEW c \in Client, conn'[c].st \in Working
      PROVE  conn'[c].to \in Daemon /\ dm'[conn'[c].to].pc \notin Dead
  <2>1. c \notin At(d, Open) /\ conn'[c] = conn[c] BY <1>3, <1>7 DEF Working
  <2>2. conn[c].to # d BY <2>1, <1>7 DEF At, Working, Open
  <2> QED BY <1>1, <1>2, <1>7, <2>1, <2>2 DEF CountInv
<1>8. ASSUME NEW e \in Daemon, dm'[e].pc \notin Dead
      PROVE  dm'[e].active = Cardinality(WorkersOf(conn, e)') + dm'[e].leaving
  <2>1. e # d /\ dm'[e] = dm[e] BY <1>1, <1>2, <1>8 DEF Dead
  <2>2. WorkersOf(conn, e)' = WorkersOf(conn, e) BY <1>3, <2>1 DEF WorkersOf, At, Working
  <2> QED BY <1>1, <1>8, <2>1, <2>2 DEF CountInv
<1>9. CountInv(dm, conn)' BY <1>7, <1>8 DEF CountInv
<1> QED BY <1>4, <1>5, <1>6, <1>9 DEF DaemonInv

\* The accept thread answers that it is busy, or starts a worker.
LEMMA AcceptKeeps ==
    ASSUME DaemonInv, NEW d \in Daemon, NEW c \in Client, Accept(d, c) PROVE DaemonInv'
<1>1. /\ dm[d] \in DmRow /\ conn[c] \in ConnRow /\ cl[c] \in ClRow
      /\ cl \in [Client -> ClRow] /\ LinkInv(cl[c], conn[c])
      /\ FileInv(d, dm[d], killed, endpoint, sockets, instLock)
  BY DEF DaemonInv, Tables
<1>2. /\ dm[d].pc = "accept" /\ conn[c].to = d /\ conn[c].st = "queued"
      /\ UNCHANGED <<files, locks, cl, history>>
  BY DEF Accept, At
<1>3. Outside' BY <1>2 DEF DaemonInv, Outside, files, locks, history
<1>4. cl' = [cl EXCEPT ![c] = cl[c]] BY <1>1, <1>2
<1>5. CASE /\ conn' = [conn EXCEPT ![c].st = "none", ![c].reply = "busy"]
           /\ DaemonGoto(d, "check")
  <2> DEFINE x == [conn[c] EXCEPT !.st = "none", !.reply = "busy"]
             r == [dm[d] EXCEPT !.pc = "check"]
  <2>1. conn' = [conn EXCEPT ![c] = x] /\ dm' = [dm EXCEPT ![d] = r] BY <1>5 DEF DaemonGoto
  <2>2. x \in ConnRow /\ x.st = "none" BY <1>1 DEF ConnRow, Code
  <2>3. /\ r \in DmRow /\ r.pc = "check" /\ r.active = dm[d].active /\ r.leaving = dm[d].leaving
    BY <1>1 DEF DmRow, DaemonPc
  <2> HIDE DEF x, r
  <2>4. LinkInv(cl[c], x) BY <1>1, <2>2 DEF LinkInv
  <2>5. FileInv(d, r, killed, endpoint, sockets, instLock)
    BY <1>1, <1>2, <2>3 DEF FileInv, Holding, Closing, Starting
  <2>6. Counts(dm[d], r, 0)
    BY <1>1, <1>2, <2>3, DaemonAssumed DEF Counts, Dead, DmRow, DaemonAssumption
  <2>7. Turns(conn[c], x, d, 0) BY <1>2, <2>2 DEF Turns, Working
  <2>8. UNCHANGED <<endpoint, sockets, instLock, killed>> BY <1>2 DEF files, locks, history
  <2> QED BY <1>1, <1>3, <1>4, <2>1, <2>2, <2>3, <2>4, <2>5, <2>6, <2>7, <2>8, WorkerMoves
<1>6. CASE /\ dm[d].active < MaxActive
           /\ conn' = [conn EXCEPT ![c].st = "held"]
           /\ dm' = [dm EXCEPT ![d].pc = "check", ![d].active = @ + 1]
  <2> DEFINE x == [conn[c] EXCEPT !.st = "held"]
             r == [dm[d] EXCEPT !.pc = "check", !.active = @ + 1]
  <2>1. conn' = [conn EXCEPT ![c] = x] /\ dm' = [dm EXCEPT ![d] = r] BY <1>6
  <2>2. x \in ConnRow /\ x.st = "held" /\ x.to = d /\ x.reply = conn[c].reply
    BY <1>1, <1>2 DEF ConnRow, Open
  <2>a. dm[d].active + 1 \in 0..MaxActive BY <1>1, <1>6, DaemonAssumed DEF DmRow, DaemonAssumption
  <2>3. /\ r \in DmRow /\ r.pc = "check" /\ r.active = dm[d].active + 1 /\ r.leaving = dm[d].leaving
    BY <1>1, <2>a DEF DmRow, DaemonPc
  <2> HIDE DEF x, r
  <2>4. LinkInv(cl[c], x) BY <1>1, <1>2, <2>2 DEF LinkInv
  <2>5. FileInv(d, r, killed, endpoint, sockets, instLock)
    BY <1>1, <1>2, <2>3 DEF FileInv, Holding, Closing, Starting
  <2>6. Counts(dm[d], r, 1)
    BY <1>1, <1>2, <2>3, DaemonAssumed DEF Counts, Dead, DmRow, DaemonAssumption
  <2>7. Turns(conn[c], x, d, 1) BY <1>2, <2>2 DEF Turns, Working
  <2>8. UNCHANGED <<endpoint, sockets, instLock, killed>> BY <1>2 DEF files, locks, history
  <2> QED BY <1>1, <1>3, <1>4, <2>1, <2>2, <2>3, <2>4, <2>5, <2>6, <2>7, <2>8, WorkerMoves
<1> QED BY <1>5, <1>6 DEF Accept

\* The listener is closed: what was queued sees the end of its stream.
LEMMA CloseListenerKeeps ==
    ASSUME DaemonInv, NEW d \in Daemon, CloseListener(d) PROVE DaemonInv'
<1> DEFINE r == [dm[d] EXCEPT !.pc = "rmsock"]
<1>1. /\ dm \in [Daemon -> DmRow] /\ conn \in [Client -> ConnRow] /\ cl \in [Client -> ClRow]
      /\ CountInv(dm, conn)
  BY DEF DaemonInv, Tables
<1>2. /\ r \in DmRow /\ r.pc = "rmsock" /\ r.active = dm[d].active /\ r.leaving = dm[d].leaving
      /\ dm' = [dm EXCEPT ![d] = r] /\ dm[d].pc = "close"
  BY <1>1 DEF DmRow, DaemonPc, DaemonGoto, CloseListener
<1> HIDE DEF r
<1>3. UNCHANGED <<endpoint, sockets, instLock, startLock, cl, kills, killed, acked>>
  BY DEF CloseListener, files, locks, history
<1>4. conn' = Hangup(At(d, {"queued"})) BY DEF CloseListener
<1>5. /\ conn' \in [Client -> ConnRow]
      /\ \A c \in Client : \/ conn'[c] = conn[c]
                           \/ conn[c].st = "queued" /\ conn'[c].st = "none"
  BY <1>1, <1>4, HangupRows DEF At
<1>6. Tables' /\ Outside' BY <1>1, <1>2, <1>3, <1>5 DEF Tables, DaemonInv, Outside
<1>7. ASSUME NEW e \in Daemon PROVE FileInv(e, dm'[e], killed, endpoint, sockets, instLock)
  <2>1. FileInv(e, dm[e], killed, endpoint, sockets, instLock) BY DEF DaemonInv
  <2>2. CASE e # d BY <1>1, <1>2, <2>1, <2>2
  <2>3. CASE e = d
    <3>1. dm'[e] = r BY <1>1, <1>2, <2>3
    <3> QED BY <1>2, <2>1, <2>3, <3>1 DEF FileInv, Holding, Closing, Starting
  <2> QED BY <2>2, <2>3
<1>8. ASSUME NEW c \in Client PROVE LinkInv(cl[c], conn'[c])
  <2>1. LinkInv(cl[c], conn[c]) BY DEF DaemonInv
  <2> QED BY <1>5, <2>1 DEF LinkInv
<1>9. ASSUME NEW e \in Daemon
      PROVE  /\ dm'[e].pc \notin Dead <=> dm[e].pc \notin Dead
             /\ dm'[e].active = dm[e].active /\ dm'[e].leaving = dm[e].leaving
             /\ WorkersOf(conn, e)' = WorkersOf(conn, e)
  <2>1. WorkersOf(conn, e)' = WorkersOf(conn, e) BY <1>5 DEF WorkersOf, Working
  <2> QED BY <1>1, <1>2, <2>1 DEF Dead
<1>10. \A c \in Client : conn'[c].st \in Working =>
         conn'[c].to \in Daemon /\ dm'[conn'[c].to].pc \notin Dead
  BY <1>1, <1>5, <1>9 DEF CountInv, Working
<1>11. CountInv(dm, conn)' BY <1>1, <1>9, <1>10 DEF CountInv
<1> QED BY <1>3, <1>6, <1>7, <1>8, <1>11 DEF DaemonInv

\* The lock is dropped last, when nothing is left.
LEMMA UnlockKeeps ==
    ASSUME DaemonInv, NEW d \in Daemon, Unlock(d) PROVE DaemonInv'
<1>1. Outside'
  BY DEF Unlock, DaemonInv, Outside, files, history, Without
<1>2. cl' = cl /\ cl \in [Client -> ClRow] BY DEF Unlock, DaemonInv, Tables
<1> QED BY <1>1, <1>2, EndOfDaemon DEF Unlock, files, history

LEMMA KillDaemonKeeps ==
    ASSUME DaemonInv, NEW d \in Daemon, KillDaemon(d) PROVE DaemonInv'
<1>1. Outside'
  BY DaemonAssumed DEF KillDaemon, Dies, DaemonInv, Outside, files, Without, DaemonAssumption
<1>2. cl' = cl /\ cl \in [Client -> ClRow] BY DEF KillDaemon, DaemonInv, Tables
<1> QED BY <1>1, <1>2, EndOfDaemon DEF KillDaemon, Dies, files

-----------------------------------------------------------------------------
(* handle_connection_v1.                                                   *)

\* A worker that answers is left with the guard to drop; so is one whose client
\* is gone.  r is the daemon's row with one more leaving.
LEMMA WorkerLeaves ==
    ASSUME DaemonInv, NEW c \in Client, conn[c].st \in Working,
           NEW stop \in BOOLEAN, NEW x \in ConnRow, x.st = "none", NEW y \in ClRow, LinkInv(y, x),
           conn' = [conn EXCEPT ![c] = x], cl' = [cl EXCEPT ![c] = y],
           dm' = [dm EXCEPT ![conn[c].to] =
                    [dm[conn[c].to] EXCEPT !.stop = stop, !.leaving = @ + 1]],
           UNCHANGED <<endpoint, sockets, instLock, killed>>, Outside'
    PROVE  DaemonInv'
<1> DEFINE h == conn[c].to
           r == [dm[h] EXCEPT !.stop = stop, !.leaving = @ + 1]
<1>1. h \in Daemon /\ dm[h].pc \notin Dead /\ dm[h] \in DmRow
  BY DEF DaemonInv, CountInv, Tables
<1>2. dm[h].active = Cardinality(WorkersOf(conn, h)) + dm[h].leaving
  BY <1>1 DEF DaemonInv, CountInv
<1>3. c \in WorkersOf(conn, h) BY DEF WorkersOf
<1>4. Cardinality(WorkersOf(conn, h)) \in Nat \ {0} BY <1>3, WorkersFinite, FS_EmptySet
<1>5. dm[h].leaving + 1 \in 0..MaxActive
  BY <1>1, <1>2, <1>4, DaemonAssumed DEF DmRow, DaemonAssumption
<1>6. /\ r \in DmRow /\ r.pc = dm[h].pc /\ r.active = dm[h].active
      /\ r.leaving = dm[h].leaving + 1
  BY <1>1, <1>5 DEF DmRow
<1>7. dm' = [dm EXCEPT ![h] = r] OBVIOUS
<1> HIDE DEF h, r
<1>8. FileInv(h, dm[h], killed, endpoint, sockets, instLock) BY <1>1 DEF DaemonInv
<1>9. FileInv(h, r, killed, endpoint, sockets, instLock) BY <1>1, <1>6, <1>8 DEF FileInv, Dead
<1>10. Counts(dm[h], r, -1)
  BY <1>1, <1>6, DaemonAssumed DEF Counts, DmRow, DaemonAssumption
<1>11. conn[c].to = h BY DEF h
<1>12. Turns(conn[c], x, h, -1) BY <1>11 DEF Turns, Working
<1> QED BY <1>1, <1>6, <1>7, <1>9, <1>10, <1>12, WorkerMoves

LEMMA FinishKeeps ==
    ASSUME DaemonInv, NEW c \in Client, NEW code \in Code, conn[c].st \in Working, Finish(c, code),
           UNCHANGED <<endpoint, sockets, instLock, killed, cl>>, Outside'
    PROVE  DaemonInv'
<1> DEFINE x == [conn[c] EXCEPT !.st = "none", !.reply = code]
           h == conn[c].to
<1>1. conn[c] \in ConnRow /\ cl \in [Client -> ClRow] /\ LinkInv(cl[c], conn[c])
  BY DEF DaemonInv, Tables
<1>2. x \in ConnRow /\ x.st = "none" BY <1>1 DEF ConnRow
<1>3. LinkInv(cl[c], x) BY <1>1, <1>2 DEF LinkInv
<1>4. conn' = [conn EXCEPT ![c] = x] BY DEF Finish
<1>5. cl' = [cl EXCEPT ![c] = cl[c]] BY <1>1
<1>6. h \in Daemon /\ dm[h] \in DmRow BY DEF DaemonInv, Tables, CountInv
<1>7. dm[h].stop \in BOOLEAN /\ [dm[h] EXCEPT !.stop = dm[h].stop, !.leaving = @ + 1] = [dm[h] EXCEPT !.leaving = @ + 1]
  BY <1>6 DEF DmRow
<1>8. dm' = [dm EXCEPT ![h] = [dm[h] EXCEPT !.stop = dm[h].stop, !.leaving = @ + 1]]
  BY <1>7 DEF Finish
<1> HIDE DEF x
<1> QED BY <1>1, <1>2, <1>3, <1>4, <1>5, <1>7, <1>8, WorkerLeaves

LEMMA HandleKeeps ==
    ASSUME DaemonInv, NEW c \in Client, Handle(c) PROVE DaemonInv'
<1>1. /\ conn[c] \in ConnRow /\ cl \in [Client -> ClRow] /\ conn \in [Client -> ConnRow]
      /\ LinkInv(cl[c], conn[c]) /\ cl[c] \in ClRow
  BY DEF DaemonInv, Tables
<1>2. conn[c].st = "held" /\ UNCHANGED <<endpoint, sockets, instLock, startLock, cl, kills, killed>>
  BY DEF Handle, files, locks
<1>3. conn[c].to \in Daemon BY <1>2 DEF DaemonInv, CountInv, Working
<1>4. acked' \subseteq Daemon BY <1>3 DEF Handle, DaemonInv, Outside
<1>5. Outside' BY <1>2, <1>4 DEF DaemonInv, Outside
<1>6. cl' = [cl EXCEPT ![c] = cl[c]] BY <1>1, <1>2
<1>7. ASSUME NEW code \in Code, Finish(c, code) PROVE DaemonInv'
  BY <1>2, <1>5, <1>7, FinishKeeps DEF Working
<1>8. CASE conn' = [conn EXCEPT ![c].st = "stopping", ![c].reply = "ready"] /\ UNCHANGED dm
  <2> DEFINE x == [conn[c] EXCEPT !.st = "stopping", !.reply = "ready"]
  <2>1. conn' = [conn EXCEPT ![c] = x] BY <1>8
  <2>2. x \in ConnRow /\ x.st = "stopping" /\ x.to = conn[c].to /\ x.reply = "ready"
    BY <1>1 DEF ConnRow, Open, Code
  <2> HIDE DEF x
  <2>3. LinkInv(cl[c], x) BY <1>1, <1>2, <2>2 DEF LinkInv
  <2> QED BY <1>1, <1>2, <1>5, <1>6, <1>8, <2>1, <2>2, <2>3, ClientMoves DEF Working
<1>9. CASE conn' = [conn EXCEPT ![c].st = "build"] /\ UNCHANGED dm
  <2> DEFINE x == [conn[c] EXCEPT !.st = "build"]
  <2>1. conn' = [conn EXCEPT ![c] = x] BY <1>9
  <2>2. x \in ConnRow /\ x.st = "build" /\ x.to = conn[c].to /\ x.reply = conn[c].reply
    BY <1>1 DEF ConnRow, Open
  <2> HIDE DEF x
  <2>3. LinkInv(cl[c], x) BY <1>1, <1>2, <2>2 DEF LinkInv
  <2> QED BY <1>1, <1>2, <1>5, <1>6, <1>9, <2>1, <2>2, <2>3, ClientMoves DEF Working
<1>10. Mode[c] \in {"mcp", "stop", "status"} BY DaemonAssumed DEF DaemonAssumption
<1>11. "ready" \in Code /\ "draining" \in Code BY DEF Code
<1>12. \/ Finish(c, "ready") \/ Finish(c, "draining")
       \/ conn' = [conn EXCEPT ![c].st = "stopping", ![c].reply = "ready"] /\ UNCHANGED dm
       \/ conn' = [conn EXCEPT ![c].st = "build"] /\ UNCHANGED dm
  <2>1. CASE Mode[c] = "status" BY <2>1 DEF Handle
  <2>2. CASE Mode[c] = "stop" BY <2>2 DEF Handle
  <2>3. CASE Mode[c] = "mcp" /\ dm[conn[c].to].stop BY <2>3 DEF Handle
  <2>4. CASE Mode[c] = "mcp" /\ ~dm[conn[c].to].stop BY <2>4 DEF Handle
  <2> QED BY <1>10, <2>1, <2>2, <2>3, <2>4
<1> QED BY <1>7, <1>8, <1>9, <1>11, <1>12

LEMMA SetStopKeeps ==
    ASSUME DaemonInv, NEW c \in Client, SetStop(c) PROVE DaemonInv'
<1> DEFINE x == [conn[c] EXCEPT !.st = "none"]
<1>1. conn[c] \in ConnRow /\ cl \in [Client -> ClRow] /\ LinkInv(cl[c], conn[c]) /\ cl[c] \in ClRow
  BY DEF DaemonInv, Tables
<1>2. x \in ConnRow /\ x.st = "none" BY <1>1 DEF ConnRow
<1>3. /\ conn' = [conn EXCEPT ![c] = x]
      /\ dm' = [dm EXCEPT ![conn[c].to] =
                  [dm[conn[c].to] EXCEPT !.stop = TRUE, !.leaving = @ + 1]]
      /\ UNCHANGED <<endpoint, sockets, instLock, startLock, cl, kills, killed, acked>>
      /\ conn[c].st \in Working
  BY DEF SetStop, files, locks, history, Working
<1> HIDE DEF x
<1>4. LinkInv(cl[c], x) BY <1>1, <1>2 DEF LinkInv
<1>5. Outside' BY <1>3 DEF DaemonInv, Outside
<1>6. cl' = [cl EXCEPT ![c] = cl[c]] BY <1>1, <1>3
<1> QED BY <1>1, <1>2, <1>3, <1>4, <1>5, <1>6, WorkerLeaves

LEMMA BuildKeeps ==
    ASSUME DaemonInv, NEW c \in Client, Build(c) PROVE DaemonInv'
<1>1. /\ conn[c] \in ConnRow /\ cl \in [Client -> ClRow] /\ LinkInv(cl[c], conn[c])
      /\ cl[c] \in ClRow
  BY DEF DaemonInv, Tables
<1>2. conn[c].st = "build" /\ UNCHANGED <<endpoint, sockets, instLock, startLock, cl, kills, killed, acked>>
  BY DEF Build, files, locks, history
<1>3. Outside' BY <1>2 DEF DaemonInv, Outside
<1>4. CASE conn' = [conn EXCEPT ![c].st = "session", ![c].reply = "ready"] /\ UNCHANGED dm
  <2> DEFINE x == [conn[c] EXCEPT !.st = "session", !.reply = "ready"]
  <2>1. conn' = [conn EXCEPT ![c] = x] BY <1>4
  <2>2. x \in ConnRow /\ x.st = "session" /\ x.to = conn[c].to /\ x.reply = "ready"
    BY <1>1 DEF ConnRow, Open, Code
  <2> HIDE DEF x
  <2>3. LinkInv(cl[c], x) BY <1>1, <1>2, <2>2 DEF LinkInv
  <2>4. cl' = [cl EXCEPT ![c] = cl[c]] BY <1>1, <1>2
  <2> QED BY <1>1, <1>2, <1>3, <1>4, <2>1, <2>2, <2>3, <2>4, ClientMoves DEF Working
<1>5. CASE Finish(c, "internal")
  BY <1>2, <1>3, <1>5, FinishKeeps DEF Working, Code
<1> QED BY <1>4, <1>5 DEF Build

-----------------------------------------------------------------------------
(* The clients.                                                            *)

\* A client goes on without touching its connection or any daemon.
LEMMA ClientThinks ==
    ASSUME DaemonInv, NEW c \in Client, NEW y \in ClRow, cl' = [cl EXCEPT ![c] = y],
           UNCHANGED <<files, instLock, dm, conn, history>>, startLock' \in {startLock, c, Nobody},
           LinkInv(cl[c], conn[c]) => LinkInv(y, conn[c])
    PROVE  DaemonInv'
<1>1. conn[c] \in ConnRow /\ LinkInv(y, conn[c]) /\ conn' = [conn EXCEPT ![c] = conn[c]]
  BY DEF DaemonInv, Tables
<1>2. Outside' BY DEF DaemonInv, Outside, files, history
<1>3. UNCHANGED <<dm, endpoint, sockets, instLock, killed>> BY DEF files, history
<1> QED BY <1>1, <1>2, <1>3, ClientMoves

\* The same for a new place: those that mean an idle connection are reached from
\* each other.
LEMMA ClientGoes ==
    ASSUME DaemonInv, NEW c \in Client, NEW p \in ClientPc, ClientGoto(c, p),
           UNCHANGED <<files, instLock, dm, conn, history>>, startLock' \in {startLock, c, Nobody},
           \/ p \in {"session", "done", "dead"}
           \/ cl[c].pc \in {"read", "dial", "error", "elect", "spawn", "failed"}
    PROVE  DaemonInv'
<1> DEFINE y == [cl[c] EXCEPT !.pc = p]
<1>1. cl[c] \in ClRow BY DEF DaemonInv, Tables
<1>2. /\ y \in ClRow /\ y.pc = p /\ y.at = cl[c].at /\ y.child = cl[c].child
      /\ cl' = [cl EXCEPT ![c] = y]
  BY <1>1 DEF ClRow, ClientGoto
<1> HIDE DEF y
<1>3. LinkInv(cl[c], conn[c]) => LinkInv(y, conn[c]) BY <1>2 DEF LinkInv
<1> QED BY <1>2, <1>3, ClientThinks

LEMMA ErrsRow ==
    ASSUME DaemonInv, NEW c \in Client, NEW e \in Error, Errs(c, e)
    PROVE  \E y \in ClRow : /\ cl' = [cl EXCEPT ![c] = y] /\ y.pc = "error"
                            /\ y.at = cl[c].at /\ y.child = cl[c].child
<1>1. cl[c] \in ClRow BY DEF DaemonInv, Tables
<1> DEFINE y == [cl[c] EXCEPT !.pc = "error", !.err = e]
<1>2. y \in ClRow BY <1>1 DEF ClRow, ClientPc
<1>3. /\ cl' = [cl EXCEPT ![c] = y] /\ y.pc = "error"
      /\ y.at = cl[c].at /\ y.child = cl[c].child
  BY <1>1 DEF ClRow, Errs
<1> QED BY <1>2, <1>3

LEMMA ReadEndpointKeeps ==
    ASSUME DaemonInv, NEW c \in Client, ReadEndpoint(c) PROVE DaemonInv'
<1>1. cl[c] \in ClRow /\ LinkInv(cl[c], conn[c]) /\ cl[c].pc = "read"
      /\ UNCHANGED <<files, instLock, startLock, dm, conn, history>>
  BY DEF DaemonInv, Tables, ReadEndpoint, locks
<1>2. conn[c].st = "none" BY <1>1 DEF LinkInv
<1>3. CASE Errs(c, "notfound")
  <2>1. PICK y \in ClRow : /\ cl' = [cl EXCEPT ![c] = y] /\ y.pc = "error"
                           /\ y.at = cl[c].at /\ y.child = cl[c].child
    BY <1>3, ErrsRow DEF Error
  <2>2. LinkInv(cl[c], conn[c]) => LinkInv(y, conn[c]) BY <1>2, <2>1 DEF LinkInv
  <2> QED BY <1>1, <2>1, <2>2, ClientThinks
<1>4. CASE endpoint # Nobody /\ cl' = [cl EXCEPT ![c].pc = "dial", ![c].seen = endpoint]
  <2> DEFINE y == [cl[c] EXCEPT !.pc = "dial", !.seen = endpoint]
  <2>1. endpoint \in Daemon \cup {Nobody} BY DEF DaemonInv, Outside
  <2>2. y \in ClRow /\ y.pc = "dial" /\ y.at = cl[c].at /\ y.child = cl[c].child
        /\ cl' = [cl EXCEPT ![c] = y]
    BY <1>1, <1>4, <2>1 DEF ClRow, ClientPc
  <2> HIDE DEF y
  <2>3. LinkInv(cl[c], conn[c]) => LinkInv(y, conn[c]) BY <1>2, <2>2 DEF LinkInv
  <2> QED BY <1>1, <2>2, <2>3, ClientThinks
<1> QED BY <1>3, <1>4 DEF ReadEndpoint

LEMMA DialKeeps ==
    ASSUME DaemonInv, NEW c \in Client, Dial(c) PROVE DaemonInv'
<1>1. cl[c] \in ClRow /\ LinkInv(cl[c], conn[c]) /\ cl[c].pc = "dial"
      /\ UNCHANGED <<files, instLock, startLock, dm, history>>
  BY DEF DaemonInv, Tables, Dial, locks
<1>2. conn[c].st = "none" BY <1>1 DEF LinkInv
<1>3. ASSUME NEW e \in Error, Errs(c, e), UNCHANGED conn PROVE DaemonInv'
  <2>1. PICK y \in ClRow : /\ cl' = [cl EXCEPT ![c] = y] /\ y.pc = "error"
                           /\ y.at = cl[c].at /\ y.child = cl[c].child
    BY <1>3, ErrsRow
  <2>2. LinkInv(cl[c], conn[c]) => LinkInv(y, conn[c]) BY <1>2, <2>1 DEF LinkInv
  <2> QED BY <1>1, <1>3, <2>1, <2>2, ClientThinks
<1>4. CASE /\ conn' = [conn EXCEPT ![c] = [to |-> cl[c].seen, st |-> "queued", reply |-> Nobody]]
           /\ ClientGoto(c, "reply")
  <2> DEFINE y == [cl[c] EXCEPT !.pc = "reply"]
             x == [to |-> cl[c].seen, st |-> "queued", reply |-> Nobody]
  <2>1. y \in ClRow /\ y.pc = "reply" /\ y.at = cl[c].at /\ y.child = cl[c].child
        /\ cl' = [cl EXCEPT ![c] = y]
    BY <1>1, <1>4 DEF ClRow, ClientPc, ClientGoto
  <2>2. x \in ConnRow /\ x.st = "queued" /\ x.reply = Nobody BY <1>1 DEF ClRow, ConnRow, Open
  <2>3. conn' = [conn EXCEPT ![c] = x] BY <1>4
  <2> HIDE DEF x, y
  <2>4. LinkInv(y, x) BY <1>1, <2>1, <2>2 DEF LinkInv
  <2>5. Outside' /\ UNCHANGED <<dm, endpoint, sockets, instLock, killed>>
    BY <1>1 DEF DaemonInv, Outside, files, history
  <2>6. conn[c].st \notin Working /\ x.st \notin Working BY <1>2, <2>2 DEF Working
  <2> QED BY <2>1, <2>2, <2>3, <2>4, <2>5, <2>6, ClientMoves
<1>5. "notfound" \in Error /\ "refused" \in Error BY DEF Error
<1>6. CASE cl[c].seen \notin sockets BY <1>3, <1>5, <1>6 DEF Dial
<1>7. CASE cl[c].seen \in sockets /\ ~Listening(cl[c].seen) BY <1>3, <1>5, <1>7 DEF Dial
<1>8. CASE cl[c].seen \in sockets /\ Listening(cl[c].seen) BY <1>4, <1>8 DEF Dial
<1> QED BY <1>6, <1>7, <1>8

LEMMA ReplyKeeps ==
    ASSUME DaemonInv, NEW c \in Client, Reply(c) PROVE DaemonInv'
<1>1. /\ cl[c] \in ClRow /\ LinkInv(cl[c], conn[c]) /\ cl[c].pc = "reply" /\ conn[c] \in ConnRow
      /\ UNCHANGED <<files, instLock, dm, history>>
  BY DEF DaemonInv, Tables, Reply
<1>2. CASE conn[c].reply = "ready"
  <2>1. /\ ClientGoto(c, IF Mode[c] = "mcp" THEN "session" ELSE "done")
        /\ startLock' \in {startLock, c, Nobody} /\ UNCHANGED conn
    BY <1>2 DEF Reply, Without
  <2>2. CASE Mode[c] = "mcp" BY <1>1, <2>1, <2>2, ClientGoes DEF ClientPc
  <2>3. CASE Mode[c] # "mcp" BY <1>1, <2>1, <2>3, ClientGoes DEF ClientPc
  <2> QED BY <2>2, <2>3
<1>3. CASE conn[c].reply # "ready"
  <2>1. /\ Errs(c, conn[c].reply) /\ conn' = [conn EXCEPT ![c] = NoConn] /\ UNCHANGED startLock
        /\ conn[c].reply # Nobody
    BY <1>3 DEF Reply
  <2>2. conn[c].reply \in Error BY <1>1, <1>3, <2>1 DEF ConnRow, Error
  <2>3. PICK y \in ClRow : /\ cl' = [cl EXCEPT ![c] = y] /\ y.pc = "error"
                           /\ y.at = cl[c].at /\ y.child = cl[c].child
    BY <2>1, <2>2, ErrsRow
  <2>4. NoConn \in ConnRow /\ NoConn.st = "none" BY DEF NoConn, ConnRow
  <2>5. LinkInv(y, NoConn) BY <1>1, <2>3, <2>4 DEF LinkInv
  <2>6. conn[c].st \notin Working /\ NoConn.st \notin Working
    BY <1>1, <1>3, <2>1, <2>4 DEF LinkInv, Working
  <2>7. Outside' /\ UNCHANGED <<dm, endpoint, sockets, instLock, killed>>
    BY <1>1, <2>1 DEF DaemonInv, Outside, files, history
  <2> QED BY <2>1, <2>3, <2>4, <2>5, <2>6, <2>7, ClientMoves
<1> QED BY <1>2, <1>3

\* A client that leaves its connection: its worker, if it has one, ends, unless
\* it is past its answer and goes on to stop the daemon.
LEMMA AbandonKeeps ==
    ASSUME DaemonInv, NEW c \in Client, NEW y \in ClRow, cl' = [cl EXCEPT ![c] = y],
           Abandon(c), UNCHANGED <<files, instLock, killed>>, Outside',
           y.at = cl[c].at, y.child = cl[c].child,
           conn[c].st = "stopping" => y.pc \in {"done", "dead"}
    PROVE  DaemonInv'
<1>1. /\ cl[c] \in ClRow /\ LinkInv(cl[c], conn[c]) /\ conn[c] \in ConnRow
      /\ conn \in [Client -> ConnRow] /\ dm \in [Daemon -> DmRow] /\ CountInv(dm, conn)
  BY DEF DaemonInv, Tables
<1>2. UNCHANGED <<endpoint, sockets, instLock, killed>> BY DEF files
<1>3. NoConn \in ConnRow /\ NoConn.st = "none" BY DEF NoConn, ConnRow
<1>4. LinkInv(y, NoConn) BY <1>1, <1>3 DEF LinkInv
<1>5. CASE conn[c].st = "stopping"
  <2>1. conn' = [conn EXCEPT ![c] = conn[c]] /\ dm' = dm BY <1>1, <1>5 DEF Abandon
  <2>2. LinkInv(y, conn[c]) BY <1>1, <1>5 DEF LinkInv
  <2> QED BY <1>1, <1>2, <1>5, <2>1, <2>2, ClientMoves DEF Working
<1>6. CASE conn[c].st \in {"held", "build", "session"}
  <2> DEFINE h == conn[c].to
  <2>1. h \in Daemon /\ dm[h] \in DmRow BY <1>1, <1>6 DEF CountInv, Working
  <2>2. dm[h].stop \in BOOLEAN
        /\ [dm[h] EXCEPT !.stop = dm[h].stop, !.leaving = @ + 1] = [dm[h] EXCEPT !.leaving = @ + 1]
    BY <2>1 DEF DmRow
  <2>3. /\ conn' = [conn EXCEPT ![c] = NoConn]
        /\ dm' = [dm EXCEPT ![h] = [dm[h] EXCEPT !.stop = dm[h].stop, !.leaving = @ + 1]]
    BY <1>6, <2>2 DEF Abandon
  <2>4. conn[c].st \in Working BY <1>6 DEF Working
  <2> QED BY <1>2, <1>3, <1>4, <2>2, <2>3, <2>4, WorkerLeaves
<1>7. CASE conn[c].st \in {"none", "queued"}
  <2>1. conn' = [conn EXCEPT ![c] = NoConn] /\ dm' = dm BY <1>7 DEF Abandon
  <2>2. conn[c].st \notin Working /\ NoConn.st \notin Working BY <1>3, <1>7 DEF Working
  <2> QED BY <1>2, <1>3, <1>4, <2>1, <2>2, ClientMoves
<1> QED BY <1>1, <1>5, <1>6, <1>7 DEF ConnRow, Open

LEMMA HandshakeTimeoutKeeps ==
    ASSUME DaemonInv, NEW c \in Client, HandshakeTimeout(c) PROVE DaemonInv'
<1>1. cl[c] \in ClRow /\ LinkInv(cl[c], conn[c]) BY DEF DaemonInv, Tables
<1>2. conn[c].reply = Nobody /\ Abandon(c) /\ UNCHANGED <<files, instLock, startLock, history>>
  BY DEF HandshakeTimeout, locks
<1>3. conn[c].st # "stopping" BY <1>1, <1>2, DaemonAssumed DEF LinkInv, DaemonAssumption, Code
<1>4. PICK y \in ClRow : /\ cl' = [cl EXCEPT ![c] = y] /\ y.pc = "error"
                         /\ y.at = cl[c].at /\ y.child = cl[c].child
  BY ErrsRow DEF HandshakeTimeout, Error
<1>5. Outside' BY <1>2 DEF DaemonInv, Outside, files, history
<1> QED BY <1>2, <1>3, <1>4, <1>5, AbandonKeeps DEF history

LEMMA EndSessionKeeps ==
    ASSUME DaemonInv, NEW c \in Client, EndSession(c) PROVE DaemonInv'
<1> DEFINE y == [cl[c] EXCEPT !.pc = "done"]
<1>1. cl[c] \in ClRow BY DEF DaemonInv, Tables
<1>2. y \in ClRow /\ y.pc = "done" /\ y.at = cl[c].at /\ y.child = cl[c].child
      /\ cl' = [cl EXCEPT ![c] = y]
  BY <1>1 DEF ClRow, ClientPc, EndSession, ClientGoto
<1> HIDE DEF y
<1>3. Outside' BY DEF EndSession, DaemonInv, Outside, files, locks, history
<1> QED BY <1>2, <1>3, AbandonKeeps DEF EndSession, locks, history

LEMMA KillClientKeeps ==
    ASSUME DaemonInv, NEW c \in Client, KillClient(c) PROVE DaemonInv'
<1> DEFINE y == [cl[c] EXCEPT !.pc = "dead"]
<1>1. cl[c] \in ClRow BY DEF DaemonInv, Tables
<1>2. y \in ClRow /\ y.pc = "dead" /\ y.at = cl[c].at /\ y.child = cl[c].child
      /\ cl' = [cl EXCEPT ![c] = y]
  BY <1>1 DEF ClRow, ClientPc, KillClient, ClientGoto
<1> HIDE DEF y
<1>3. Outside'
  BY DaemonAssumed DEF KillClient, DaemonInv, Outside, files, Without, DaemonAssumption
<1> QED BY <1>2, <1>3, AbandonKeeps DEF KillClient

LEMMA RetryKeeps ==
    ASSUME DaemonInv, NEW c \in Client, Retry(c) PROVE DaemonInv'
BY ClientGoes DEF Retry, locks, ClientPc

LEMMA GiveUpKeeps ==
    ASSUME DaemonInv, NEW c \in Client, GiveUp(c) PROVE DaemonInv'
<1>1. PICK p \in {"elect", "spawn", "failed"} : ClientGoto(c, p) BY DEF GiveUp, Fail
<1>2. startLock' \in {startLock, c, Nobody} BY DEF GiveUp, Fail, Without
<1> QED BY <1>1, <1>2, ClientGoes DEF GiveUp, ClientPc

LEMMA TryWaitKeeps ==
    ASSUME DaemonInv, NEW c \in Client, TryWait(c) PROVE DaemonInv'
<1>1. PICK p \in {"read", "failed"} : ClientGoto(c, p) BY DEF TryWait, Fail
<1>2. startLock' \in {startLock, c, Nobody} BY DEF TryWait, Fail, Without
<1> QED BY <1>1, <1>2, ClientGoes DEF TryWait, ClientPc

LEMMA ElectKeeps ==
    ASSUME DaemonInv, NEW c \in Client, Elect(c) PROVE DaemonInv'
<1>1. /\ cl[c] \in ClRow /\ LinkInv(cl[c], conn[c]) /\ cl[c].pc = "elect"
      /\ UNCHANGED <<files, instLock, dm, conn, history>>
  BY DEF DaemonInv, Tables, Elect
<1>2. CASE startLock' = c /\ cl' = [cl EXCEPT ![c].pc = "read", ![c].at = "recheck"]
  <2> DEFINE y == [cl[c] EXCEPT !.pc = "read", !.at = "recheck"]
  <2>1. y \in ClRow /\ y.pc = "read" /\ y.at = "recheck" /\ cl' = [cl EXCEPT ![c] = y]
    BY <1>1, <1>2 DEF ClRow, ClientPc
  <2> HIDE DEF y
  <2>2. LinkInv(cl[c], conn[c]) => LinkInv(y, conn[c]) BY <1>1, <2>1 DEF LinkInv
  <2> QED BY <1>1, <1>2, <2>1, <2>2, ClientThinks
<1>3. CASE ClientGoto(c, "read") /\ UNCHANGED startLock
  BY <1>1, <1>3, ClientGoes DEF ClientPc
<1> QED BY <1>2, <1>3 DEF Elect

\* A daemon is born: it knows nothing yet, and nobody knows it.
LEMMA SpawnKeeps ==
    ASSUME DaemonInv, NEW c \in Client, Spawn(c) PROVE DaemonInv'
<1>1. /\ cl[c] \in ClRow /\ LinkInv(cl[c], conn[c]) /\ cl[c].pc = "spawn"
      /\ UNCHANGED <<files, instLock, conn, history>>
      /\ dm \in [Daemon -> DmRow] /\ conn \in [Client -> ConnRow] /\ cl \in [Client -> ClRow]
      /\ CountInv(dm, conn)
  BY DEF DaemonInv, Tables, Spawn
<1>2. ASSUME NEW d \in Daemon, dm[d].pc = "unborn", DaemonGoto(d, "lock"),
             cl' = [cl EXCEPT ![c].pc = "read", ![c].at = "inner", ![c].child = d],
             UNCHANGED startLock
      PROVE  DaemonInv'
  <2> DEFINE r == [dm[d] EXCEPT !.pc = "lock"]
             y == [cl[c] EXCEPT !.pc = "read", !.at = "inner", !.child = d]
  <2>1. /\ r \in DmRow /\ r.pc = "lock" /\ r.active = dm[d].active /\ r.leaving = dm[d].leaving
        /\ dm' = [dm EXCEPT ![d] = r]
    BY <1>1, <1>2 DEF DmRow, DaemonPc, DaemonGoto
  <2>2. /\ y \in ClRow /\ y.pc = "read" /\ y.child = d /\ cl' = [cl EXCEPT ![c] = y]
    BY <1>1, <1>2 DEF ClRow, ClientPc
  <2> HIDE DEF r, y
  <2>3. conn[c].st = "none" BY <1>1 DEF LinkInv
  <2>4. Tables' /\ Outside' BY <1>1, <1>2, <2>1, <2>2 DEF Tables, DaemonInv, Outside, files, history
  <2>5. FileInv(d, dm[d], killed, endpoint, sockets, instLock) BY DEF DaemonInv
  <2>6. FileInv(d, r, killed, endpoint, sockets, instLock) /\ dm[d].active = 0 /\ dm[d].leaving = 0
    BY <1>2, <2>1, <2>5 DEF FileInv, Holding, Closing, Starting
  <2>7. \A e \in Daemon : FileInv(e, dm'[e], killed, endpoint, sockets, instLock)
    BY <1>1, <2>1, <2>6 DEF DaemonInv
  <2>8. LinkInv(y, conn[c]) BY <1>1, <2>2, <2>3 DEF LinkInv
  <2>9. \A e \in Client : LinkInv(cl'[e], conn[e]) BY <1>1, <2>2, <2>8 DEF DaemonInv
  <2>10. WorkersOf(conn, d) = {} BY <1>1, <1>2 DEF CountInv, WorkersOf, Dead
  <2>11. Cardinality(WorkersOf(conn, d)) = 0 BY <2>10, FS_EmptySet
  <2>12. CountInv(dm', conn)
    <3>1. ASSUME NEW e \in Client, conn[e].st \in Working
          PROVE  conn[e].to \in Daemon /\ dm'[conn[e].to].pc \notin Dead
      BY <1>1, <2>1, <3>1 DEF CountInv, Dead
    <3>2. ASSUME NEW e \in Daemon, dm'[e].pc \notin Dead
          PROVE  dm'[e].active = Cardinality(WorkersOf(conn, e)) + dm'[e].leaving
      <4>1. CASE e # d BY <1>1, <2>1, <3>2, <4>1 DEF CountInv
      <4>2. CASE e = d BY <1>1, <2>1, <2>6, <2>11, <4>2
      <4> QED BY <4>1, <4>2
    <3> QED BY <3>1, <3>2 DEF CountInv
  <2>13. CountInv(dm, conn)' BY <1>1, <2>12 DEF CountInv, WorkersOf
  <2> QED BY <1>1, <2>4, <2>7, <2>9, <2>13 DEF DaemonInv, files, history
<1>3. CASE Fail(c) /\ UNCHANGED dm
  <2>1. ClientGoto(c, "failed") /\ startLock' \in {startLock, c, Nobody} BY <1>3 DEF Fail, Without
  <2> QED BY <1>1, <1>3, <2>1, ClientGoes DEF ClientPc
<1> QED BY <1>2, <1>3 DEF Spawn

LEMMA DeadlineKeeps ==
    ASSUME DaemonInv, NEW c \in Client, Deadline(c) PROVE DaemonInv'
<1> DEFINE y == [cl[c] EXCEPT !.pc = "failed"]
<1>1. /\ cl[c] \in ClRow /\ LinkInv(cl[c], conn[c]) /\ cl \in [Client -> ClRow]
      /\ conn[c].st = "none" /\ cl[c].pc \in {"elect", "error"}
  BY DEF DaemonInv, Tables, Deadline, LinkInv
<1>2. ClientGoto(c, "failed") /\ startLock' \in {startLock, c, Nobody} BY DEF Deadline, Fail, Without
<1>3. CASE UNCHANGED <<dm, conn, instLock, killed>>
  BY <1>1, <1>2, <1>3, ClientGoes DEF Deadline, history, ClientPc
<1>4. CASE cl[c].at = "inner" /\ Dies(cl[c].child)
  <2> DEFINE d == cl[c].child
  <2>1. d \in Daemon BY <1>1, <1>4 DEF LinkInv
  <2>2. y \in ClRow /\ y.pc = "failed" /\ y.at = cl[c].at /\ y.child = cl[c].child
        /\ cl' = [cl EXCEPT ![c] = y]
    BY <1>1, <1>2 DEF ClRow, ClientPc, ClientGoto
  <2> HIDE DEF y
  <2>3. Outside'
    BY <1>2, <1>4, <2>1 DEF Deadline, Dies, DaemonInv, Outside, files, Without
  <2>4. cl' \in [Client -> ClRow] BY <1>1, <2>2
  <2>5. \A e \in Client : LinkInv(cl[e], conn[e]) /\ conn'[e] = conn[e] => LinkInv(cl'[e], conn'[e])
    BY <1>1, <2>2 DEF LinkInv
  <2>6. \A e \in Client : cl'[e] = cl[e] \/ conn[e].st = "none" BY <1>1, <2>2
  <2>7. /\ DaemonGoto(d, "gone") /\ conn' = Hangup(At(d, Open)) /\ instLock' = Without(instLock, d)
        /\ killed' = killed \cup {d} /\ UNCHANGED <<endpoint, sockets>>
    BY <1>4 DEF Dies, Deadline, files
  <2> HIDE DEF d
  <2> QED BY <2>1, <2>3, <2>4, <2>5, <2>6, <2>7, EndOfDaemon
<1> QED BY <1>3, <1>4 DEF Deadline

-----------------------------------------------------------------------------
\* DaemonInv is inductive.
LEMMA DaemonInvNext == ASSUME DaemonInv, [DaemonNext]_daemonVars PROVE DaemonInv'
<1>1. CASE UNCHANGED daemonVars
  BY <1>1 DEF daemonVars, DaemonInv, Tables, Outside, CountInv, WorkersOf
<1>2. ASSUME NEW d \in Daemon, InstanceNext(d) PROVE DaemonInv'
  BY <1>2, TakeInstanceLockKeeps, SweepSocketKeeps, SweepEndpointKeeps, BindSocketKeeps,
     PublishEndpointKeeps, CheckKeeps, AcceptKeeps, NoConnectionKeeps, CloseListenerKeeps,
     RemoveSocketKeeps, StatEndpointKeeps, RemoveEndpointKeeps, UnlockKeeps DEF InstanceNext
<1>3. ASSUME NEW d \in Daemon,
             Leave(d) \/ BindFails(d) \/ AskStop(d) \/ Idle(d) \/ AcceptFails(d) \/ KillDaemon(d)
      PROVE  DaemonInv'
  BY <1>3, LeaveKeeps, BindFailsKeeps, AskStopKeeps, AcceptFailsKeeps, KillDaemonKeeps
<1>4. ASSUME NEW c \in Client, HandlerNext(c) PROVE DaemonInv'
  BY <1>4, HandleKeeps, SetStopKeeps, BuildKeeps DEF HandlerNext
<1>5. ASSUME NEW c \in Client, ClientNext(c) PROVE DaemonInv'
  BY <1>5, ReadEndpointKeeps, DialKeeps, ReplyKeeps, GiveUpKeeps, ElectKeeps, SpawnKeeps,
     TryWaitKeeps DEF ClientNext
<1>6. ASSUME NEW c \in Client,
             Retry(c) \/ Deadline(c) \/ HandshakeTimeout(c) \/ EndSession(c) \/ KillClient(c)
      PROVE  DaemonInv'
  BY <1>6, RetryKeeps, DeadlineKeeps, HandshakeTimeoutKeeps, EndSessionKeeps, KillClientKeeps
<1> QED BY <1>1, <1>2, <1>3, <1>4, <1>5, <1>6 DEF DaemonNext

LEMMA DaemonInvAlways == DaemonSpec => []DaemonInv
BY InitInv, DaemonInvNext, PTL DEF DaemonSpec

LEMMA InvImpliesSound ==
  DaemonInv => DaemonTypeOK /\ ServerIsReachable /\ CleanExit /\ ActiveIsExact
<1> SUFFICES ASSUME DaemonInv PROVE DaemonTypeOK /\ ServerIsReachable /\ CleanExit /\ ActiveIsExact
  OBVIOUS
<1>1. DaemonTypeOK BY DEF DaemonTypeOK, DaemonInv, Tables, Outside, DmRow, ClRow, ConnRow
<1>2. ServerIsReachable BY DEF ServerIsReachable, DaemonInv, FileInv, Holding
<1>3. CleanExit BY DEF CleanExit, DaemonInv, FileInv
<1>4. ActiveIsExact BY DEF ActiveIsExact, DaemonInv, CountInv, Alive, Workers, WorkersOf, At, Working, Dead
<1> QED BY <1>1, <1>2, <1>3, <1>4

\* A session ends with its client, or with the death of the daemon: a daemon
\* that unlocks after its own loop has no worker left.
LEMMA SessionEndsWithClient ==
    ASSUME DaemonInv, [DaemonNext]_daemonVars, NEW c \in Client,
           conn[c].st = "session", conn'[c].st = "none"
    PROVE  cl'[c].pc \in {"done", "dead"} \/ conn[c].to \in killed'
<1>1. /\ dm \in [Daemon -> DmRow] /\ conn \in [Client -> ConnRow] /\ cl \in [Client -> ClRow]
      /\ LinkInv(cl[c], conn[c])
  BY DEF DaemonInv, Tables
<1>2. conn' # conn /\ conn[c].reply = "ready" /\ conn[c].reply # Nobody
  BY <1>1, DaemonAssumed DEF LinkInv, DaemonAssumption, Code
<1>3. /\ cl[c].pc \notin {"read", "dial", "error", "elect", "spawn", "failed"}
      /\ c \in WorkersOf(conn, conn[c].to)
  BY <1>1 DEF LinkInv, WorkersOf, Working
<1>4. ASSUME NEW d \in Daemon, conn' = Hangup(At(d, Open)) PROVE conn[c].to = d
  BY <1>1, <1>2, <1>4, HangupRows DEF At
<1>5. ASSUME NEW d \in Daemon, InstanceNext(d) PROVE conn[c].to \in killed'
  <2>1. CASE \E e \in Client : Accept(d, e)
    BY <1>1, <2>1 DEF Accept, At
  <2>2. CASE CloseListener(d)
    <3>1. conn' = Hangup(At(d, {"queued"})) /\ c \notin At(d, {"queued"}) BY <2>2 DEF CloseListener, At
    <3> QED BY <1>1, <3>1, HangupRows
  <2>3. CASE Unlock(d)
    <3>1. conn[c].to = d /\ dm[d].pc = "unlock" /\ killed' = killed BY <1>4, <2>3 DEF Unlock, history
    <3>2. FileInv(d, dm[d], killed, endpoint, sockets, instLock) BY DEF DaemonInv
    <3>3. d \notin killed => dm[d].active = 0 BY <3>1, <3>2 DEF FileInv, Closing
    <3>4. d \notin killed => WorkersOf(conn, d) = {} BY <3>1, <3>3, NoWorkersYet DEF Dead
    <3> QED BY <1>3, <3>1, <3>4
  <2>4. ASSUME \/ TakeInstanceLock(d) \/ SweepSocket(d) \/ SweepEndpoint(d) \/ BindSocket(d)
               \/ PublishEndpoint(d) \/ Check(d) \/ NoConnection(d) \/ RemoveSocket(d)
               \/ StatEndpoint(d) \/ RemoveEndpoint(d)
        PROVE  conn' = conn
    BY <2>4 DEF TakeInstanceLock, SweepSocket, SweepEndpoint, BindSocket, PublishEndpoint, Check,
         NoConnection, RemoveSocket, StatEndpoint, RemoveEndpoint
  <2> QED BY <1>2, <1>5, <2>1, <2>2, <2>3, <2>4 DEF InstanceNext
<1>6. ASSUME NEW d \in Daemon, Leave(d) \/ BindFails(d) \/ AskStop(d) \/ Idle(d) \/ AcceptFails(d)
      PROVE  conn' = conn
  BY <1>6 DEF Leave, BindFails, AskStop, Idle, AcceptFails
<1>7. ASSUME NEW d \in Daemon, KillDaemon(d) PROVE conn[c].to \in killed'
  BY <1>4, <1>7 DEF KillDaemon, Dies
<1>8. ASSUME NEW e \in Client, HandlerNext(e) PROVE FALSE
  <2>1. conn[e].st \in {"held", "build", "stopping"} /\ (e # c => conn'[c] = conn[c])
    <3>1. Mode[e] \in {"mcp", "stop", "status"} BY DaemonAssumed DEF DaemonAssumption
    <3>2. CASE Handle(e) BY <1>1, <3>1, <3>2 DEF Handle, Finish
    <3>3. CASE SetStop(e) BY <1>1, <3>3 DEF SetStop
    <3>4. CASE Build(e) BY <1>1, <3>4 DEF Build, Finish
    <3> QED BY <1>8, <3>2, <3>3, <3>4 DEF HandlerNext
  <2> QED BY <2>1
<1>9. ASSUME NEW e \in Client, Dial(e) \/ Reply(e) \/ HandshakeTimeout(e) PROVE FALSE
  <2>1. e # c => conn'[c] = conn[c]
    BY <1>1, <1>9 DEF Dial, Reply, HandshakeTimeout, Abandon
  <2>2. e = c => conn'[c] = conn[c] BY <1>2, <1>3, <1>9 DEF Dial, Reply, HandshakeTimeout
  <2> QED BY <2>1, <2>2
<1>10. ASSUME NEW e \in Client,
              ReadEndpoint(e) \/ GiveUp(e) \/ Elect(e) \/ Spawn(e) \/ TryWait(e) \/ Retry(e)
       PROVE  conn' = conn
  BY <1>10 DEF ReadEndpoint, GiveUp, Elect, Spawn, TryWait, Retry
<1>11. ASSUME NEW e \in Client, EndSession(e) \/ KillClient(e) PROVE cl'[c].pc \in {"done", "dead"}
  <2>1. e # c => conn'[c] = conn[c] BY <1>1, <1>11 DEF EndSession, KillClient, Abandon
  <2>2. e = c BY <2>1
  <2>3. cl[c] \in ClRow BY <1>1
  <2> QED BY <1>1, <1>11, <2>2, <2>3 DEF EndSession, KillClient, ClientGoto, ClRow
<1>12. ASSUME NEW e \in Client, Deadline(e) PROVE conn[c].to \in killed'
  <2>1. cl[e].at = "inner" /\ Dies(cl[e].child) BY <1>2, <1>12 DEF Deadline
  <2>2. cl[e].child \in Daemon BY <2>1 DEF DaemonInv, LinkInv
  <2> QED BY <1>4, <2>1, <2>2 DEF Dies
<1> QED BY <1>2, <1>5, <1>6, <1>7, <1>8, <1>9, <1>10, <1>11, <1>12
        DEF DaemonNext, ClientNext, daemonVars

\* A daemon that serves can be found, one that ends by itself leaves no file
\* behind, and its count of connections is exact, whatever other daemons start,
\* stop, fail or die around it; and it outlives the sessions it granted
\* (agent_gateway_service.rs: publish_endpoint_v1, serve, RuntimeCleanupV1).
THEOREM DaemonKept == DaemonSpec => DaemonIsKept
<1>1. DaemonSpec => [](DaemonTypeOK /\ ServerIsReachable /\ CleanExit /\ ActiveIsExact)
  BY DaemonInvAlways, InvImpliesSound, PTL
<1>2. DaemonInv /\ [DaemonNext]_daemonVars =>
        [\A c \in Client : conn[c].st = "session" /\ conn'[c].st = "none" =>
             cl'[c].pc \in {"done", "dead"} \/ conn[c].to \in killed']_daemonVars
  BY SessionEndsWithClient
<1>3. DaemonSpec => SessionOutlivesStop
  BY DaemonInvAlways, <1>2, PTL DEF DaemonSpec, SessionOutlivesStop
<1> QED BY <1>1, <1>3 DEF DaemonIsKept
=============================================================================
