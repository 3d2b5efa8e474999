------------------------------ MODULE McpStdio ------------------------------
(***************************************************************************)
(* The threads of one stdio session of the MCP gateway                     *)
(* (serve_stdio_with_recipient_v1): the reader, which parses frames and    *)
(* admits tool calls, a pool of workers behind a bounded job queue, the    *)
(* writer behind a bounded response queue, and the map of active calls     *)
(* that cancellation searches.  Delivery receipts are module McpDelivery's *)
(* subject, the inside of a provider UpstreamProvider's.                   *)
(*                                                                         *)
(* A frame is named by its position in the input, which is also the        *)
(* physical attempt id of the call it carries.                             *)
(***************************************************************************)
EXTENDS Naturals, Sequences, FiniteSets

CONSTANTS Id,          \* the JSON-RPC request ids the client uses
          Worker,      \* the worker threads
          MaxFrames,   \* bound: frames the client sends
          QueueRoom,   \* STDIO_RESPONSE_QUEUE_V1
          WriterFails  \* whether the client may stop reading its answers

\* STDIO_MAX_INFLIGHT_V1 is both the size of the pool and the admission limit
MaxInflight == Cardinality(Worker)

StdioAssumption ==
    /\ IsFiniteSet(Worker) /\ Worker # {}
    /\ MaxFrames \in Nat /\ QueueRoom \in Nat \ {0} /\ WriterFails \in BOOLEAN

VARIABLES
    frames,     \* the frames read, each [kind, id]
    reader,     \* the reader's place in its loop
    closed,     \* the session_closed flag
    jobs,       \* the job queue: frames not yet taken by a worker
    inflight,   \* the admission counter
    signalled,  \* frames whose activation was signalled
    active,     \* the active map: request id -> frame that registered it
    cancelReq,  \* frames whose entry has cancellation_requested
    worker,     \* each worker's [pc, frame]
    answer,     \* what each frame was answered
    responses,  \* the response queue
    written,    \* frames whose response was written and flushed
    writer      \* the writer's place in its loop

vars == <<frames, reader, closed, jobs, inflight, signalled, active, cancelReq,
          worker, answer, responses, written, writer>>
poolVars == <<jobs, inflight, signalled, worker>>
callVars == <<active, cancelReq>>
outVars == <<responses, written, writer>>

None == 0
Frame == 1..MaxFrames
ReaderPc == {"read", "dispatch", "await", "reply", "closing", "cancelling",
             "join", "done"}
WorkerPc == {"idle", "register", "gate", "run", "complete", "send", "release",
             "exited"}
Outcome == {"none", "ok", "error", "cancelled", "busy", "duplicate", "refused",
            "reply"}

Current == Len(frames)
IdOf(f) == frames[f].id
IsCall(f) == f \in 1..Current /\ frames[f].kind = "call"
WriterGone == writer.pc = "gone"

Init ==
    /\ frames = <<>> /\ reader = "read" /\ closed = FALSE
    /\ jobs = <<>> /\ inflight = 0 /\ signalled = {}
    /\ active = [i \in Id |-> None] /\ cancelReq = {}
    /\ worker = [w \in Worker |-> [pc |-> "idle", frame |-> None]]
    /\ answer = [f \in Frame |-> "none"]
    /\ responses = <<>> /\ written = {}
    /\ writer = [pc |-> "recv", frame |-> None]

-----------------------------------------------------------------------------
(* The reader.                                                             *)

\* read_bounded_frame returns a frame; the loop then looks at session_closed
ReadFrame(kind, i) ==
    /\ reader = "read" /\ Current < MaxFrames
    /\ frames' = Append(frames, [kind |-> kind, id |-> i])
    /\ reader' = IF closed THEN "closing" ELSE "dispatch"
    /\ UNCHANGED <<closed, poolVars, callVars, answer, outVars>>

\* End of input, or a failed read
ReadEof ==
    /\ reader = "read" /\ reader' = "closing"
    /\ UNCHANGED <<frames, closed, poolVars, callVars, answer, outVars>>

\* A tool call is counted and handed to the pool; the reader then waits for the
\* worker's activation.  The queue has room for every admitted call, and send
\* cannot fail: serve_stdio itself keeps the receiving end of the queue alive.
Admit ==
    /\ reader = "dispatch" /\ IsCall(Current) /\ inflight < MaxInflight
    /\ inflight' = inflight + 1
    /\ jobs' = Append(jobs, Current)
    /\ reader' = "await"
    /\ UNCHANGED <<frames, closed, signalled, worker, callVars, answer, outVars>>

\* More calls in flight than the limit: a typed error, nothing is started
Refuse ==
    /\ reader = "dispatch" /\ IsCall(Current) /\ inflight >= MaxInflight
    /\ answer' = [answer EXCEPT ![Current] = "busy"]
    /\ reader' = "reply"
    /\ UNCHANGED <<frames, closed, poolVars, callVars, outVars>>

Activated ==
    /\ reader = "await" /\ Current \in signalled
    /\ reader' = "read"
    /\ UNCHANGED <<frames, closed, poolVars, callVars, answer, outVars>>

\* Every other request is answered on the reader's own thread
HandleInline ==
    /\ reader = "dispatch" /\ frames[Current].kind = "other"
    /\ answer' = [answer EXCEPT ![Current] = "reply"]
    /\ reader' = "reply"
    /\ UNCHANGED <<frames, closed, poolVars, callVars, outVars>>

\* notifications/cancelled: mark the active call of that id, if there is one
HandleCancel ==
    LET f == active[IdOf(Current)] IN
    /\ reader = "dispatch" /\ frames[Current].kind = "cancel"
    /\ cancelReq' = IF f = None THEN cancelReq ELSE cancelReq \cup {f}
    /\ reader' = "read"
    /\ UNCHANGED <<frames, closed, poolVars, active, answer, outVars>>

\* enqueue_stdio_response blocks while the queue is full and fails when the
\* writer is gone
EnqueueReply ==
    /\ reader = "reply"
    /\ \/ /\ ~WriterGone /\ Len(responses) < QueueRoom
          /\ responses' = Append(responses, Current)
          /\ reader' = "read"
       \/ /\ WriterGone
          /\ reader' = "closing"
          /\ UNCHANGED responses
    /\ UNCHANGED <<frames, closed, poolVars, callVars, answer, written, writer>>

\* The end of the session, in the order of the code
CloseSession ==
    /\ reader = "closing"
    /\ closed' = TRUE /\ reader' = "cancelling"
    /\ UNCHANGED <<frames, poolVars, callVars, answer, outVars>>

\* cancel_stdio_session: every active call of the session is marked
ActiveFrames == {active[i] : i \in Id} \ {None}

ReaderCancels ==
    /\ reader = "cancelling"
    /\ cancelReq' = cancelReq \cup ActiveFrames
    /\ reader' = "join"
    /\ UNCHANGED <<frames, closed, poolVars, active, answer, outVars>>

\* The workers have been joined, the last sender of responses is dropped, and
\* the writer has been joined
Joined ==
    /\ reader = "join"
    /\ \A w \in Worker : worker[w].pc = "exited"
    /\ WriterGone
    /\ reader' = "done"
    /\ UNCHANGED <<frames, closed, poolVars, callVars, answer, outVars>>

-----------------------------------------------------------------------------
(* A worker.                                                               *)

Goto(w, p) == worker' = [worker EXCEPT ![w].pc = p]
Ends(w, f, outcome) ==
    /\ answer' = [answer EXCEPT ![f] = outcome]
    /\ signalled' = signalled \cup {f}
    /\ Goto(w, "send")

TakeJob(w) ==
    /\ worker[w].pc = "idle" /\ jobs # <<>>
    /\ jobs' = Tail(jobs)
    /\ worker' = [worker EXCEPT ![w] = [pc |-> "register", frame |-> Head(jobs)]]
    /\ UNCHANGED <<frames, reader, closed, inflight, signalled, callVars, answer,
                   outVars>>

\* recv fails once the reader has dropped its sender and the queue is empty
ExitPool(w) ==
    /\ worker[w].pc = "idle" /\ jobs = <<>> /\ reader = "join"
    /\ Goto(w, "exited")
    /\ UNCHANGED <<frames, reader, closed, jobs, inflight, signalled, callVars,
                   answer, outVars>>

\* The checks of call_tool before the call is registered may fail, and so may
\* the registration when the id is in flight
Reject(w) ==
    LET f == worker[w].frame IN
    /\ worker[w].pc = "register"
    /\ \/ Ends(w, f, "error")
       \/ active[IdOf(f)] # None /\ Ends(w, f, "duplicate")
    /\ UNCHANGED <<frames, reader, closed, jobs, inflight, callVars, outVars>>

\* Slip: the activation is signalled as soon as the call is registered
RegisterSignals(w) ==
    LET f == worker[w].frame IN
    /\ worker[w].pc = "register" /\ active[IdOf(f)] = None
    /\ active' = [active EXCEPT ![IdOf(f)] = f]
    /\ signalled' = signalled \cup {f}
    /\ Goto(w, "gate")
    /\ UNCHANGED <<frames, reader, closed, jobs, inflight, cancelReq, answer,
                   outVars>>

Register(w) ==
    LET f == worker[w].frame IN
    /\ worker[w].pc = "register" /\ active[IdOf(f)] = None
    /\ active' = [active EXCEPT ![IdOf(f)] = f]
    /\ Goto(w, "gate")
    /\ UNCHANGED <<frames, reader, closed, jobs, inflight, signalled, cancelReq,
                   answer, outVars>>

\* After registration, a closed session refuses the call; otherwise the reader
\* is released and the provider is called
Unregister(f) ==
    active' = [active EXCEPT ![IdOf(f)] = IF @ = f THEN None ELSE @]

Gate(w) ==
    LET f == worker[w].frame IN
    /\ worker[w].pc = "gate"
    /\ \/ /\ closed
          /\ Unregister(f)
          /\ Ends(w, f, "refused")
       \/ /\ ~closed
          /\ signalled' = signalled \cup {f}
          /\ Goto(w, "run")
          /\ UNCHANGED <<active, answer>>
    /\ UNCHANGED <<frames, reader, closed, jobs, inflight, cancelReq, outVars>>

\* The provider returns a result, fails or panics
Execute(w) ==
    LET f == worker[w].frame IN
    /\ worker[w].pc = "run"
    /\ \E outcome \in {"ok", "error"} : answer' = [answer EXCEPT ![f] = outcome]
    /\ Goto(w, "complete")
    /\ UNCHANGED <<frames, reader, closed, jobs, inflight, signalled, callVars,
                   outVars>>

\* ActiveCallRegistration::complete: the entry is removed if it is this
\* attempt's, and a cancelled call does not succeed
Complete(w) ==
    LET f == worker[w].frame IN
    /\ worker[w].pc = "complete"
    /\ Unregister(f)
    /\ answer' = [answer EXCEPT ![f] =
          IF @ = "ok" /\ active[IdOf(f)] = f /\ f \in cancelReq
          THEN "cancelled" ELSE @]
    /\ Goto(w, "send")
    /\ UNCHANGED <<frames, reader, closed, jobs, inflight, signalled, cancelReq,
                   outVars>>

\* The response is queued; without a writer the worker leaves the pool
Send(w) ==
    /\ worker[w].pc = "send"
    /\ \/ /\ ~WriterGone /\ Len(responses) < QueueRoom
          /\ responses' = Append(responses, worker[w].frame)
          /\ Goto(w, "release")
          /\ UNCHANGED inflight
       \/ /\ WriterGone
          /\ inflight' = inflight - 1
          /\ Goto(w, "exited")
          /\ UNCHANGED responses
    /\ UNCHANGED <<frames, reader, closed, jobs, signalled, callVars, answer,
                   written, writer>>

Release(w) ==
    /\ worker[w].pc = "release"
    /\ inflight' = inflight - 1
    /\ worker' = [worker EXCEPT ![w] = [pc |-> "idle", frame |-> None]]
    /\ UNCHANGED <<frames, reader, closed, jobs, signalled, callVars, answer,
                   outVars>>

-----------------------------------------------------------------------------
(* The writer.                                                             *)

WriterTake ==
    /\ writer.pc = "recv" /\ responses # <<>>
    /\ writer' = [pc |-> "write", frame |-> Head(responses)]
    /\ responses' = Tail(responses)
    /\ UNCHANGED <<frames, reader, closed, poolVars, callVars, answer, written>>

WriterWrite ==
    /\ writer.pc = "write"
    /\ written' = written \cup {writer.frame}
    /\ writer' = [pc |-> "recv", frame |-> None]
    /\ UNCHANGED <<frames, reader, closed, poolVars, callVars, answer, responses>>

\* write_all or flush fails: the session is closed, its calls are cancelled,
\* and then the receiving end of the response queue is dropped
WriterFail ==
    /\ WriterFails /\ writer.pc = "write"
    /\ closed' = TRUE
    /\ writer' = [pc |-> "failing", frame |-> None]
    /\ UNCHANGED <<frames, reader, poolVars, callVars, answer, responses, written>>

WriterCancels ==
    /\ writer.pc = "failing"
    /\ cancelReq' = cancelReq \cup ActiveFrames
    /\ writer' = [pc |-> "gone", frame |-> None]
    /\ responses' = <<>>
    /\ UNCHANGED <<frames, reader, closed, poolVars, active, answer, written>>

\* Slip: the writer stops with the reader instead of with the last sender
WriterExitEarly ==
    /\ writer.pc = "recv" /\ responses = <<>> /\ reader = "join"
    /\ writer' = [pc |-> "gone", frame |-> None]
    /\ UNCHANGED <<frames, reader, closed, poolVars, callVars, answer, responses,
                   written>>

\* Every sender has been dropped: the reader's after the join of the workers,
\* the workers' when they left
WriterExit ==
    /\ writer.pc = "recv" /\ responses = <<>>
    /\ reader = "join" /\ \A w \in Worker : worker[w].pc = "exited"
    /\ writer' = [pc |-> "gone", frame |-> None]
    /\ UNCHANGED <<frames, reader, closed, poolVars, callVars, answer, responses,
                   written>>

-----------------------------------------------------------------------------
ReaderNext ==
    \/ \E i \in Id : ReadFrame("call", i) \/ ReadFrame("cancel", i)
    \/ ReadFrame("other", None)
    \/ ReadEof \/ Admit \/ Refuse \/ Activated \/ HandleInline \/ HandleCancel
    \/ EnqueueReply \/ CloseSession \/ ReaderCancels \/ Joined

WorkerNext(w) ==
    \/ TakeJob(w) \/ ExitPool(w) \/ Reject(w) \/ Register(w) \/ Gate(w)
    \/ Execute(w) \/ Complete(w) \/ Send(w) \/ Release(w)

WriterNext ==
    \/ WriterTake \/ WriterWrite \/ WriterFail \/ WriterCancels \/ WriterExit

Next == ReaderNext \/ WriterNext \/ \E w \in Worker : WorkerNext(w)

Spec == Init /\ [][Next]_vars

\* The threads are scheduled, the client closes its input in the end, and
\* providers return.  Nothing is asked of a failing client.
FairSpec ==
    /\ Spec
    /\ WF_vars(ReaderNext)
    /\ WF_vars(WriterNext)
    /\ \A w \in Worker : WF_vars(WorkerNext(w))

-----------------------------------------------------------------------------
(* Properties.                                                             *)

StdioTypeOK ==
    /\ frames \in Seq([kind : {"call", "cancel", "other"}, id : Id \cup {None}])
    /\ reader \in ReaderPc /\ closed \in BOOLEAN
    /\ jobs \in Seq(Frame) /\ inflight \in 0..MaxInflight
    /\ signalled \subseteq Frame /\ cancelReq \subseteq Frame
    /\ active \in [Id -> Frame \cup {None}]
    /\ worker \in [Worker -> [pc : WorkerPc, frame : Frame \cup {None}]]
    /\ answer \in [Frame -> Outcome]
    /\ responses \in Seq(Frame) /\ Len(responses) <= QueueRoom
    /\ written \subseteq Frame
    /\ writer \in [pc : {"recv", "write", "failing", "gone"},
                   frame : Frame \cup {None}]

\* A cancellation cannot overtake the call it names: when the reader handles a
\* later frame, every call before it is registered or already decided.  The
\* reader waits for the activation for this purpose.
CancelFindsCall ==
    reader = "dispatch" =>
        \A f \in 1..(Current - 1) :
            IsCall(f) => answer[f] # "none" \/ active[IdOf(f)] = f

\* A call that was marked as cancelled while it ran is never answered with its
\* result, whichever of reader and writer marked it.
CancelledIsNotAnswered ==
    \A f \in cancelReq :
        f \in written \/ (\E k \in DOMAIN responses : responses[k] = f)
            => answer[f] # "ok"

\* An admitted call is refused as "stdio session closed" only when its client
\* stopped reading: end of input does not race it into a refusal.
NoSyntheticRefusal ==
    \A f \in Frame : answer[f] = "refused" => writer.pc \in {"failing", "gone"}

\* Once the session's calls have been cancelled nothing of it runs unmarked: a
\* call that slipped past the closed flag was seen by the cancellation.
NothingRunsUncancelled ==
    reader \in {"join", "done"} \/ (WriterGone /\ closed) =>
        \A w \in Worker : worker[w].pc = "run" => worker[w].frame \in cancelReq

\* The admission counter is the number of calls queued or held by a worker, so
\* that a place is never lost and the queue never overflows.
InflightIsExact ==
    inflight = Len(jobs)
               + Cardinality({w \in Worker : worker[w].pc \notin {"idle", "exited"}})

\* All of them together.
SessionIsSound ==
    /\ StdioTypeOK /\ CancelFindsCall /\ CancelledIsNotAnswered
    /\ NoSyntheticRefusal /\ NothingRunsUncancelled /\ InflightIsExact

\* The reader waits for the activation of a call that nobody is left to take: it
\* had looked at the flag before the writer failed, and every worker left before
\* the call was queued.  The queue is not disconnected, so neither send nor recv
\* of the reader fails, and this session never ends.
Stranded ==
    /\ reader = "await" /\ jobs # <<>>
    /\ \A w \in DOMAIN worker : worker[w].pc = "exited"

\* A closed session ends (workers, writer and reader come together), whoever of
\* them leaves first, unless the reader is stranded; and while the client keeps
\* reading every tool call is answered.
ClosedEnds == closed ~> (reader = "done" \/ Stranded)
SessionEnds ==
    /\ ClosedEnds
    /\ [](writer.pc # "failing") => \A f \in Frame : IsCall(f) ~> (f \in written)
=============================================================================
