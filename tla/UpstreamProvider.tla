-------------------------- MODULE UpstreamProvider --------------------------
(***************************************************************************)
(* One attempt of StdioMcpProviderV1, the provider that runs a tool call   *)
(* in a fresh child process: the thread in execute, a thread in cancel,    *)
(* the thread that reads the child's output, and the child, which may      *)
(* answer, flood, stop reading its input, or die.  The pipe to the child   *)
(* has finite room, and writes to it hold the stdin lock and have no       *)
(* deadline.  Descendants are taken to stay in the child's process group.  *)
(***************************************************************************)
EXTENDS Naturals, Sequences

CONSTANTS PipeRoom,    \* room of the pipe, in units of a small message
          CallSize,    \* size of the tools/call request in the same units
          QueueRoom,   \* UPSTREAM_RESPONSE_QUEUE_V1
          MaxNotes,    \* MAX_UPSTREAM_NOTIFICATIONS_V1
          MaxFrames    \* bound: frames the child emits

UpstreamAssumption ==
    /\ PipeRoom \in Nat \ {0} /\ CallSize \in Nat \ {0}
    /\ QueueRoom \in Nat \ {0} /\ MaxNotes \in Nat /\ MaxFrames \in Nat

VARIABLES
    attempt,     \* the entry of this attempt in the attempts map
    th,          \* the two threads: place, bytes left to write, place after terminate
    phase,       \* the request the executor is at
    result,      \* what execute returns
    lock,        \* holder of the stdin lock
    stdinOpen,   \* whether control.stdin is still Some
    terminated, cancelled,   \* the flags of StdioChildControlV1
    child,       \* the child process
    pipe,        \* units in the pipe the child has not read
    reader,      \* whether the reader thread runs
    queue,       \* frames from the reader to the executor
    notes,       \* notifications seen by the present request
    emitted,     \* frames the child has written
    caught       \* history: the state in which cancel found the attempt

vars == <<attempt, th, phase, result, lock, stdinOpen, terminated, cancelled,
          child, pipe, reader, queue, notes, emitted, caught>>
control == <<lock, stdinOpen, terminated, cancelled>>
process == <<child, pipe, reader, queue, emitted>>

Thread == {"exec", "cancel"}
Pc == {"idle", "insert", "spawn", "activate", "lock", "write", "wait", "remove",
       "term", "stdin", "kill", "join", "done"}
Phase == {"init", "notify", "call", "cancel"}
FrameKind == {"init", "call", "note", "junk", "eof"}

Size(p) == IF p = "call" THEN CallSize ELSE 1
Goto(t, p) == th' = [th EXCEPT ![t].pc = p]
Running == child = "running"

Init ==
    /\ attempt = "none" /\ phase = "init" /\ result = "none"
    /\ th = [exec |-> [pc |-> "insert", left |-> 0, after |-> "join"],
             cancel |-> [pc |-> "idle", left |-> 0, after |-> "done"]]
    /\ lock = "free" /\ stdinOpen = FALSE /\ terminated = FALSE
    /\ cancelled = FALSE /\ child = "none" /\ pipe = 0 /\ reader = FALSE
    /\ queue = <<>> /\ notes = 0 /\ emitted = 0 /\ caught = "none"

-----------------------------------------------------------------------------
(* execute.                                                                *)

Insert ==
    /\ th.exec.pc = "insert"
    /\ attempt' = "starting"
    /\ Goto("exec", "spawn")
    /\ UNCHANGED <<phase, result, control, process, notes, caught>>

\* start_session_v1: a changed executable or directory, a missing credential or
\* a failed spawn removes the entry
Spawn ==
    /\ th.exec.pc = "spawn"
    /\ \/ /\ child' = "running" /\ reader' = TRUE /\ stdinOpen' = TRUE
          /\ Goto("exec", "activate")
          /\ UNCHANGED <<attempt, result>>
       \/ /\ attempt' = "none" /\ result' = "error"
          /\ Goto("exec", "done")
          /\ UNCHANGED <<child, reader, stdinOpen>>
    /\ UNCHANGED <<phase, lock, terminated, cancelled, pipe, queue, emitted, notes,
                   caught>>

\* A cancellation that came during the start is carried out here
Activate ==
    /\ th.exec.pc = "activate"
    /\ \/ /\ attempt = "starting" /\ attempt' = "active"
          /\ th' = [th EXCEPT !.exec.pc = "lock", !.exec.left = 1]
          /\ UNCHANGED <<phase, result, cancelled>>
       \/ /\ attempt = "cancelled" /\ attempt' = "none"
          /\ result' = "cancelled" /\ cancelled' = TRUE /\ phase' = "cancel"
          /\ th' = [th EXCEPT !.exec.pc = "lock", !.exec.left = 1]
    /\ UNCHANGED <<lock, stdinOpen, terminated, process, notes, caught>>

\* Where a thread goes when its write has ended, well or not
AfterWrite(t, ok) ==
    IF t = "cancel" \/ phase = "cancel" THEN
        /\ Goto(t, "term")
        /\ UNCHANGED <<phase, result, notes>>
    ELSE IF ~ok THEN
        /\ result' = "error" /\ Goto(t, "remove")
        /\ UNCHANGED <<phase, notes>>
    ELSE IF phase = "notify" THEN
        /\ phase' = "call"
        /\ th' = [th EXCEPT ![t].pc = "lock", ![t].left = CallSize]
        /\ UNCHANGED <<result, notes>>
    ELSE
        /\ Goto(t, "wait") /\ notes' = 0
        /\ UNCHANGED <<phase, result>>

\* write_value_v1: the lock is held until the last unit is in the pipe
LockStdin(t) ==
    /\ th[t].pc = "lock" /\ lock = "free"
    /\ \/ /\ stdinOpen /\ lock' = t
          /\ Goto(t, "write")
          /\ UNCHANGED <<phase, result, notes>>
       \/ /\ ~stdinOpen /\ AfterWrite(t, FALSE)
          /\ UNCHANGED lock
    /\ UNCHANGED <<attempt, stdinOpen, terminated, cancelled, process, caught>>

\* Slip: the lock is kept until the answer is in
WriteUnitHolds(t) ==
    /\ th[t].pc = "write" /\ Running /\ pipe < PipeRoom
    /\ pipe' = pipe + 1
    /\ IF th[t].left > 1
       THEN /\ th' = [th EXCEPT ![t].left = @ - 1]
            /\ UNCHANGED <<lock, phase, result, notes>>
       ELSE /\ lock' = IF phase = "call" THEN lock ELSE "free"
            /\ AfterWrite(t, TRUE)
    /\ UNCHANGED <<attempt, stdinOpen, terminated, cancelled, child, reader, queue,
                   emitted, caught>>

WriteUnit(t) ==
    /\ th[t].pc = "write" /\ Running /\ pipe < PipeRoom
    /\ pipe' = pipe + 1
    /\ IF th[t].left > 1
       THEN /\ th' = [th EXCEPT ![t].left = @ - 1]
            /\ UNCHANGED <<lock, phase, result, notes>>
       ELSE /\ lock' = "free" /\ AfterWrite(t, TRUE)
    /\ UNCHANGED <<attempt, stdinOpen, terminated, cancelled, child, reader, queue,
                   emitted, caught>>

WriteBroken(t) ==
    /\ th[t].pc = "write" /\ ~Running
    /\ lock' = "free" /\ AfterWrite(t, FALSE)
    /\ UNCHANGED <<attempt, stdinOpen, terminated, cancelled, process, caught>>

\* request_v1: the answer to the request, or any other frame, or the reader gone
Finish(r) ==
    /\ result' = r /\ Goto("exec", "remove")
    /\ UNCHANGED <<phase, notes>>

Failure == IF cancelled THEN "cancelled" ELSE "error"

Receive ==
    /\ th.exec.pc = "wait" /\ queue # <<>>
    /\ queue' = Tail(queue)
    /\ CASE Head(queue) = "init" /\ phase = "init" ->
              /\ phase' = "notify"
              /\ th' = [th EXCEPT !.exec.pc = "lock", !.exec.left = 1]
              /\ UNCHANGED <<result, notes>>
         [] Head(queue) = "call" /\ phase = "call" ->
              \E r \in {"ok", "error"} : Finish(r)
         [] Head(queue) = "note" /\ notes < MaxNotes ->
              /\ notes' = notes + 1
              /\ UNCHANGED <<phase, result, th>>
         [] Head(queue) = "eof" -> Finish(Failure)
         [] OTHER -> Finish("error")
    /\ UNCHANGED <<attempt, control, child, pipe, reader, emitted, caught>>

Disconnected ==
    /\ th.exec.pc = "wait" /\ queue = <<>> /\ ~reader
    /\ Finish(Failure)
    /\ UNCHANGED <<attempt, control, process, caught>>

\* The deadline passes: terminate_v1, and only then the entry is removed
Timeout ==
    /\ th.exec.pc = "wait"
    /\ result' = "error"
    /\ th' = [th EXCEPT !.exec.pc = "term", !.exec.after = "remove"]
    /\ UNCHANGED <<attempt, phase, control, process, notes, caught>>

\* Slip: a cancelled session is left to the thread that cancels it
RemoveTrusts ==
    /\ th.exec.pc = "remove"
    /\ attempt' = "none"
    /\ th' = [th EXCEPT !.exec.pc = IF cancelled THEN "join" ELSE "term",
                       !.exec.after = "join"]
    /\ UNCHANGED <<phase, result, control, process, notes, caught>>

Remove ==
    /\ th.exec.pc = "remove"
    /\ attempt' = "none"
    /\ th' = [th EXCEPT !.exec.pc = "term", !.exec.after = "join"]
    /\ UNCHANGED <<phase, result, control, process, notes, caught>>

\* Drop joins the reader thread, which ends with the child's output
Join ==
    /\ th.exec.pc = "join" /\ ~reader
    /\ Goto("exec", "done")
    /\ UNCHANGED <<attempt, phase, result, control, process, notes, caught>>

-----------------------------------------------------------------------------
(* terminate_v1, by whichever thread is first.                             *)

Terminate(t) ==
    /\ th[t].pc = "term"
    /\ terminated' = TRUE
    /\ Goto(t, IF terminated THEN th[t].after ELSE "stdin")
    /\ UNCHANGED <<attempt, phase, result, lock, stdinOpen, cancelled, process,
                   notes, caught>>

CloseStdin(t) ==
    /\ th[t].pc = "stdin" /\ lock = "free"
    /\ stdinOpen' = FALSE
    /\ Goto(t, "kill")
    /\ UNCHANGED <<attempt, phase, result, lock, terminated, cancelled, process,
                   notes, caught>>

Kill(t) ==
    /\ th[t].pc = "kill"
    /\ child' = "reaped"
    /\ Goto(t, th[t].after)
    /\ UNCHANGED <<attempt, phase, result, control, pipe, reader, queue, emitted,
                   notes, caught>>

-----------------------------------------------------------------------------
(* cancel; the gateway calls it at most once for an attempt, at any time.  *)

Cancel ==
    /\ th.cancel.pc = "idle"
    /\ caught' = attempt
    /\ \/ /\ attempt = "starting" /\ attempt' = "cancelled"
          /\ Goto("cancel", "done")
          /\ UNCHANGED cancelled
       \/ /\ attempt = "active" /\ cancelled' = TRUE
          /\ th' = [th EXCEPT !.cancel.pc = "lock", !.cancel.left = 1]
          /\ UNCHANGED attempt
       \/ /\ attempt = "none" /\ Goto("cancel", "done")
          /\ UNCHANGED <<attempt, cancelled>>
    /\ UNCHANGED <<phase, result, lock, stdinOpen, terminated, process, notes>>

-----------------------------------------------------------------------------
(* The reader thread and the child.                                        *)

\* try_send: a full queue ends the reader
ReaderFrame(k) ==
    /\ reader /\ Running /\ emitted < MaxFrames
    /\ emitted' = emitted + 1
    /\ IF Len(queue) < QueueRoom
       THEN queue' = Append(queue, k) /\ UNCHANGED reader
       ELSE reader' = FALSE /\ UNCHANGED queue
    /\ UNCHANGED <<attempt, th, phase, result, control, child, pipe, notes, caught>>

ReaderEof ==
    /\ reader /\ ~Running
    /\ reader' = FALSE
    /\ queue' = IF Len(queue) < QueueRoom THEN Append(queue, "eof") ELSE queue
    /\ UNCHANGED <<attempt, th, phase, result, control, child, pipe, emitted, notes,
                   caught>>

ChildReads ==
    /\ Running /\ pipe > 0 /\ pipe' = pipe - 1
    /\ UNCHANGED <<attempt, th, phase, result, control, child, reader, queue,
                   emitted, notes, caught>>

ChildExits ==
    /\ Running /\ child' = "zombie"
    /\ UNCHANGED <<attempt, th, phase, result, control, pipe, reader, queue,
                   emitted, notes, caught>>

-----------------------------------------------------------------------------
ControlNext(t) ==
    \/ LockStdin(t) \/ WriteUnit(t) \/ WriteBroken(t)
    \/ Terminate(t) \/ CloseStdin(t) \/ Kill(t)

ExecNext ==
    \/ Insert \/ Spawn \/ Activate \/ Receive \/ Disconnected \/ Timeout
    \/ Remove \/ Join \/ ControlNext("exec")

CancelNext == ControlNext("cancel")

ReaderNext == ReaderEof \/ \E k \in FrameKind \ {"eof"} : ReaderFrame(k)

Next == ExecNext \/ Cancel \/ CancelNext \/ ReaderNext \/ ChildReads \/ ChildExits

Spec == Init /\ [][Next]_vars

\* The gateway's threads are scheduled.  Nothing is asked of the child, and
\* nobody has to cancel.
FairSpec ==
    /\ Spec
    /\ WF_vars(ExecNext) /\ WF_vars(CancelNext) /\ WF_vars(ReaderEof)

-----------------------------------------------------------------------------
(* Properties.                                                             *)

UpstreamTypeOK ==
    /\ attempt \in {"none", "starting", "active", "cancelled"}
    /\ th \in [Thread -> [pc : Pc, left : 0..CallSize,
                          after : {"remove", "join", "done"}]]
    /\ phase \in Phase /\ result \in {"none", "ok", "error", "cancelled"}
    /\ lock \in Thread \cup {"free"}
    /\ stdinOpen \in BOOLEAN /\ terminated \in BOOLEAN /\ cancelled \in BOOLEAN
    /\ child \in {"none", "running", "zombie", "reaped"} /\ pipe \in 0..PipeRoom
    /\ reader \in BOOLEAN /\ queue \in Seq(FrameKind) /\ Len(queue) <= QueueRoom
    /\ notes \in 0..MaxNotes /\ emitted \in 0..MaxFrames

\* A running child always has an owner that will kill it: execute until it has
\* returned, or a cancellation that has claimed the kill and is past every wait
\* for the child.  (Execute may return first: a flooding child ends the reader
\* thread that it joins.)
ChildHasOwner ==
    Running => th.exec.pc # "done" \/ th.cancel.pc \in {"stdin", "kill"}

\* When the call and its cancellation are over the child has been waited for,
\* the attempt is out of the map, and no lock is held.
NothingLeftBehind ==
    th.exec.pc = "done" /\ th.cancel.pc \in {"idle", "done"} =>
        child \in {"none", "reaped"} /\ attempt = "none" /\ lock = "free"

\* A cancellation that found the attempt starting is never lost in the start.
CancelledStartFails == caught = "starting" => result # "ok"

\* All of them together.
AttemptIsSound ==
    UpstreamTypeOK /\ ChildHasOwner /\ NothingLeftBehind /\ CancelledStartFails

\* Every call returns although the child may hang (the deadline of a request or
\* a cancellation kills it), and a cancellation that found the child running
\* kills it.
AttemptEnds ==
    /\ <>(th.exec.pc = "done")
    /\ (caught = "active") ~> ~Running
=============================================================================
