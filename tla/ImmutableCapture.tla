-------------------------- MODULE ImmutableCapture --------------------------
(***************************************************************************)
(* The immutable capture of a team publication                              *)
(* (src/team_manifest_v2/immutable_capture.rs) and what `run` does with its *)
(* outcome (src/team_publish.rs, src/team_cli.rs): the command runs twice   *)
(* on a sealed snapshot, in a process group of its own, under a timeout and *)
(* with SIGINT, SIGTERM and SIGHUP forwarded to the group.                  *)
(*                                                                         *)
(* The process has one thread; a signal handler runs between any two of its *)
(* steps unless the signals are blocked, and steps under                    *)
(* with_forwarded_signals_blocked are one step here.  The bytes of the      *)
(* streams are left out: a stream is complete when end of file has been     *)
(* read, which it can be once nobody holds its write end any more, be it    *)
(* that the processes are gone or that they have closed or redirected it.   *)
(***************************************************************************)
EXTENDS Naturals

CONSTANTS
    MaxSignals, \* bound: signals that are sent to the process
    MaxForks    \* bound: descendants of a run

Runs == {1, 2}

VARIABLES
    pc,         \* where the capturing thread stands
    run,        \* the run in progress
    flags,      \* FIRST_INTERRUPTION_SIGNAL is set, INTERRUPTION_ESCALATED
    pgid,       \* FORWARDED_PROCESS_GROUP: the run whose group it is, or 0
    group,      \* by run: its leader, descendants in and outside the group,
                \* and whether its streams have not been closed by them all
    local,      \* the locals of run_once: status, group_alive, eof, interrupted
    ending,     \* how run_once ends once the group has been terminated
    kept,       \* the first execution is complete and kept
    outcome,    \* of the capture
    user,       \* what the user got: nothing yet, nothing, output, the fallback
    signals,    \* how many signals were sent
    ghost       \* the handler has run; it ran before the gate of a later run;
                \* such a run was started; a cleanup gave up early

vars == <<pc, run, flags, pgid, group, local, ending, kept, outcome, user, signals, ghost>>
thread == <<run, local, ending, kept, outcome, user>>

CaptureBounds == MaxSignals \in Nat /\ MaxForks \in Nat

\* A member is alive, dying (SIGKILL has been sent) or gone; the leader is a
\* zombie until it is waited for.
NoGroup == [leader |-> "none", inside |-> 0, doomed |-> 0, outside |-> 0, forks |-> 0,
            open |-> TRUE]
NoLocal == [status |-> FALSE, alive |-> TRUE, eof |-> FALSE, interrupted |-> FALSE]

Init ==
    /\ pc = "install" /\ run = 1
    /\ flags = [first |-> FALSE, escalated |-> FALSE]
    /\ pgid = 0
    /\ group = [r \in Runs |-> NoGroup]
    /\ local = NoLocal /\ ending = "none"
    /\ kept = FALSE /\ outcome = "none" /\ user = "waits"
    /\ signals = 0
    /\ ghost = [handled |-> FALSE, barred |-> FALSE, late |-> FALSE, gaveUp |-> FALSE]

-----------------------------------------------------------------------------
(* The group of a run and its kernel.                                       *)

Running(r) == group[r].leader \in {"runs", "dying"}
Members(r) == group[r].inside + group[r].doomed
\* kill(-pgid, 0): a zombie leader still counts.
Exists(r) == group[r].leader \in {"runs", "dying", "zombie"} \/ Members(r) > 0
\* Somebody may still write to the streams of the run.
OutputOpen(r) == group[r].open /\ (Running(r) \/ Members(r) + group[r].outside > 0)

\* SIGKILL to the group g
Killed(g) ==
    [g EXCEPT !.leader = IF @ = "runs" THEN "dying" ELSE @,
              !.inside = 0, !.doomed = @ + g.inside]

\* A forwarded signal, which the members may handle or ignore: what they do
\* about it are the steps of the environment.
KillGroup(r) == group' = [group EXCEPT ![r] = Killed(@)]

\* A member forks, even while it is dying: the child has missed the signal.
Fork(r) ==
    /\ Running(r) \/ Members(r) > 0
    /\ group[r].forks < MaxForks
    /\ group' = [group EXCEPT ![r].inside = @ + 1, ![r].forks = @ + 1]

LeaderEnds(r) == Running(r) /\ group' = [group EXCEPT ![r].leader = "zombie"]

\* A descendant ends, or leaves the group with setsid and keeps its streams.
MemberEnds(r) ==
    \/ group[r].inside > 0 /\ group' = [group EXCEPT ![r].inside = @ - 1]
    \/ group[r].doomed > 0 /\ group' = [group EXCEPT ![r].doomed = @ - 1]
    \/ group[r].outside > 0 /\ group' = [group EXCEPT ![r].outside = @ - 1]

MemberLeaves(r) ==
    /\ group[r].inside > 0
    /\ group' = [group EXCEPT ![r].inside = @ - 1, ![r].outside = @ + 1]

\* The last of them closes or redirects the streams and lives on, silent.
CloseOutput(r) ==
    /\ group[r].leader # "none" /\ OutputOpen(r)
    /\ group' = [group EXCEPT ![r].open = FALSE]

Environment ==
    /\ \E r \in Runs :
          Fork(r) \/ LeaderEnds(r) \/ MemberEnds(r) \/ MemberLeaves(r) \/ CloseOutput(r)
    /\ UNCHANGED <<pc, flags, pgid, thread, signals, ghost>>

\* immutable_capture_signal_handler while the scope is installed; before and
\* after it the default action ends the process.
Signal ==
    /\ signals < MaxSignals /\ user = "waits" /\ pc # "dead"
    /\ signals' = signals + 1
    /\ \/ /\ pc \in {"install", "route", "publish"}
          /\ pc' = "dead"
          /\ UNCHANGED <<flags, pgid, group, ghost>>
       \/ /\ pc \notin {"install", "route", "publish"}
          /\ flags' = [first |-> TRUE, escalated |-> flags.first]
          /\ IF flags.first /\ pgid # 0 THEN KillGroup(pgid) ELSE UNCHANGED group
          /\ ghost' = [ghost EXCEPT !.handled = TRUE, !.barred = @ \/ pc # "spawn"]
          /\ UNCHANGED <<pc, pgid>>
    /\ UNCHANGED thread

-----------------------------------------------------------------------------
(* capture_immutable_team_attempt_with_v1 and its guarded part.             *)

\* The capture ends with o; finish is what follows.
Ends(o) == pc' = "finish" /\ outcome' = o

\* After a failure the outcome says whether the command was started.
AfterStart == Ends("afterStart")

Install ==
    /\ pc = "install"
    /\ \/ pc' = "prepare" /\ UNCHANGED outcome
       \/ pc' = "route" /\ outcome' = "beforeStart"
    /\ UNCHANGED <<run, local, ending, kept, user, flags, pgid, group, signals, ghost>>

\* verify_runtime_authority, prepare_snapshot, verify_snapshot_request
Prepare ==
    /\ pc = "prepare"
    /\ \/ pc' = "gate" /\ UNCHANGED outcome
       \/ Ends("beforeStart")
    /\ UNCHANGED <<run, local, ending, kept, user, flags, pgid, group, signals, ghost>>

\* No run is started once an interruption has been seen.
Gate ==
    /\ pc = "gate"
    /\ \/ flags.first /\ Ends("interrupted")
       \/ ~flags.first /\ pc' = "spawn" /\ UNCHANGED outcome
    /\ UNCHANGED <<run, local, ending, kept, user, flags, pgid, group, signals, ghost>>

\* command.spawn: the child leads its own session when this returns.
Spawn ==
    /\ pc = "spawn"
    /\ \/ /\ pc' = "retain"
          /\ group' = [group EXCEPT ![run].leader = "runs"]
          /\ local' = NoLocal
          /\ ghost' = [ghost EXCEPT !.late = @ \/ ghost.barred]
          /\ UNCHANGED outcome
       \/ /\ Ends(IF run = 1 THEN "beforeStart" ELSE "afterStart")
          /\ UNCHANGED <<group, local, ghost>>
    /\ UNCHANGED <<run, ending, kept, user, flags, pgid, signals>>

\* retain_process_group: a signal that came before the group was published is
\* forwarded now, as SIGKILL if it was not the only one.  Publishing the group
\* or preparing the streams may fail.
Retain ==
    /\ pc = "retain"
    /\ IF flags.escalated THEN KillGroup(run) ELSE UNCHANGED group
    /\ \/ pc' = "loop" /\ pgid' = run /\ UNCHANGED ending
       \/ pc' = "kill" /\ pgid' \in {0, run} /\ ending' = "afterStart"
    /\ UNCHANGED <<run, local, kept, outcome, user, flags, signals, ghost>>

-----------------------------------------------------------------------------
(* The loop of run_once.                                                    *)

\* The loop goes round; an interruption is noticed and starts the grace period.
LoopTop ==
    /\ pc = "loop" /\ ~flags.escalated
    /\ pc' = "read"
    /\ local' = [local EXCEPT !.interrupted = flags.first]
    /\ UNCHANGED <<run, ending, kept, outcome, user, flags, pgid, group, signals, ghost>>

\* Slip: only an interrupted run has a deadline
LoopExpires_Grace ==
    /\ pc = "loop" /\ flags.first /\ (local.interrupted \/ flags.escalated)
    /\ ending' = "interrupted" /\ pc' = "kill"
    /\ UNCHANGED <<run, local, kept, outcome, user, flags, pgid, group, signals, ghost>>

\* The grace period, which a second signal cuts short, has passed; without an
\* interruption it is the timeout of the run.
LoopExpires ==
    /\ pc = "loop"
    /\ \/ flags.first /\ (local.interrupted \/ flags.escalated) /\ ending' = "interrupted"
       \/ ~flags.first /\ ending' = "afterStart"
    /\ pc' = "kill"
    /\ UNCHANGED <<run, local, kept, outcome, user, flags, pgid, group, signals, ghost>>

\* read_available: end of file if nobody can write and all has been read, or an
\* error
Read ==
    /\ pc = "read"
    /\ \/ /\ pc' = "poll" /\ UNCHANGED ending
          /\ \/ UNCHANGED local
             \/ ~OutputOpen(run) /\ local' = [local EXCEPT !.eof = TRUE]
       \/ pc' = "kill" /\ ending' = "afterStart" /\ UNCHANGED local
    /\ UNCHANGED <<run, kept, outcome, user, flags, pgid, group, signals, ghost>>

Waited(g) == [g EXCEPT !.leader = IF @ = "zombie" THEN "reaped" ELSE @]

\* Slip: end of file is taken for the end of the group
Poll_Silent ==
    /\ pc = "poll"
    /\ LET status == local.status \/ group[run].leader = "zombie"
       IN /\ group' = [group EXCEPT ![run] = Waited(@)]
          /\ local' = [local EXCEPT !.status = status, !.alive = IF status THEN Members(run) > 0 ELSE @]
          /\ pc' = IF status /\ local.eof THEN "release" ELSE "loop"
    /\ UNCHANGED <<run, ending, kept, outcome, user, flags, pgid, signals, ghost>>

\* try_wait_child and then, if the leader has been reaped, process_group_exists
Poll ==
    /\ pc = "poll"
    /\ LET status == local.status \/ group[run].leader = "zombie"
           alive == Members(run) > 0
       IN /\ group' = [group EXCEPT ![run] = Waited(@)]
          /\ local' = [local EXCEPT !.status = status, !.alive = IF status THEN alive ELSE @]
          /\ pc' = IF status /\ ~alive /\ local.eof THEN "release" ELSE "loop"
    /\ UNCHANGED <<run, ending, kept, outcome, user, flags, pgid, signals, ghost>>

\* Either call fails.
PollFails ==
    /\ pc = "poll"
    /\ \/ ~local.status /\ UNCHANGED <<group, local>>
       \/ /\ local.status \/ group[run].leader = "zombie"
          /\ group' = [group EXCEPT ![run] = Waited(@)]
          /\ local' = [local EXCEPT !.status = TRUE, !.alive = TRUE]
    /\ pc' = "kill" /\ ending' = "afterStart"
    /\ UNCHANGED <<run, kept, outcome, user, flags, pgid, signals, ghost>>

\* The loop was left: the execution is complete, but is dropped when the group
\* cannot be released.
Release ==
    /\ pc = "release"
    /\ \/ pgid' = 0 /\ pc' = "complete" /\ UNCHANGED outcome
       \/ pgid' \in {0, run} /\ AfterStart
    /\ UNCHANGED <<run, local, ending, kept, user, flags, group, signals, ghost>>

Complete ==
    /\ pc = "complete"
    /\ kept' = (kept \/ run = 1)
    /\ \/ flags.first /\ Ends("interrupted")
       \/ ~flags.first /\ pc' = "verify" /\ UNCHANGED outcome
    /\ UNCHANGED <<run, local, ending, user, flags, pgid, group, signals, ghost>>

-----------------------------------------------------------------------------
(* terminate_and_reap, drain_terminated_streams.                            *)

TerminateKill ==
    /\ pc = "kill"
    /\ IF local.alive \/ ~local.status THEN KillGroup(run) ELSE UNCHANGED group
    /\ pc' = IF local.status THEN (IF local.alive THEN "rekill" ELSE "drain") ELSE "reap"
    /\ UNCHANGED <<flags, pgid, thread, signals, ghost>>

\* child.wait, whose error is dropped
TerminateReap ==
    /\ pc = "reap" /\ pc' = "rekill"
    /\ \/ /\ group[run].leader = "zombie"
          /\ group' = [group EXCEPT ![run] = Waited(@)]
          /\ local' = [local EXCEPT !.status = TRUE]
       \/ UNCHANGED <<group, local>>
    /\ UNCHANGED <<run, ending, kept, outcome, user, flags, pgid, signals, ghost>>

\* The group is signalled until it is gone or the cleanup deadline has passed.
TerminateAgain ==
    /\ pc = "rekill"
    /\ \/ ~Exists(run) /\ pc' = "drain" /\ UNCHANGED group
       \/ Exists(run) /\ KillGroup(run) /\ UNCHANGED pc
    /\ UNCHANGED <<flags, pgid, thread, signals, ghost>>

CleanupExpires ==
    /\ pc = "rekill" /\ Exists(run) /\ KillGroup(run)
    /\ pc' = "drain"
    /\ ghost' = [ghost EXCEPT !.gaveUp = TRUE]
    /\ UNCHANGED <<flags, pgid, thread, signals>>

\* process_group_exists fails, which is taken for the end of the group.
TerminateFails ==
    /\ pc = "rekill" /\ pc' = "drain"
    /\ ghost' = [ghost EXCEPT !.gaveUp = TRUE]
    /\ UNCHANGED group
    /\ UNCHANGED <<flags, pgid, thread, signals>>

\* Only an interrupted run is drained, until end of file or the deadline; the
\* first one is kept if it is then complete and its leader's status is known.
\* The group is released if that succeeds.
Drain ==
    /\ pc = "drain"
    /\ LET complete == ending = "interrupted" /\ run = 1 /\ local.status
       IN \/ complete /\ ~OutputOpen(run) /\ kept' = TRUE
          \/ ~(complete /\ local.eof) /\ UNCHANGED kept
    /\ pgid' \in {0, pgid}
    /\ Ends(ending)
    /\ UNCHANGED <<run, local, ending, user, flags, group, signals, ghost>>

-----------------------------------------------------------------------------
\* Runtime, profile and snapshot are verified again after each run; after the
\* second the two executions are compared.
Verify ==
    /\ pc = "verify"
    /\ \/ run = 1 /\ pc' = "gate" /\ run' = 2 /\ UNCHANGED outcome
       \/ run = 2 /\ flags.first /\ Ends("interrupted") /\ UNCHANGED run
       \/ run = 2 /\ ~flags.first /\ Ends("validated") /\ UNCHANGED run
       \/ AfterStart /\ UNCHANGED run
    /\ UNCHANGED <<local, ending, kept, user, flags, pgid, group, signals, ghost>>

\* SignalForwardingScope::finish: blocked, it clears the group, reads the first
\* signal and restores the handlers, which may fail.  An interruption goes
\* before every other outcome.
Finish ==
    /\ pc = "finish"
    /\ pgid' = 0
    /\ flags' = [first |-> FALSE, escalated |-> FALSE]
    /\ outcome' \in IF flags.first THEN {"interrupted"}
                    ELSE {outcome, IF outcome = "interrupted" THEN outcome ELSE "afterStart"}
    /\ pc' = "route"
    /\ UNCHANGED <<run, local, ending, kept, user, group, signals, ghost>>

\* publish_immutable_remote_v2 and run: the local fallback, nothing, or the
\* output of the first complete execution; only a validated one is published.
Route ==
    /\ pc = "route"
    /\ \/ outcome = "beforeStart" /\ user' = "fallback" /\ pc' = "end"
       \/ outcome = "validated" /\ pc' = "publish" /\ UNCHANGED user
       \/ /\ outcome \in {"afterStart", "interrupted"}
          /\ user' = IF kept THEN "output" ELSE "nothing"
          /\ pc' = "end"
    /\ UNCHANGED <<run, local, ending, kept, outcome, flags, pgid, group, signals, ghost>>

Publish ==
    /\ pc = "publish"
    /\ user' = "output" /\ pc' = "end"
    /\ UNCHANGED <<run, local, ending, kept, outcome, flags, pgid, group, signals, ghost>>

Thread ==
    \/ Install \/ Prepare \/ Gate \/ Spawn \/ Retain \/ LoopTop \/ LoopExpires \/ Read \/ Poll
    \/ PollFails \/ Release \/ Complete \/ TerminateKill \/ TerminateReap \/ TerminateAgain \/ CleanupExpires
    \/ TerminateFails \/ Drain \/ Verify \/ Finish \/ Route \/ Publish

Next == Thread \/ Environment \/ Signal

Spec == Init /\ [][Next]_vars

\* The thread goes on, its deadlines pass, and the kernel ends what SIGKILL
\* has been sent to.  Nothing is asked of the command.
KernelEnds(r) ==
    /\ \/ group[r].leader = "dying" /\ LeaderEnds(r)
       \/ group[r].doomed > 0 /\ group' = [group EXCEPT ![r].doomed = @ - 1]
    /\ UNCHANGED <<pc, flags, pgid, thread, signals, ghost>>

FairSpec ==
    /\ Spec
    /\ WF_vars(Thread) /\ SF_vars(LoopExpires) /\ SF_vars(CleanupExpires)
    /\ \A r \in Runs : WF_vars(KernelEnds(r))

-----------------------------------------------------------------------------
Over == pc \in {"route", "publish", "end"}

\* The user's command is run by the fallback only if the capture never started
\* it and nobody asked for it to stop.
NoFurtherRun ==
    user = "fallback" => ~ghost.handled /\ \A r \in Runs : group[r].leader = "none"

\* A signal that the handler took is never lost: the capture ends as
\* interrupted, nothing is published, and no run starts but one that was past
\* its gate when the signal came.
InterruptionHonoured ==
    ghost.handled => (Over => outcome = "interrupted") /\ ~ghost.late

\* The group of the first run is gone before the second is started, and both
\* are gone under a validated outcome, silent descendants included.  However
\* else the capture ends, no leader is left running that was not killed, and
\* the groups are gone and their leaders reaped unless terminate_and_reap gave
\* up: its deadline passed or it could not ask for the group.  A published
\* group is the one of the current run.
GroupsContained ==
    /\ Exists(1) => group[2].leader = "none"
    /\ outcome = "validated" => \A r \in Runs : ~Exists(r)
    /\ Over => \A r \in Runs : group[r].leader # "runs"
    /\ Over /\ ~ghost.gaveUp => \A r \in Runs : ~Exists(r)
    /\ pgid # 0 => pgid = run /\ group[run].leader # "none" /\ ~Over

CaptureIsSound == NoFurtherRun /\ InterruptionHonoured /\ GroupsContained

\* The capture comes to an end, whatever the command and its descendants do.
CaptureEnds == <>(pc \in {"end", "dead"})
=============================================================================
