-------------------------- MODULE TracerSupervisor --------------------------
(***************************************************************************)
(* The Linux tracer: TracerSupervisorStateV1, the planner that decides     *)
(* what to do with each ptrace stop (linux_pytest/                         *)
(* tracer_supervisor_state.rs), the recorder inside it (TracerTasks), and  *)
(* the loop that drives it against the kernel                              *)
(* (tracer_seccomp/kernel_connector.rs, drive_supervisor_v1).              *)
(*                                                                         *)
(* The kernel is external: lifetimes of tasks that enter system calls,     *)
(* stop, fork, exec, exit and are killed on their own, each stop reported  *)
(* by waitpid(-1) in any order, thread ids reused once a task is reaped.   *)
(*                                                                         *)
(* The loop is that of the fixed two-task probe, the one loop there is: it *)
(* keeps a TaskTreeGuardV1 beside the planner, which refuses every run but *)
(* a root with one forked child.  The planner itself is made for any tree; *)
(* without the guard (Guarded = FALSE) the loop stands for any caller that *)
(* follows the planner's intents and adds no check, as its tests do.       *)
(*                                                                         *)
(* A token of the planner (brand, stop generation, position) is linear in  *)
(* Rust and the loop hands each one straight back, so an exchange is the   *)
(* pending request alone.                                                  *)
(***************************************************************************)
EXTENDS TracerTasks, TLC

CONSTANTS
    Shapes,      \* the system calls tasks make: [call, kind, rel]
    MaxLives,    \* bound: task lifetimes the kernel creates
    MaxCalls,    \* bound: system calls other than exits, in all
    Faults,      \* whether kills, signals and restarts happen
    Guarded      \* whether the loop keeps the probe's task tree

\* What the supervisor is defined for
SupervisorAssumption ==
    /\ TidAssumption
    /\ Shapes \subseteq [call : Calls, kind : Kinds, rel : Relations]
    /\ MaxLives \in Nat \ {0} /\ MaxCalls \in Nat
    /\ Faults \in BOOLEAN /\ Guarded \in BOOLEAN

VARIABLES
    life,        \* external: the kernel's tasks, one entry for each lifetime
    calls,       \* system calls made so far (bounded by MaxCalls)
    plan,        \* the planner: recorder, pending forks, held children, exchange
    tree,        \* TaskTreeGuardV1: the root and its one nested task
    outcome,     \* "run", "completed" or "failed": the driving loop's result
    odd,         \* ghost: something the tracer does not support happened
    who          \* ghost: the lifetime each logical task stands for

kernel == <<life, calls>>
vars == <<life, calls, plan, tree, outcome, odd, who>>

Stops == {"seccomp", "event", "exec", "sysexit", "exit", "initial", "signal"}
Lives == DOMAIN life
Here(t) == {k \in Lives : life[k].tid = t /\ life[k].st # "gone"}
LifeOf(t) == CHOOSE k \in Here(t) : TRUE
Group(k) == {j \in Lives : life[j].group = life[k].group /\ life[j].st # "gone"}

NewLife(t, parent, group, st, born, blocked) ==
    [tid |-> t, parent |-> parent, group |-> group, st |-> st, seen |-> FALSE,
     born |-> born,        \* the kind of creation it comes from
     blocked |-> blocked,  \* SIGCHLD is blocked
     chld |-> FALSE,       \* SIGCHLD is pending for its process
     call |-> "none", kind |-> "fork", rel |-> "new", kid |-> 0, ran |-> FALSE,
     execd |-> FALSE, traced |-> FALSE, ret |-> 0, term |-> "none"]

-----------------------------------------------------------------------------
(* The planner: each operator returns the planner after one call.          *)

Idle == [kind |-> "none"]
Reject(p) == [p EXCEPT !.bad = TRUE]
Emit(p, r) == [p EXCEPT !.rec = r, !.bad = @ \/ r.poisoned]
Ask(p, ex) == [p EXCEPT !.ex = ex]
ResumeOne(p, t, how) == Ask(p, [kind |-> "resume", steps |-> <<[tid |-> t, how |-> how]>>])
\* Slip: the parent that was held for its child is forgotten.
ResumeChildOnly(p, c, t) == ResumeOne(p, c, "continue")

ResumeChildThenParent(p, c, t) ==
    Ask(p, [kind |-> "resume", steps |-> <<[tid |-> c, how |-> "continue"],
                                           [tid |-> t, how |-> "syscall"]>>])

ForksOf(p, t) == {f \in p.forks : f.tid = t}
Awaiting(p) == Cardinality({f \in p.forks : f.held = NoTid})

\* Nothing may be left held that no fork in progress can still explain.
RemoveFork(p, t) ==
    LET q == [p EXCEPT !.forks = @ \ ForksOf(p, t)]
    IN IF Cardinality(q.stops) > Awaiting(q) THEN Reject(q) ELSE q

BeginPlan(t) ==
    LET r == ObserveInitialBirth(NewTracker, t)
    IN [rec |-> r, forks |-> {}, stops |-> {}, ex |-> Idle, bad |-> r.poisoned]

\* The child stopped before its parent's event: held until a parent names it.
AcceptUnannounced(p, c) ==
    LET q == Emit(p, ObserveChildReady(p.rec, c))
    IN IF c \in p.stops \/ Cardinality(p.stops) >= Awaiting(p)
          \/ Cardinality(p.stops) >= MaxTasks - 1 THEN Reject(p)
       ELSE IF q.bad THEN q ELSE [q EXCEPT !.stops = @ \cup {c}]

\* The child stopped after its parent's event, which names it.
AcceptExact(p, c) ==
    LET fs == {f \in p.forks : f.held = c}
        q == Emit(p, ObserveChildReady(p.rec, c))
    IN IF ~AwaitsReady(p.rec, c) \/ Cardinality(fs) # 1 THEN Reject(p)
       ELSE IF q.bad THEN q
       ELSE ResumeChildThenParent([q EXCEPT !.forks = @ \ fs], c, (CHOOSE f \in fs : TRUE).tid)

EventFits(p, t, event) ==
    CASE event = "seccomp" -> PendingCall(p.rec, t) = "none"
      [] event \in Kinds -> \E f \in ForksOf(p, t) : f.held = NoTid /\ f.kind = event
      [] event = "exec" -> PendingCall(p.rec, t) \in ExecCalls
      [] event = "exit" -> TRUE

\* st: what the wait status says; event: the ptrace event; term: a final status.
ObserveWait(p, t, st, event, term) ==
    LET live == IsLive(p.rec, t)
        reaped == Emit(p, ObserveTerminalReap(p.rec, t, term))
    IN CASE ~live /\ st # "initial" -> Reject(p)
         [] ~live /\ st = "initial" ->
              IF AwaitsReady(p.rec, t) THEN AcceptExact(p, t) ELSE AcceptUnannounced(p, t)
         [] live /\ st = "zombie" -> IF reaped.bad THEN reaped ELSE RemoveFork(reaped, t)
         [] live /\ st = "sysexit" ->
              IF PendingCall(p.rec, t) = "none" THEN Reject(p)
              ELSE Ask(p, [kind |-> "info", tid |-> t, what |-> "sysexit"])
         [] live /\ st \in {"initial", "signal"} -> Reject(p)
         [] OTHER ->
              IF EventFits(p, t, event)
              THEN Ask(p, [kind |-> "message", tid |-> t, event |-> event])
              ELSE Reject(p)

\* Slip: a held child is taken for the child of the first parent to report.
AcceptForkAny(p, t, c0) ==
    LET f == CHOOSE g \in ForksOf(p, t) : TRUE
        c == IF p.stops # {} THEN CHOOSE x \in p.stops : TRUE ELSE c0
        q == Emit(p, ObserveChildAnnouncement(p.rec, t, c, f.kind, f.rel))
    IN IF q.bad THEN q
       ELSE IF c \in p.stops
            THEN ResumeChildThenParent([q EXCEPT !.stops = @ \ {c}, !.forks = @ \ {f}], c, t)
            ELSE [q EXCEPT !.forks = (@ \ {f}) \cup {[f EXCEPT !.held = c]}, !.ex = Idle]

\* A parent names its child.  A child that was not seen yet is awaited with the
\* parent held; one that is held already goes on, and then the parent.
AcceptFork(p, t, c) ==
    LET f == CHOOSE g \in ForksOf(p, t) : TRUE
        q == Emit(p, ObserveChildAnnouncement(p.rec, t, c, f.kind, f.rel))
    IN IF \/ \E g \in p.forks \ {f} : g.held = c
          \/ c \notin p.stops /\ Cardinality(p.stops) >= Awaiting(p)
       THEN Reject(p)
       ELSE IF q.bad THEN q
       ELSE IF c \in p.stops
            THEN ResumeChildThenParent([q EXCEPT !.stops = @ \ {c}, !.forks = @ \ {f}], c, t)
            ELSE [q EXCEPT !.forks = (@ \ {f}) \cup {[f EXCEPT !.held = c]}, !.ex = Idle]

\* msg: a thread id, "exited", "signaled", or NoTid for what cannot be decoded.
AcceptMessage(p, msg) ==
    LET t == p.ex.tid
        ran == Emit(p, ObserveExec(p.rec, t, msg.tid))
        ended == Emit(p, ObservePtraceExit(p.rec, t, msg.term))
        left == RemoveFork(ended, t)
    IN CASE p.ex.event = "seccomp" ->
              IF msg.cookie THEN Ask(p, [kind |-> "info", tid |-> t, what |-> "seccomp"])
              ELSE Reject(p)
         [] p.ex.event \in Kinds ->
              IF msg.tid = NoTid THEN Reject(p) ELSE AcceptFork(p, t, msg.tid)
         [] p.ex.event = "exec" -> IF ran.bad THEN ran ELSE ResumeOne(ran, t, "syscall")
         [] p.ex.event = "exit" ->
              IF msg.term = "none" THEN Reject(p)
              ELSE IF ended.bad THEN ended
              ELSE IF left.bad THEN left ELSE ResumeOne(left, t, "continue")

\* frame: what PTRACE_GET_SYSCALL_INFO returned for the task as it is now.
AcceptSyscallInfo(p, frame) ==
    LET t == p.ex.tid
        q == Emit(p, ObserveSyscallExit(p.rec, t, frame.ret))
        left == RemoveFork(q, t)
    IN CASE frame.op # p.ex.what -> Reject(p)
         [] frame.op = p.ex.what /\ frame.op = "seccomp" ->
              Ask(p, [kind |-> "permit", tid |-> t, shape |-> frame.shape])
         [] OTHER -> IF q.bad THEN q ELSE IF left.bad THEN left ELSE ResumeOne(left, t, "continue")

\* A vfork into the parent's own thread group fails closed.
Admitted(s) == ~(s.kind = "vfork" /\ s.rel = "shared")

\* The call is decoded and recorded, and the task goes on into it.
FinishFrame(p, t, s) ==
    LET q == Emit(p, ObserveSeccompEntry(p.rec, t, s.call))
        fork == [tid |-> t, kind |-> s.kind, rel |-> s.rel, held |-> NoTid]
    IN IF s.call \in Creations /\ (\/ ~Admitted(s)
                                   \/ ForksOf(p, t) # {}
                                   \/ Cardinality(p.forks) >= MaxTasks) THEN Reject(p)
       ELSE IF q.bad THEN q
       ELSE ResumeOne(IF s.call \in Creations THEN [q EXCEPT !.forks = @ \cup {fork}] ELSE q,
                      t, "syscall")

ConsumePermit(p) ==
    IF p.ex.shape.call = "clone3"
    THEN Ask(p, [kind |-> "clone3", tid |-> p.ex.tid, shape |-> p.ex.shape])
    ELSE FinishFrame(p, p.ex.tid, p.ex.shape)

ConfirmResume(p) ==
    IF Len(p.ex.steps) > 1 THEN Ask(p, [p.ex EXCEPT !.steps = Tail(@)]) ELSE Ask(p, Idle)

PlanComplete(p) ==
    ~p.bad /\ p.ex = Idle /\ p.forks = {} /\ p.stops = {} /\ Complete(p.rec)

-----------------------------------------------------------------------------
(* External: the kernel.                                                   *)

\* External: a running task traps into a system call; the filter stops it.
KEnter(k, s) ==
    /\ outcome = "run" /\ life[k].st = "user"
    /\ s.call \in NoReturns \/ calls < MaxCalls
    /\ life' = [life EXCEPT ![k] = [@ EXCEPT !.st = "seccomp", !.seen = FALSE, !.kid = 0,
                    !.ran = FALSE, !.call = s.call, !.kind = s.kind, !.rel = s.rel]]
    /\ calls' = IF s.call \in NoReturns THEN calls ELSE calls + 1
    /\ odd' = (odd \/ (s.call \in Creations /\ ~Admitted(s)))
    /\ UNCHANGED <<plan, tree, outcome, who>>

\* External: a creation call succeeds: the child is stopped, its parent too.
KBirth(k, t) ==
    /\ outcome = "run" /\ life[k].st = "insys" /\ life[k].call \in Creations
    /\ life[k].kid = 0 /\ Len(life) < MaxLives /\ Here(t) = {}
    /\ LET n == Len(life) + 1
           child == NewLife(t, k, IF life[k].rel = "shared" THEN life[k].group ELSE n, "initial",
                            life[k].kind, life[k].blocked)
       IN life' = Append([life EXCEPT ![k] = [@ EXCEPT !.st = "event", !.seen = FALSE,
                                                       !.kid = n]], child)
    /\ odd' = (odd \/ Len(life) >= MaxTasks)
    /\ UNCHANGED <<calls, plan, tree, outcome, who>>

\* SIGCHLD waits to be delivered to task k.
Alerted(k) == life[life[k].group].chld /\ ~life[k].blocked

Released(k) == life[k].execd \/ life[k].st \in {"zombie", "gone"}

\* External: a call returns, to a stop if the task was resumed to its return.
KReturn(k, ret) ==
    /\ outcome = "run" /\ life[k].st = "insys" /\ life[k].call \notin NoReturns
    /\ \/ life[k].call = "other" /\ ret \in {0, ErrorResult}
       \/ life[k].call = "other" /\ ret = RestartResult /\ (Faults \/ Alerted(k))
       \/ life[k].call \in Creations /\ life[k].kid = 0 /\ ret = ErrorResult
       \/ /\ life[k].call \in Creations /\ life[k].kid # 0
          /\ life[k].kind = "vfork" => Released(life[k].kid)
          /\ ret = life[life[k].kid].tid
       \/ life[k].call \in ExecCalls /\ ret = (IF life[k].ran THEN 0 ELSE ErrorResult)
    /\ life' = [life EXCEPT ![k] = [@ EXCEPT !.ret = ret, !.seen = FALSE,
                    !.st = IF life[k].traced THEN "sysexit" ELSE "user"]]
    /\ odd' = (odd \/ ret = RestartResult)
    /\ UNCHANGED <<calls, plan, tree, outcome, who>>

\* External: execve of a process with one thread succeeds.
KExec(k) ==
    /\ outcome = "run" /\ life[k].st = "insys" /\ life[k].call \in ExecCalls /\ ~life[k].ran
    /\ Group(k) = {k} /\ life[k].group = k
    /\ life' = [life EXCEPT ![k] = [@ EXCEPT !.st = "exec", !.seen = FALSE,
                                             !.ran = TRUE, !.execd = TRUE]]
    /\ odd' = (odd \/ life[k].execd)
    /\ UNCHANGED <<calls, plan, tree, outcome, who>>

Ending == {"exit", "dying", "zombie", "gone"}

\* External: exit ends the thread, exit_group its whole process.
KExit(k) ==
    /\ outcome = "run" /\ life[k].st = "insys" /\ life[k].call \in NoReturns
    /\ LET others == {j \in Group(k) \ {k} : life[j].st \notin Ending}
           hit == IF life[k].call = "exit" THEN {k} ELSE {k} \cup others
       IN /\ life' = [j \in Lives |-> IF j \in hit
                        THEN [life[j] EXCEPT !.st = "exit", !.seen = FALSE, !.term = "exited"]
                        ELSE life[j]]
          /\ odd' = (odd \/ hit # {k})
    /\ UNCHANGED <<calls, plan, tree, outcome, who>>

\* External: a task past its exit event becomes reportable, a group's first
\* task once the others are gone.
KDie(k) ==
    /\ outcome = "run" /\ life[k].st = "dying"
    /\ life[k].group = k => Group(k) = {k}
    /\ life' = [life EXCEPT ![k].st = "zombie"]
    /\ UNCHANGED <<calls, plan, tree, outcome, odd, who>>

\* External: SIGKILL wakes every thread of a process, stopped or not; it may or
\* may not stop once more on its way out.
KKill(k, st) ==
    /\ Faults /\ outcome = "run" /\ life[k].st \notin Ending
    /\ life' = [j \in Lives |-> IF j \in Group(k) /\ life[j].st \notin Ending
                  THEN [life[j] EXCEPT !.st = st, !.seen = FALSE, !.term = "signaled"]
                  ELSE life[j]]
    /\ odd' = TRUE
    /\ UNCHANGED <<calls, plan, tree, outcome, who>>

\* External: a signal is about to be delivered, or the group stops.
KSignal(k) ==
    /\ Faults /\ outcome = "run" /\ life[k].st = "user"
    /\ life' = [life EXCEPT ![k] = [@ EXCEPT !.st = "signal", !.seen = FALSE]]
    /\ odd' = TRUE
    /\ UNCHANGED <<calls, plan, tree, outcome, who>>

\* External: SIGCHLD is about to be delivered; a tracer sees it although the
\* task ignores it.
KChild(k) ==
    /\ outcome = "run" /\ life[k].st = "user" /\ Alerted(k)
    /\ LET told == [life EXCEPT ![life[k].group].chld = FALSE]
       IN life' = [told EXCEPT ![k] = [@ EXCEPT !.st = "signal", !.seen = FALSE]]
    /\ odd' = TRUE
    /\ UNCHANGED <<calls, plan, tree, outcome, who>>

\* External: the tracer has reaped task k, and its parent process is told.
Reaped(k) ==
    LET gone == [life EXCEPT ![k].st = "gone"]
        p == life[k].parent
    IN IF life[k].born \in {"fork", "vfork"} /\ \E j \in Group(p) : life[j].st \notin Ending
       THEN [gone EXCEPT ![life[p].group].chld = TRUE] ELSE gone

-----------------------------------------------------------------------------
(* The probe's task tree: each operator returns the tree after one call.   *)

NewTree(t) ==
    [root |-> t, announced |-> NoTid, pending |-> NoTid, nested |-> NoTid, order |-> "none",
     rootReaped |-> FALSE, nestedReaped |-> FALSE, refused |-> FALSE]

RefuseTree(g) == [g EXCEPT !.refused = TRUE]

\* Which of parent event and child stop came first must not change.
RecordForkDeliveryOrder(g, order) ==
    IF g.order \in {"none", order} THEN [g EXCEPT !.order = order] ELSE RefuseTree(g)

BindNestedTid(g, t) ==
    IF g.refused \/ g.nested # NoTid \/ g.announced # t \/ g.pending # t THEN RefuseTree(g)
    ELSE [g EXCEPT !.nested = t, !.pending = NoTid]

\* One child is announced in a run, the one that has stopped if one has.
RecordNestedAnnouncement(g, t) ==
    LET h == [RecordForkDeliveryOrder(g, IF g.pending = t THEN "child" ELSE "parent")
                EXCEPT !.announced = t]
    IN IF t \in {NoTid, g.root} \/ g.announced # NoTid \/ g.pending \notin {NoTid, t}
       THEN RefuseTree(g)
       ELSE IF g.pending = t THEN BindNestedTid(h, t) ELSE h

\* One task other than the root stops in a run, the announced one if one was.
RecordPtraceStop(g, t) ==
    LET h == RecordForkDeliveryOrder([g EXCEPT !.pending = IF @ = NoTid THEN t ELSE @],
                                     IF g.announced = t THEN "parent" ELSE "child")
    IN IF t \in {g.root, g.nested} THEN g
       ELSE IF h.pending # t \/ g.announced \notin {NoTid, t} THEN RefuseTree(h)
       ELSE IF g.announced = t THEN BindNestedTid(h, t) ELSE h

RecordReap(g, t) ==
    [g EXCEPT !.rootReaped = @ \/ t = g.root, !.nestedReaped = @ \/ t = g.nested,
              !.pending = IF @ = t THEN NoTid ELSE @]

\* prove_final_echild, close_success
ProveFinalEchild(g) == g.rootReaped /\ g.nested # NoTid /\ g.nestedReaped

\* What the probe accepts of a completed planner: a forked child, both tasks
\* ended by their own exit, and no system call but the fork returned.
FixedCompletion(r) ==
    /\ Len(r.slots) = 2 /\ r.returns = 1
    /\ \A i \in DOMAIN r.slots : r.slots[i].term = "exited" /\ ~r.slots[i].execEver

-----------------------------------------------------------------------------
(* The driving loop.                                                       *)

Follow(p) ==
    /\ plan' = p
    /\ outcome' = IF p.bad THEN "failed" ELSE "run"
    /\ who' = IF Len(p.rec.slots) > Len(plan.rec.slots)
              THEN Append(who, LifeOf(p.rec.slots[Len(p.rec.slots)].tid)) ELSE who
    /\ UNCHANGED <<calls, odd>>

\* A kernel request on a task that is not stopped fails, and with it the run.
Fail == outcome' = "failed" /\ UNCHANGED <<life, calls, plan, tree, odd, who>>

\* The tree becomes g; a run it refuses fails before the planner hears of it,
\* and otherwise the planner becomes p.
Checked(g, p) ==
    /\ tree' = g
    /\ IF g.refused THEN outcome' = "failed" /\ UNCHANGED <<calls, plan, odd, who>>
       ELSE Follow(p)
Unchecked(p) == Follow(p) /\ UNCHANGED tree

Reportable(k) == life[k].st = "zombie" \/ (life[k].st \in Stops /\ ~life[k].seen)
EventName(l) == IF l.st = "event" THEN l.kind ELSE l.st

\* The wait status of a task, for the tree and then for the planner
Wait(k) ==
    /\ outcome = "run" /\ plan.ex = Idle /\ Reportable(k)
    /\ life' = IF life[k].st = "zombie" THEN Reaped(k) ELSE [life EXCEPT ![k].seen = TRUE]
    /\ Checked(IF ~Guarded THEN tree
               ELSE IF life[k].st = "zombie" THEN RecordReap(tree, life[k].tid)
               ELSE RecordPtraceStop(tree, life[k].tid),
               ObserveWait(plan, life[k].tid, life[k].st, EventName(life[k]), life[k].term))

\* The last task was reaped: waitpid says ECHILD, and the planner is completed.
WaitNone ==
    /\ outcome = "run" /\ plan.ex = Idle /\ \A k \in Lives : life[k].st = "gone"
    /\ outcome' = IF /\ Guarded => ProveFinalEchild(tree) /\ FixedCompletion(plan.rec)
                     /\ PlanComplete(plan)
                  THEN "completed" ELSE "failed"
    /\ UNCHANGED <<life, calls, plan, tree, odd, who>>

\* wait_any_v1 gives up at its deadline or after its attempts.
WaitDeadline ==
    /\ outcome = "run" /\ plan.ex = Idle
    /\ \A k \in Lives : ~Reportable(k)
    /\ odd' = TRUE /\ outcome' = "failed"
    /\ UNCHANGED <<life, calls, plan, tree, who>>

Stopped(t) == Here(t) # {} /\ life[LifeOf(t)].st \in Stops

\* The message belongs to the stop the task is in now.  A task killed since it
\* was reported answers with an exit status, which may read as any thread id.
Messages(l) ==
    [tid : IF l.st = "event" THEN {life[l.kid].tid}
           ELSE IF l.st = "exec" THEN {l.tid}
           ELSE IF l.st = "exit" THEN Tids ELSE {NoTid},
     cookie : {l.st = "seccomp"}, term : {IF l.st = "exit" THEN l.term ELSE "none"}]

\* block_tracee_sigchld_v1: the root must be stopped and must not have blocked
\* SIGCHLD; from now on the end of its child does not stop it.
CanBlock == Stopped(tree.root) /\ ~life[LifeOf(tree.root)].blocked
BlockTraceeSigchld == life' = [life EXCEPT ![LifeOf(tree.root)].blocked = TRUE]

\* The message of an event; at a fork the probe's tree is told before the planner.
ReadEventMessage ==
    /\ outcome = "run" /\ plan.ex.kind = "message"
    /\ IF ~Stopped(plan.ex.tid) THEN Fail
       ELSE \E m \in Messages(life[LifeOf(plan.ex.tid)]) :
              IF Guarded /\ plan.ex.event = "fork"
              THEN IF m.tid = NoTid \/ ~CanBlock THEN Fail
                   ELSE /\ BlockTraceeSigchld
                        /\ Checked(RecordNestedAnnouncement(tree, m.tid), AcceptMessage(plan, m))
              ELSE Unchecked(AcceptMessage(plan, m)) /\ UNCHANGED life

ReadSyscallInfo ==
    /\ outcome = "run" /\ plan.ex.kind = "info"
    /\ IF Stopped(plan.ex.tid)
       THEN LET l == life[LifeOf(plan.ex.tid)]
            IN /\ Unchecked(AcceptSyscallInfo(plan,
                    [op |-> l.st, ret |-> l.ret,
                     shape |-> [call |-> l.call, kind |-> l.kind, rel |-> l.rel]]))
               /\ UNCHANGED life
       ELSE Fail

HoldStopped ==
    /\ outcome = "run" /\ plan.ex.kind = "permit"
    /\ Unchecked(ConsumePermit(plan)) /\ UNCHANGED life

\* prove_clone3_quiescence_v1: only the root, before it has a child, and with no
\* other thread.
Quiescent(t) ==
    t = tree.root /\ tree.nested = NoTid /\ Group(LifeOf(t)) = {LifeOf(t)}

ReadClone3Args ==
    /\ outcome = "run" /\ plan.ex.kind = "clone3"
    /\ IF Stopped(plan.ex.tid) /\ (Guarded => Quiescent(plan.ex.tid))
       THEN Unchecked(FinishFrame(plan, plan.ex.tid, plan.ex.shape)) /\ UNCHANGED life
       ELSE Fail

\* The arguments do not lie in private anonymous memory, or cannot be read.
Clone3ArgsUnproven ==
    /\ Faults /\ outcome = "run" /\ plan.ex.kind = "clone3"
    /\ odd' = TRUE /\ outcome' = "failed"
    /\ UNCHANGED <<life, calls, plan, tree, who>>

\* External: where PTRACE_CONT or PTRACE_SYSCALL lets a stopped task go.
After(st) == CASE st \in {"seccomp", "event", "exec"} -> "insys"
               [] st \in {"sysexit", "initial", "signal"} -> "user"
               [] st = "exit" -> "dying"

ResumeTask ==
    /\ outcome = "run" /\ plan.ex.kind = "resume"
    /\ LET s == Head(plan.ex.steps)
       IN IF Stopped(s.tid)
          THEN /\ life' = [life EXCEPT ![LifeOf(s.tid)] =
                             [@ EXCEPT !.st = After(@), !.traced = s.how = "syscall"]]
               /\ Unchecked(ConfirmResume(plan))
          ELSE Fail

Ended == outcome # "run" /\ UNCHANGED vars

-----------------------------------------------------------------------------
Init ==
    /\ \E t \in Tids : /\ life = <<NewLife(t, 0, 1, "user", "none", FALSE)>>
                       /\ plan = BeginPlan(t) /\ tree = NewTree(t)
    /\ calls = 0 /\ outcome = "run" /\ odd = FALSE /\ who = <<1>>

Kernel ==
    \/ \E k \in Lives, s \in Shapes : KEnter(k, s)
    \/ \E k \in Lives, t \in Tids : KBirth(k, t)
    \/ \E k \in Lives, ret \in Tids \cup {0, ErrorResult, RestartResult} : KReturn(k, ret)
    \/ \E k \in Lives : KExec(k) \/ KExit(k) \/ KDie(k) \/ KSignal(k) \/ KChild(k)
    \/ \E k \in Lives, st \in {"exit", "dying"} : KKill(k, st)

Driver ==
    \/ \E k \in Lives : Wait(k)
    \/ WaitNone \/ ReadEventMessage \/ ReadSyscallInfo \/ HoldStopped
    \/ ReadClone3Args \/ Clone3ArgsUnproven \/ ResumeTask

Next == Kernel \/ Driver \/ WaitDeadline \/ Ended

Spec == Init /\ [][Next]_vars

\* The kernel runs what can run and every call ends; the loop takes its steps.
FairSpec == Spec /\ WF_vars(Kernel) /\ WF_vars(Driver)

-----------------------------------------------------------------------------
Exchange ==
    [kind : {"none"}] \cup [kind : {"message"}, tid : Tids, event : Kinds \cup Stops]
    \cup [kind : {"info"}, tid : Tids, what : {"seccomp", "sysexit"}]
    \cup [kind : {"permit", "clone3"}, tid : Tids, shape : Shapes]
    \cup {x \in [kind : {"resume"}, steps : UNION {[1..n -> [tid : Tids,
             how : {"continue", "syscall"}]] : n \in 1..2}] : TRUE}

\* Every part of the tracer's state has its type, fewer than MaxTasks children are
\* held, and the recorder's balance is the number of calls in progress.
TracerTypeOK ==
    /\ TrackerTypeOK(plan.rec)
    /\ plan.forks \subseteq [tid : Tids, kind : Kinds, rel : Relations, held : Tids \cup {NoTid}]
    /\ \A f, g \in plan.forks : f.tid = g.tid => f = g
    /\ plan.stops \subseteq Tids /\ Cardinality(plan.stops) < MaxTasks
    /\ plan.ex \in Exchange /\ plan.bad \in BOOLEAN
    /\ outcome \in {"run", "completed", "failed"} /\ odd \in BOOLEAN
    /\ tree \in [root : Tids, announced : Tids \cup {NoTid}, pending : Tids \cup {NoTid},
                 nested : Tids \cup {NoTid}, order : {"none", "parent", "child"},
                 rootReaped : BOOLEAN, nestedReaped : BOOLEAN, refused : BOOLEAN]
    /\ who \in Seq(Lives) /\ Len(who) = Len(plan.rec.slots)

\* Logical task i is one lifetime of its own, born of the parent and into the
\* thread group that the kernel gave that lifetime.
TrueBirth(i) ==
    LET s == plan.rec.slots[i]
        l == life[who[i]]
    IN /\ \A j \in DOMAIN who : who[j] = who[i] => j = i
       /\ l.parent = (IF s.parent = 0 THEN 0 ELSE who[s.parent])
       /\ l.group = who[s.group]
       /\ s.phase # "reaped" => s.tid = l.tid /\ l.st # "gone"

\* As long as only supported things happen, every Birth event is true, whatever
\* order the stops of parents and children come in, however many forks are in
\* progress and however thread ids are reused; so every later event, which
\* finds its task by its live thread id, is about the task it names.
BirthsAreTrue == ~odd => \A i \in DOMAIN who : TrueBirth(i)

\* A completed trace is a complete and true one, also when tasks were killed or
\* signalled at any moment: every lifetime ended, and every one is a logical
\* task with the right parent and group.
CompletionIsTrue ==
    outcome = "completed" =>
        /\ \A k \in Lives : life[k].st = "gone"
        /\ Len(who) = Len(life)
        /\ \A i \in DOMAIN who : TrueBirth(i)

\* The probe's program: the root forks once, and the two tasks exit.
FixedRun ==
    /\ Len(life) = 2 /\ calls = 1
    /\ life[2].parent = 1 /\ life[2].born = "fork"

\* Nothing but the probe's program has been seen yet.
FixedSoFar ==
    \/ FixedRun
    \/ /\ Len(life) = 1
       /\ \/ calls = 0 /\ life[1].call = "none"
          \/ /\ calls = 1 /\ life[1].call \in Creations /\ life[1].kind = "fork"
             /\ life[1].st \in {"seccomp", "insys"}

\* The planner gives up no run in which only supported things happened; the
\* probe's loop, which refuses other trees as well, never the probe's program.
NoFalseRejection ==
    ~odd => /\ ~plan.bad
            /\ outcome = "failed" => Guarded /\ ~FixedSoFar

\* The probe completes with its own program only, whoever was killed meanwhile.
ProbeIsExact == Guarded /\ outcome = "completed" => FixedRun

\* In how many places the planner holds a stop of thread t.
Owners(t) ==
    Cardinality({f \in plan.forks : f.tid = t /\ f.held # NoTid})
    + Cardinality(plan.stops \cap {t})
    + (IF plan.ex.kind \in {"message", "info", "permit", "clone3"} /\ plan.ex.tid = t
       THEN 1 ELSE 0)
    + (IF plan.ex.kind = "resume"
       THEN Cardinality({i \in DOMAIN plan.ex.steps : plan.ex.steps[i].tid = t}) ELSE 0)

\* A stop that waitpid has consumed is never lost and never answered twice: the
\* planner holds it in exactly one place until it resumes the task, and holds
\* no task that is running.
StopsAreOwned ==
    (outcome = "run" /\ ~odd) =>
        \A k \in Lives : Owners(life[k].tid) =
            (IF \E j \in Here(life[k].tid) : life[j].st \in Stops /\ life[j].seen THEN 1 ELSE 0)

\* What the tracer reports is true and complete, it loses no stop, the planner
\* refuses no supported run and the probe not its own.
TracesAreTrue ==
    /\ TracerTypeOK
    /\ BirthsAreTrue
    /\ StopsAreOwned
    /\ CompletionIsTrue
    /\ NoFalseRejection
    /\ ProbeIsExact

\* Every run comes to its end: no task waits for ever for its resumption.
RunEnds == <>(outcome # "run")
=============================================================================
