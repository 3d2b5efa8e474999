---------------------------- MODULE TracerTasks ----------------------------
(***************************************************************************)
(* TracerTaskStateRecorderV1 (linux_pytest/tracer_task_state.rs): the      *)
(* recorder that turns what the tracer sees of raw Linux thread ids into   *)
(* the life of logical tasks.  It is a value: each operator below takes a  *)
(* recorder and returns the recorder after one observation.                *)
(*                                                                         *)
(* A logical task id is the position of a task's slot.  The parent that    *)
(* the Birth event names is kept in the slot beside the group, so that the *)
(* events given to the sink can be compared with what the kernel did.      *)
(* The reason of a rejection is left out: the first one poisons the        *)
(* recorder for good, and nothing reads a poisoned recorder.  Sequence     *)
(* numbers and 64-bit counters are left out; pairs of counters that only   *)
(* complete() compares are kept as their difference.                       *)
(***************************************************************************)
EXTENDS Integers, Sequences, FiniteSets

CONSTANTS
    Tids,        \* raw thread ids
    MaxTasks     \* TRACER_TASK_MAX_TASKS_V1

NoTid == 0

\* What the recorder is defined for
TidAssumption == NoTid \notin Tids /\ IsFiniteSet(Tids) /\ MaxTasks \in Nat \ {0}

Creations == {"fork", "vfork", "clone", "clone3"}
ExecCalls == {"execve"}
NoReturns == {"exit", "exit_group"}
Calls == Creations \cup ExecCalls \cup NoReturns \cup {"other"}
Kinds == {"fork", "vfork", "clone"}
Relations == {"new", "shared"}
Terminations == {"exited", "signaled"}

Slot == [tid : Tids \cup {NoTid}, parent : 0..MaxTasks, group : 1..MaxTasks,
         phase : {"running", "exit", "reaped"}, call : Calls \cup {"none"},
         child : Tids \cup {NoTid}, ready : BOOLEAN,
         execNow : BOOLEAN, execEver : BOOLEAN,
         term : Terminations \cup {"none"}]

\* parent = 0: the child's own stop was seen, its announcement was not.
Correlation == [tid : Tids, parent : 0..MaxTasks, kind : Kinds, rel : Relations,
                ready : BOOLEAN]

NewTracker ==
    [slots |-> <<>>, pend |-> {}, poisoned |-> FALSE,
     unmet |-> 0,      \* child announcements minus child readies
     readies |-> 0, births |-> 0,
     open |-> 0,       \* seccomp entries minus their resolutions
     returns |-> 0,    \* system call exits
     exits |-> 0, reaps |-> 0]

-----------------------------------------------------------------------------
Holds(r, t) == {i \in DOMAIN r.slots : r.slots[i].tid = t /\ r.slots[i].phase # "reaped"}
FindLive(r, t) == CHOOSE i \in Holds(r, t) : \A j \in Holds(r, t) : i <= j
IsLive(r, t) == Holds(r, t) # {}
IsRunning(r, t) == IsLive(r, t) /\ r.slots[FindLive(r, t)].phase = "running"
PendingCall(r, t) == IF IsLive(r, t) THEN r.slots[FindLive(r, t)].call ELSE "none"
AwaitsReady(r, t) == \E e \in r.pend : e.tid = t /\ e.parent # 0 /\ ~e.ready

\* The first rejection is permanent.
Step(r, accepted, next) ==
    IF ~r.poisoned /\ accepted THEN next ELSE [r EXCEPT !.poisoned = TRUE]

InsertTask(r, t, parent, group) ==
    Step(r, ~IsLive(r, t) /\ Len(r.slots) < MaxTasks,
         [r EXCEPT !.slots = Append(@,
            [tid |-> t, parent |-> parent,
             group |-> IF group = 0 THEN Len(@) + 1 ELSE group,
             phase |-> "running", call |-> "none", child |-> NoTid, ready |-> FALSE,
             execNow |-> FALSE, execEver |-> FALSE, term |-> "none"])])

ObserveInitialBirth(r, t) == Step(r, r.slots = <<>>, InsertTask(r, t, 0, 0))

CreationPermits(call, kind) ==
    \/ call = "fork" /\ kind = "fork"
    \/ call = "vfork" /\ kind = "vfork"
    \/ call \in {"clone", "clone3"}

\* Once a child was both announced and seen stopped, and only then, it is born.
FinishCorrelation(r, e) ==
    LET p == r.slots[e.parent]
        grown == InsertTask(r, e.tid, e.parent, IF e.rel = "shared" THEN p.group ELSE 0)
    IN IF e.parent = 0 \/ ~e.ready THEN r
       ELSE Step(r, p.phase = "running" /\ p.child = e.tid /\ CreationPermits(p.call, e.kind),
                 IF grown.poisoned THEN grown
                 ELSE [grown EXCEPT !.slots[e.parent].ready = TRUE,
                                    !.pend = @ \ {e}, !.births = @ + 1])

Known(r, t) == {e \in r.pend : e.tid = t}
HasRoom(r, t) == Known(r, t) # {} \/ Len(r.slots) + Cardinality(r.pend) < MaxTasks

CanAnnounce(r, p, c, kind, rel) ==
    /\ p # c
    /\ IsRunning(r, p)
    /\ CreationPermits(PendingCall(r, p), kind)
    /\ r.slots[FindLive(r, p)].child = NoTid
    /\ kind # "clone" => rel = "new"
    /\ ~IsLive(r, c)
    /\ HasRoom(r, c)
    /\ \A e \in Known(r, c) : e.parent = 0

ObserveChildAnnouncement(r, p, c, kind, rel) ==
    IF r.poisoned \/ ~CanAnnounce(r, p, c, kind, rel) THEN [r EXCEPT !.poisoned = TRUE]
    ELSE LET i == FindLive(r, p)
             e == [tid |-> c, parent |-> i, kind |-> kind, rel |-> rel,
                   ready |-> Known(r, c) # {}]
         IN FinishCorrelation([r EXCEPT !.pend = (@ \ Known(r, c)) \cup {e},
                                        !.slots[i].child = c, !.unmet = @ + 1], e)

ObserveChildReady(r, c) ==
    IF r.poisoned \/ IsLive(r, c) \/ ~HasRoom(r, c) \/ \E e \in Known(r, c) : e.ready
    THEN [r EXCEPT !.poisoned = TRUE]
    ELSE LET old == IF Known(r, c) # {} THEN CHOOSE e \in Known(r, c) : TRUE
                    ELSE [tid |-> c, parent |-> 0, kind |-> "fork", rel |-> "new",
                          ready |-> FALSE]
             e == [old EXCEPT !.ready = TRUE]
         IN FinishCorrelation([r EXCEPT !.pend = (@ \ {old}) \cup {e},
                                        !.unmet = @ - 1, !.readies = @ + 1], e)

GroupOf(r, g) == {i \in DOMAIN r.slots : r.slots[i].phase # "reaped" /\ r.slots[i].group = g}

ObserveExec(r, t, former) ==
    LET i == FindLive(r, t)
    IN Step(r, /\ t = former
               /\ IsRunning(r, t)
               /\ r.slots[i].call \in ExecCalls
               /\ ~r.slots[i].execEver
               /\ GroupOf(r, r.slots[i].group) = {i},
            [r EXCEPT !.slots[i].execNow = TRUE, !.slots[i].execEver = TRUE])

Rested(s) == [s EXCEPT !.call = "none", !.ready = FALSE, !.child = NoTid, !.execNow = FALSE]

ObserveSeccompEntry(r, t, call) ==
    LET i == FindLive(r, t)
    IN Step(r, IsRunning(r, t) /\ r.slots[i].call = "none",
            [r EXCEPT !.slots[i] = [Rested(@) EXCEPT !.call = call], !.open = @ + 1])

\* A result is zero, an error, a restart request or the thread id of a child.
ErrorResult == -1
RestartResult == -512

ResultFits(s, result) ==
    /\ s.call # "none" /\ result # RestartResult /\ s.call \notin NoReturns
    /\ s.call \in ExecCalls => result = (IF s.execNow THEN 0 ELSE ErrorResult)
    /\ s.call \in Creations =>
          IF s.child = NoTid THEN result = ErrorResult ELSE s.ready /\ result = s.child

ObserveSyscallExit(r, t, result) ==
    LET i == FindLive(r, t)
    IN Step(r, IsRunning(r, t) /\ ResultFits(r.slots[i], result),
            [r EXCEPT !.slots[i] = Rested(@), !.open = @ - 1, !.returns = @ + 1])

\* An ordinary end needs an exit call in progress, a killed task none at all.
EndFits(s, term) == IF term = "exited" THEN s.call \in NoReturns ELSE s.call = "none"

ObservePtraceExit(r, t, term) ==
    LET i == FindLive(r, t)
    IN Step(r, IsRunning(r, t) /\ EndFits(r.slots[i], term),
            [r EXCEPT !.slots[i] = [Rested(@) EXCEPT !.phase = "exit", !.term = term],
                      !.open = IF r.slots[i].call \in NoReturns THEN @ - 1 ELSE @,
                      !.exits = @ + 1])

\* The raw thread id is erased: the kernel may give it to another task.
ObserveTerminalReap(r, t, term) ==
    LET i == FindLive(r, t)
    IN Step(r, IsLive(r, t) /\ r.slots[i].phase = "exit" /\ r.slots[i].term = term,
            [r EXCEPT !.slots[i] = [Rested(@) EXCEPT !.phase = "reaped", !.tid = NoTid],
                      !.reaps = @ + 1])

\* complete(): every task reaped, nothing half observed, every count balanced.
Complete(r) ==
    /\ ~r.poisoned
    /\ r.slots # <<>>
    /\ \A i \in DOMAIN r.slots : r.slots[i].phase = "reaped" /\ r.slots[i].tid = NoTid
    /\ r.pend = {}
    /\ r.unmet = 0 /\ r.open = 0
    /\ r.readies = Len(r.slots) - 1 /\ r.births = Len(r.slots) - 1
    /\ r.exits = Len(r.slots) /\ r.reaps = Len(r.slots)

TrackerTypeOK(r) ==
    /\ r.slots \in Seq(Slot) /\ Len(r.slots) <= MaxTasks
    /\ r.pend \subseteq Correlation
    /\ r.poisoned \in BOOLEAN
    /\ r.unmet \in Int /\ r.open \in Int
    /\ ~r.poisoned => r.open = Cardinality({i \in DOMAIN r.slots : r.slots[i].call # "none"})
    /\ r.returns \in Nat /\ r.readies \in Nat /\ r.births \in Nat /\ r.exits \in Nat /\ r.reaps \in Nat
=============================================================================
