------------------------------ MODULE MCTracer ------------------------------
(***************************************************************************)
(* The tracer on five instances: overlapping forks and threads of four     *)
(* thread ids; kills, signals and restarts among processes, and among the  *)
(* threads of a group; vforks with execve; and the loop of the two-task    *)
(* probe on trees that it accepts and that it refuses.  The first state    *)
(* picks one.                                                              *)
(***************************************************************************)
EXTENDS Naturals, Sequences, TLC

CONSTANTS t1, t2, t3, t4

VARIABLES instance, life, calls, plan, tree, outcome, odd, who

Exits == {[call |-> "exit", kind |-> "fork", rel |-> "new"]}
ForkShapes == Exits \cup
    {[call |-> "fork", kind |-> "fork", rel |-> "new"],
     [call |-> "clone3", kind |-> "clone", rel |-> "shared"]}
GroupShapes == Exits \cup
    {[call |-> "clone3", kind |-> "clone", rel |-> "shared"],
     [call |-> "exit_group", kind |-> "fork", rel |-> "new"]}
KillShapes == Exits \cup {[call |-> "fork", kind |-> "fork", rel |-> "new"]}
VforkShapes == Exits \cup
    {[call |-> "vfork", kind |-> "vfork", rel |-> "new"],
     [call |-> "clone", kind |-> "vfork", rel |-> "shared"],
     [call |-> "execve", kind |-> "fork", rel |-> "new"],
     [call |-> "other", kind |-> "fork", rel |-> "new"],
     [call |-> "exit_group", kind |-> "fork", rel |-> "new"]}

ProbeShapes == Exits \cup
    {[call |-> "clone3", kind |-> "fork", rel |-> "new"],
     [call |-> "clone3", kind |-> "clone", rel |-> "shared"],
     [call |-> "vfork", kind |-> "vfork", rel |-> "new"],
     [call |-> "other", kind |-> "fork", rel |-> "new"]}

Fork == INSTANCE TracerSupervisor WITH
    Tids <- {t1, t2, t3, t4}, MaxTasks <- 4, Shapes <- ForkShapes,
    MaxLives <- 4, MaxCalls <- 3, Faults <- FALSE, Guarded <- FALSE
Kill == INSTANCE TracerSupervisor WITH
    Tids <- {t1, t2, t3}, MaxTasks <- 3, Shapes <- KillShapes,
    MaxLives <- 3, MaxCalls <- 2, Faults <- TRUE, Guarded <- FALSE
Group == INSTANCE TracerSupervisor WITH
    Tids <- {t1, t2, t3}, MaxTasks <- 3, Shapes <- GroupShapes,
    MaxLives <- 3, MaxCalls <- 2, Faults <- TRUE, Guarded <- FALSE
Vfork == INSTANCE TracerSupervisor WITH
    Tids <- {t1, t2, t3}, MaxTasks <- 2, Shapes <- VforkShapes,
    MaxLives <- 3, MaxCalls <- 2, Faults <- FALSE, Guarded <- FALSE
Probe == INSTANCE TracerSupervisor WITH
    Tids <- {t1, t2, t3}, MaxTasks <- 3, Shapes <- ProbeShapes,
    MaxLives <- 3, MaxCalls <- 2, Faults <- TRUE, Guarded <- TRUE

ASSUME Fork!SupervisorAssumption /\ Kill!SupervisorAssumption
ASSUME Group!SupervisorAssumption /\ Vfork!SupervisorAssumption
ASSUME Probe!SupervisorAssumption

Init ==
    \/ instance = "fork" /\ Fork!Init
    \/ instance = "kill" /\ Kill!Init
    \/ instance = "group" /\ Group!Init
    \/ instance = "vfork" /\ Vfork!Init
    \/ instance = "probe" /\ Probe!Init

Next ==
    /\ UNCHANGED instance
    /\ \/ instance = "fork" /\ Fork!Next
       \/ instance = "kill" /\ Kill!Next
       \/ instance = "group" /\ Group!Next
       \/ instance = "vfork" /\ Vfork!Next
       \/ instance = "probe" /\ Probe!Next

Spec == Init /\ [][Next]_<<instance, life, calls, plan, tree, outcome, odd, who>>

\* Thread ids are interchangeable
Symmetry == Permutations({t1, t2, t3, t4})

\* What the tracer reports is true, whatever order the stops of parents and
\* children come in, however thread ids are reused and whoever is killed: every
\* birth names the right parent and group, every consumed stop is held in one
\* place until it is answered, and a completed trace holds every task that
\* lived.  The planner refuses no run of supported steps, and the probe's loop
\* never its own program, but every other tree.
TracesAreTrue ==
    /\ instance = "fork" => Fork!TracesAreTrue
    /\ instance = "kill" => Kill!TracesAreTrue
    /\ instance = "group" => Group!TracesAreTrue
    /\ instance = "vfork" => Vfork!TracesAreTrue
    /\ instance = "probe" => Probe!TracesAreTrue
=============================================================================
