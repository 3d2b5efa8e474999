--------------------------- MODULE MCGatewayEnds ---------------------------
(***************************************************************************)
(* What a gateway has begun comes to its end: a stdio session and its      *)
(* calls with one worker, a session with two, the attempt of a provider    *)
(* whose child hangs, the clients of a daemon and its shutdown.  A fifth   *)
(* instance is an attempt whose request is larger than the pipe: it may    *)
(* wait for the child for ever, but must be sound.  The first state picks  *)
(* the instance; the other components stay where they start.  The fairness *)
(* is that of the three modules' FairSpec.                                 *)
(***************************************************************************)
EXTENDS UpstreamProvider

CONSTANTS i1, w1, w2, c1, c3, d1, d2, Nobody

VARIABLES instance,
    frames, input, closed, jobs, inflight, signalled, active, cancelReq, worker,
    answer, responses, written, writer,
    endpoint, sockets, instLock, startLock, dm, cl, conn, kills, killed, acked

Modes == [c \in {c1, c3} |-> IF c = c3 THEN "stop" ELSE "mcp"]

\* The client of a session may stop reading; its writer and workers then leave
Session == INSTANCE McpStdio WITH
    Id <- {i1}, Worker <- {w1}, MaxFrames <- 3, QueueRoom <- 1, WriterFails <- TRUE,
    reader <- input
Pool == INSTANCE McpStdio WITH
    Id <- {i1}, Worker <- {w1, w2}, MaxFrames <- 3, QueueRoom <- 1, WriterFails <- TRUE,
    reader <- input
\* The requests of this attempt fit the pipe
Attempt == INSTANCE UpstreamProvider WITH CallSize <- 2
Daemon == INSTANCE GatewayDaemon WITH
    Client <- {c1, c3}, Daemon <- {d1, d2}, Mode <- Modes, MaxActive <- 1,
    Events <- {"deadline", "slow"}, MaxKills <- 1

ASSUME UpstreamAssumption /\ Attempt!UpstreamAssumption
ASSUME Session!StdioAssumption /\ Pool!StdioAssumption /\ Daemon!DaemonAssumption

sessionVars == <<frames, input, closed, jobs, inflight, signalled, active,
                 cancelReq, worker, answer, responses, written, writer>>
daemonVars == <<endpoint, sockets, instLock, startLock, dm, cl, conn, kills, killed,
                acked>>
mcVars == <<instance, vars, sessionVars, daemonVars>>

MCInit ==
    /\ instance \in {"session", "pool", "attempt", "blocked", "daemon"}
    /\ Init /\ Daemon!DaemonInit
    /\ IF instance = "pool" THEN Pool!Init ELSE Session!Init

\* A step A of one of the components
SessionStep(A) ==
    instance = "session" /\ A /\ UNCHANGED <<instance, vars, daemonVars>>
\* The client of this session only calls tools, and no call fails by itself
PoolStep(A) ==
    /\ instance = "pool" /\ A /\ UNCHANGED <<instance, vars, daemonVars>>
    /\ \A f \in DOMAIN frames' : frames'[f].kind = "call" /\ answer'[f] # "error"
AttemptStep(A) ==
    instance = "attempt" /\ A /\ UNCHANGED <<instance, sessionVars, daemonVars>>
BlockedStep(A) ==
    instance = "blocked" /\ A /\ UNCHANGED <<instance, sessionVars, daemonVars>>
DaemonStep(A) ==
    instance = "daemon" /\ A /\ UNCHANGED <<instance, sessionVars, vars>>

MCNext ==
    \/ SessionStep(Session!Next) \/ PoolStep(Pool!Next) \/ AttemptStep(Attempt!Next) \/ BlockedStep(Next)
    \/ DaemonStep(Daemon!DaemonNext)

\* Threads are scheduled, the client closes its input in the end, and providers
\* return.
SessionFairness ==
    /\ WF_mcVars(SessionStep(Session!ReaderNext))
    /\ WF_mcVars(SessionStep(Session!WriterNext))
    /\ WF_mcVars(SessionStep(Session!WorkerNext(w1)))
    /\ WF_mcVars(PoolStep(Pool!ReaderNext))
    /\ WF_mcVars(PoolStep(Pool!WriterNext))
    /\ \A w \in {w1, w2} : WF_mcVars(PoolStep(Pool!WorkerNext(w)))

\* The gateway's threads are scheduled.  Nothing is asked of the child, and
\* nobody has to cancel.
AttemptFairness ==
    /\ WF_mcVars(AttemptStep(Attempt!ExecNext))
    /\ WF_mcVars(AttemptStep(Attempt!CancelNext))
    /\ WF_mcVars(AttemptStep(Attempt!ReaderEof))

\* Processes and threads are scheduled, a deadline that has passed is seen at one
\* of the tests that follow, and every session is closed in the end.
DaemonFairness ==
    /\ \A d \in {d1, d2} : WF_mcVars(DaemonStep(Daemon!InstanceNext(d)))
                           /\ WF_mcVars(DaemonStep(Daemon!Leave(d)))
    /\ \A c \in {c1, c3} :
          /\ WF_mcVars(DaemonStep(Daemon!HandlerNext(c)))
          /\ WF_mcVars(DaemonStep(Daemon!ClientNext(c)))
          /\ SF_mcVars(DaemonStep(Daemon!GiveUp(c) \/ Daemon!TryWait(c)))
          /\ SF_mcVars(DaemonStep(Daemon!Deadline(c)))
          /\ WF_mcVars(DaemonStep(Daemon!EndSession(c)))

MCSpec ==
    /\ MCInit /\ [][MCNext]_mcVars
    /\ SessionFairness /\ AttemptFairness /\ DaemonFairness

-----------------------------------------------------------------------------
\* A closed session ends although writer and workers may leave in any order,
\* unless the reader is stranded with a call that nobody is left to take; and
\* every tool call of a client that keeps reading is answered.
SessionEnds ==
    /\ instance = "session" => Session!SessionEnds
    /\ instance = "pool" => Pool!ClosedEnds

\* A call of an upstream provider returns although its child may hang, and a
\* cancellation that found the child running kills it.
CallsReturn == instance = "attempt" => Attempt!AttemptEnds

\* Every client of a daemon gets its answer or an error although either may die
\* at any point, and a daemon that acknowledged a stop is gone in the end.
DaemonAnswers == instance = "daemon" => Daemon!DaemonAnswers
=============================================================================
