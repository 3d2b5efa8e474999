---------------------------- MODULE GatewayDaemon ----------------------------
(***************************************************************************)
(* The workspace daemon: processes that start it, find it through files,   *)
(* use it, stop it, and die at any point.  A daemon takes the instance     *)
(* lock, sweeps what a dead one left, binds a socket of its own name and   *)
(* only then publishes the locator file.  A connector that finds no daemon *)
(* is elected by a second lock and starts one.  A daemon's name stands for *)
(* its socket name, its session nonce and the inodes of its two files:     *)
(* all are fresh in every instance.                                        *)
(***************************************************************************)
EXTENDS Naturals, FiniteSets

CONSTANTS Client, Daemon, Nobody,
          Mode,        \* what each client asks for: "mcp", "stop" or "status"
          MaxActive,   \* MAX_ACTIVE_CONNECTIONS_V1
          Events,      \* the events of the environment that may happen
          MaxKills     \* bound: processes that are killed

EventKind == {"deadline", "idle", "signal", "slow", "acceptFails", "bindFails"}

Code == {"ready", "busy", "draining", "internal", "eof"}

DaemonAssumption ==
    /\ IsFiniteSet(Client)
    /\ Mode \in [Client -> {"mcp", "stop", "status"}]
    /\ MaxActive \in Nat \ {0} /\ MaxKills \in Nat
    /\ Events \subseteq EventKind /\ Nobody \notin Client \cup Daemon \cup Code

ASSUME DaemonAssumed == DaemonAssumption

VARIABLES
    endpoint,    \* the locator file: the daemon it names
    sockets,     \* the socket files
    instLock, startLock,
    dm,          \* the daemons: place of the accept thread, stop flag, active
                 \* connections, and workers with only their guard to drop
    cl,          \* the clients: place, which of its three connects, the
                 \* locator it read, the daemon it started
    conn,        \* the connection of each client
    kills,
    killed,      \* history: daemons that did not end by their own loop
    acked        \* history: daemons that answered a stop request

daemonVars == <<endpoint, sockets, instLock, startLock, dm, cl, conn, kills, killed, acked>>
files == <<endpoint, sockets>>
locks == <<instLock, startLock>>
history == <<kills, killed, acked>>

DaemonPc == {"unborn", "lock", "sweep", "unlink", "bind", "rename", "check",
             "accept", "close", "rmsock", "stat", "rmend", "unlock", "gone"}
ClientPc == {"read", "dial", "reply", "error", "session", "elect", "spawn", "child",
             "done", "failed", "dead"}
Error == {"notfound", "refused", "timeout"} \cup (Code \ {"ready"})

NoConn == [to |-> Nobody, st |-> "none", reply |-> Nobody]

DaemonInit ==
    /\ endpoint = Nobody /\ sockets = {} /\ instLock = Nobody /\ startLock = Nobody
    /\ dm = [d \in Daemon |-> [pc |-> "unborn", stop |-> FALSE, active |-> 0,
                               leaving |-> 0]]
    /\ cl = [c \in Client |-> [pc |-> "read", at |-> "outer", seen |-> Nobody,
                               err |-> "notfound", child |-> Nobody]]
    /\ conn = [c \in Client |-> NoConn]
    /\ kills = 0 /\ killed = {} /\ acked = {}

Alive(d) == dm[d].pc \notin {"unborn", "gone"}
Listening(d) == dm[d].pc \in {"rename", "check", "accept", "close"}
DaemonGoto(d, p) == dm' = [dm EXCEPT ![d].pc = p]
ClientGoto(c, p) == cl' = [cl EXCEPT ![c].pc = p]
Without(lock, p) == IF lock = p THEN Nobody ELSE lock

\* What a client sees of its connection when the daemon's end of it is closed
\* (bytes already written can still be read)
Hangup(C) ==
    [c \in Client |-> IF c \notin C THEN conn[c]
                      ELSE IF conn[c].reply # Nobody THEN [conn[c] EXCEPT !.st = "none"]
                      ELSE [conn[c] EXCEPT !.st = "none", !.reply = "eof"]]

At(d, places) == {c \in Client : conn[c].to = d /\ conn[c].st \in places}
Open == {"queued", "held", "build", "session", "stopping"}

-----------------------------------------------------------------------------
(* bind, up to the published locator.                                      *)

TakeInstanceLock(d) ==
    /\ dm[d].pc = "lock"
    /\ \/ instLock = Nobody /\ instLock' = d /\ DaemonGoto(d, "sweep")
       \/ instLock # Nobody /\ DaemonGoto(d, "gone") /\ UNCHANGED instLock
    /\ UNCHANGED <<files, startLock, cl, conn, history>>

SweepSocket(d) ==
    /\ dm[d].pc = "sweep"
    /\ \/ endpoint = Nobody /\ DaemonGoto(d, "bind") /\ UNCHANGED sockets
       \/ endpoint # Nobody /\ sockets' = sockets \ {endpoint} /\ DaemonGoto(d, "unlink")
    /\ UNCHANGED <<endpoint, locks, cl, conn, history>>

SweepEndpoint(d) ==
    /\ dm[d].pc = "unlink"
    /\ endpoint' = Nobody /\ DaemonGoto(d, "bind")
    /\ UNCHANGED <<sockets, locks, cl, conn, history>>

BindSocket(d) ==
    /\ dm[d].pc = "bind"
    /\ sockets' = sockets \cup {d} /\ DaemonGoto(d, "rename")
    /\ UNCHANGED <<endpoint, locks, cl, conn, history>>

\* An error after the bind removes the socket again
BindFails(d) ==
    /\ "bindFails" \in Events /\ dm[d].pc = "rename"
    /\ sockets' = sockets \ {d} /\ instLock' = Nobody /\ DaemonGoto(d, "gone")
    /\ UNCHANGED <<endpoint, startLock, cl, conn, history>>

PublishEndpoint(d) ==
    /\ dm[d].pc = "rename"
    /\ endpoint' = d /\ DaemonGoto(d, "check")
    /\ UNCHANGED <<sockets, locks, cl, conn, history>>

-----------------------------------------------------------------------------
(* serve.                                                                  *)

\* SIGTERM, the lifetime of the daemon, or a worker that panicked
AskStop(d) ==
    /\ "signal" \in Events /\ dm[d].pc = "check" /\ ~dm[d].stop
    /\ dm' = [dm EXCEPT ![d].stop = TRUE]
    /\ UNCHANGED <<files, locks, cl, conn, history>>

Idle(d) ==
    /\ "idle" \in Events /\ dm[d].pc = "check" /\ dm[d].active = 0 /\ ~dm[d].stop
    /\ dm' = [dm EXCEPT ![d].stop = TRUE]
    /\ UNCHANGED <<files, locks, cl, conn, history>>

Check(d) ==
    /\ dm[d].pc = "check"
    /\ DaemonGoto(d, IF dm[d].stop /\ dm[d].active = 0 THEN "close" ELSE "accept")
    /\ UNCHANGED <<files, locks, cl, conn, history>>

Accept(d, c) ==
    /\ dm[d].pc = "accept" /\ c \in At(d, {"queued"})
    /\ \/ /\ dm[d].active >= MaxActive
          /\ conn' = [conn EXCEPT ![c].st = "none", ![c].reply = "busy"]
          /\ DaemonGoto(d, "check")
       \/ /\ dm[d].active < MaxActive
          /\ conn' = [conn EXCEPT ![c].st = "held"]
          /\ dm' = [dm EXCEPT ![d].pc = "check", ![d].active = @ + 1]
    /\ UNCHANGED <<files, locks, cl, history>>

NoConnection(d) ==
    /\ dm[d].pc = "accept" /\ At(d, {"queued"}) = {}
    /\ DaemonGoto(d, "check")
    /\ UNCHANGED <<files, locks, cl, conn, history>>

\* accept fails: serve returns although workers may still run
AcceptFails(d) ==
    /\ "acceptFails" \in Events /\ dm[d].pc = "accept"
    /\ DaemonGoto(d, "close") /\ killed' = killed \cup {d}
    /\ UNCHANGED <<files, locks, cl, conn, kills, acked>>

\* The fields of the daemon are dropped in order: the listener, the two files,
\* and the instance lock last
CloseListener(d) ==
    /\ dm[d].pc = "close"
    /\ conn' = Hangup(At(d, {"queued"})) /\ DaemonGoto(d, "rmsock")
    /\ UNCHANGED <<files, locks, cl, history>>

\* Slip: the lock is dropped before the files
RemoveSocketUnlocked(d) ==
    /\ dm[d].pc = "rmsock"
    /\ sockets' = sockets \ {d} /\ DaemonGoto(d, "stat")
    /\ instLock' = Without(instLock, d)
    /\ UNCHANGED <<endpoint, startLock, cl, conn, history>>

RemoveSocket(d) ==
    /\ dm[d].pc = "rmsock"
    /\ sockets' = sockets \ {d} /\ DaemonGoto(d, "stat")
    /\ UNCHANGED <<endpoint, locks, cl, conn, history>>

StatEndpoint(d) ==
    /\ dm[d].pc = "stat"
    /\ DaemonGoto(d, IF endpoint = d THEN "rmend" ELSE "unlock")
    /\ UNCHANGED <<files, locks, cl, conn, history>>

RemoveEndpoint(d) ==
    /\ dm[d].pc = "rmend"
    /\ endpoint' = Nobody /\ DaemonGoto(d, "unlock")
    /\ UNCHANGED <<sockets, locks, cl, conn, history>>

Unlock(d) ==
    /\ dm[d].pc = "unlock"
    /\ instLock' = Without(instLock, d) /\ DaemonGoto(d, "gone")
    /\ conn' = Hangup(At(d, Open))
    /\ UNCHANGED <<files, startLock, cl, history>>

-----------------------------------------------------------------------------
(* handle_connection_v1, by the worker of client c's connection.           *)

\* Answer and be left with the guard to drop
Finish(c, code) ==
    /\ conn' = [conn EXCEPT ![c].st = "none", ![c].reply = code]
    /\ dm' = [dm EXCEPT ![conn[c].to].leaving = @ + 1]

\* Slip: a stop request is answered and forgotten
HandleForgets(c) ==
    /\ conn[c].st = "held" /\ Alive(conn[c].to)
    /\ CASE Mode[c] = "mcp" /\ dm[conn[c].to].stop -> Finish(c, "draining")
         [] Mode[c] = "mcp" /\ ~dm[conn[c].to].stop ->
              conn' = [conn EXCEPT ![c].st = "build"] /\ UNCHANGED dm
         [] OTHER -> Finish(c, "ready")
    /\ acked' = IF Mode[c] = "stop" THEN acked \cup {conn[c].to} ELSE acked
    /\ UNCHANGED <<files, locks, cl, kills, killed>>

\* A stop request is answered before the flag is set
Handle(c) ==
    /\ conn[c].st = "held" /\ Alive(conn[c].to)
    /\ CASE Mode[c] = "status" -> Finish(c, "ready")
         [] Mode[c] = "stop" ->
              /\ conn' = [conn EXCEPT ![c].st = "stopping", ![c].reply = "ready"]
              /\ UNCHANGED dm
         [] Mode[c] = "mcp" /\ dm[conn[c].to].stop -> Finish(c, "draining")
         [] Mode[c] = "mcp" /\ ~dm[conn[c].to].stop ->
              conn' = [conn EXCEPT ![c].st = "build"] /\ UNCHANGED dm
    /\ acked' = IF Mode[c] = "stop" THEN acked \cup {conn[c].to} ELSE acked
    /\ UNCHANGED <<files, locks, cl, kills, killed>>

SetStop(c) ==
    /\ conn[c].st = "stopping" /\ Alive(conn[c].to)
    /\ dm' = [dm EXCEPT ![conn[c].to].stop = TRUE, ![conn[c].to].leaving = @ + 1]
    /\ conn' = [conn EXCEPT ![c].st = "none"]
    /\ UNCHANGED <<files, locks, cl, history>>

\* The per-session gateway is built before the client is told that it is ready
Build(c) ==
    /\ conn[c].st = "build" /\ Alive(conn[c].to)
    /\ \/ conn' = [conn EXCEPT ![c].st = "session", ![c].reply = "ready"] /\ UNCHANGED dm
       \/ "slow" \in Events /\ Finish(c, "internal")
    /\ UNCHANGED <<files, locks, cl, history>>

\* ActiveConnectionGuardV1::drop
Leave(d) ==
    /\ dm[d].leaving > 0 /\ Alive(d)
    /\ dm' = [dm EXCEPT ![d].leaving = @ - 1, ![d].active = @ - 1]
    /\ UNCHANGED <<files, locks, cl, conn, history>>

-----------------------------------------------------------------------------
(* connect_mode_once_v1.                                                   *)

\* The client is gone from its connection; a worker that had it ends, or is past
\* its answer and goes on to stop the daemon
Abandon(c) ==
    /\ conn' = IF conn[c].st = "stopping" THEN conn ELSE [conn EXCEPT ![c] = NoConn]
    /\ dm' = IF conn[c].st \in {"held", "build", "session"}
             THEN [dm EXCEPT ![conn[c].to].leaving = @ + 1] ELSE dm

Errs(c, e) == cl' = [cl EXCEPT ![c].pc = "error", ![c].err = e]

ReadEndpoint(c) ==
    /\ cl[c].pc = "read"
    /\ \/ endpoint = Nobody /\ Errs(c, "notfound")
       \/ endpoint # Nobody /\ cl' = [cl EXCEPT ![c].pc = "dial", ![c].seen = endpoint]
    /\ UNCHANGED <<files, locks, dm, conn, history>>

Dial(c) ==
    /\ cl[c].pc = "dial"
    /\ CASE cl[c].seen \notin sockets -> Errs(c, "notfound") /\ UNCHANGED conn
         [] cl[c].seen \in sockets /\ ~Listening(cl[c].seen) ->
              Errs(c, "refused") /\ UNCHANGED conn
         [] OTHER ->
              /\ conn' = [conn EXCEPT ![c] = [to |-> cl[c].seen, st |-> "queued",
                                              reply |-> Nobody]]
              /\ ClientGoto(c, "reply")
    /\ UNCHANGED <<files, locks, dm, history>>

\* Success drops the startup lock with everything else the function holds
Reply(c) ==
    /\ cl[c].pc = "reply" /\ conn[c].reply # Nobody
    /\ IF conn[c].reply = "ready"
       THEN /\ ClientGoto(c, IF Mode[c] = "mcp" THEN "session" ELSE "done")
            /\ startLock' = Without(startLock, c)
            /\ UNCHANGED conn
       ELSE /\ Errs(c, conn[c].reply) /\ conn' = [conn EXCEPT ![c] = NoConn]
            /\ UNCHANGED startLock
    /\ UNCHANGED <<files, instLock, dm, history>>

\* The handshake timeout.  (A connection that was still queued is accepted
\* later and ends at once: its slot is not followed.)
HandshakeTimeout(c) ==
    /\ "slow" \in Events /\ cl[c].pc = "reply" /\ conn[c].reply = Nobody
    /\ Errs(c, "timeout") /\ Abandon(c)
    /\ UNCHANGED <<files, locks, history>>

\* The client closes its session, or has been silent for too long
EndSession(c) ==
    /\ cl[c].pc = "session"
    /\ ClientGoto(c, "done") /\ Abandon(c)
    /\ UNCHANGED <<files, locks, history>>

-----------------------------------------------------------------------------
(* connect_mode_v1 and connect_or_start_daemon_v1.                         *)

Retryable == {"busy", "internal", "refused", "eof", "timeout"}
StartSafe == {"notfound", "refused", "eof"}

Fail(c) == ClientGoto(c, "failed") /\ startLock' = Without(startLock, c)

\* connect_mode_v1 tries again until its own deadline
Retry(c) ==
    /\ cl[c].pc = "error" /\ cl[c].err \in Retryable
    /\ ClientGoto(c, "read")
    /\ UNCHANGED <<files, locks, dm, conn, history>>

\* The first connect, or the second under the startup lock, has failed
GiveUp(c) ==
    /\ cl[c].pc = "error" /\ cl[c].at # "inner"
    /\ \/ /\ Mode[c] = "mcp" /\ cl[c].err \in StartSafe
          /\ ClientGoto(c, IF cl[c].at = "outer" THEN "elect" ELSE "spawn")
          /\ UNCHANGED startLock
       \/ ~(Mode[c] = "mcp" /\ cl[c].err \in StartSafe) /\ Fail(c)
    /\ UNCHANGED <<files, instLock, dm, conn, history>>

Elect(c) ==
    /\ cl[c].pc = "elect"
    /\ \/ /\ startLock = Nobody /\ startLock' = c
          /\ cl' = [cl EXCEPT ![c].pc = "read", ![c].at = "recheck"]
       \/ /\ startLock # Nobody /\ ClientGoto(c, "read") /\ UNCHANGED startLock
    /\ UNCHANGED <<files, instLock, dm, conn, history>>

\* (When the bound on daemons is reached, the spawn fails)
Spawn(c) ==
    /\ cl[c].pc = "spawn"
    /\ \/ \E d \in Daemon :
            /\ dm[d].pc = "unborn" /\ DaemonGoto(d, "lock")
            /\ cl' = [cl EXCEPT ![c].pc = "read", ![c].at = "inner", ![c].child = d]
            /\ UNCHANGED startLock
       \/ /\ \A d \in Daemon : dm[d].pc # "unborn"
          /\ Fail(c) /\ UNCHANGED dm
    /\ UNCHANGED <<files, instLock, conn, history>>

\* A connect of the waiting parent failed: it looks whether its child still runs
TryWait(c) ==
    /\ cl[c].pc = "error" /\ cl[c].at = "inner"
    /\ \/ /\ Alive(cl[c].child) /\ ClientGoto(c, "read")
          /\ UNCHANGED startLock
       \/ ~Alive(cl[c].child) /\ Fail(c)
    /\ UNCHANGED <<files, instLock, dm, conn, history>>

\* A process that dies loses its locks and its connections; its files stay
Dies(d) ==
    /\ DaemonGoto(d, "gone")
    /\ conn' = Hangup(At(d, Open))
    /\ instLock' = Without(instLock, d)
    /\ killed' = killed \cup {d}

\* The deadline of five seconds has passed
Deadline(c) ==
    /\ "deadline" \in Events /\ Mode[c] = "mcp"
    /\ \/ cl[c].pc = "elect" /\ UNCHANGED <<dm, conn, instLock, killed>>
       \/ /\ cl[c].pc = "error" /\ cl[c].at = "inner" /\ Alive(cl[c].child)
          /\ Dies(cl[c].child)
    /\ Fail(c)
    /\ UNCHANGED <<files, kills, acked>>

-----------------------------------------------------------------------------
KillDaemon(d) ==
    /\ kills < MaxKills /\ Alive(d)
    /\ kills' = kills + 1 /\ Dies(d)
    /\ UNCHANGED <<files, startLock, cl, acked>>

KillClient(c) ==
    /\ kills < MaxKills /\ cl[c].pc \notin {"done", "failed", "dead"}
    /\ kills' = kills + 1
    /\ ClientGoto(c, "dead") /\ Abandon(c)
    /\ startLock' = Without(startLock, c)
    /\ UNCHANGED <<files, instLock, killed, acked>>

InstanceNext(d) ==
    \/ TakeInstanceLock(d) \/ SweepSocket(d) \/ SweepEndpoint(d) \/ BindSocket(d)
    \/ PublishEndpoint(d) \/ Check(d) \/ (\E c \in Client : Accept(d, c))
    \/ NoConnection(d) \/ CloseListener(d) \/ RemoveSocket(d) \/ StatEndpoint(d)
    \/ RemoveEndpoint(d) \/ Unlock(d)

HandlerNext(c) == Handle(c) \/ SetStop(c) \/ Build(c)

ClientNext(c) ==
    \/ ReadEndpoint(c) \/ Dial(c) \/ Reply(c) \/ GiveUp(c) \/ Elect(c) \/ Spawn(c)
    \/ TryWait(c)

DaemonNext ==
    \/ \E d \in Daemon : InstanceNext(d) \/ Leave(d) \/ BindFails(d) \/ AskStop(d)
                         \/ Idle(d) \/ AcceptFails(d) \/ KillDaemon(d)
    \/ \E c \in Client : HandlerNext(c) \/ ClientNext(c) \/ Retry(c) \/ Deadline(c)
                         \/ HandshakeTimeout(c) \/ EndSession(c) \/ KillClient(c)

DaemonSpec == DaemonInit /\ [][DaemonNext]_daemonVars

\* Processes and threads are scheduled, and a deadline that has passed is seen
\* at one of the tests that follow.  No client has to close its session.
DaemonFairSpec ==
    /\ DaemonSpec
    /\ \A d \in Daemon : WF_daemonVars(InstanceNext(d)) /\ WF_daemonVars(Leave(d))
    /\ \A c \in Client : WF_daemonVars(HandlerNext(c)) /\ WF_daemonVars(ClientNext(c))
                         /\ SF_daemonVars(GiveUp(c) \/ TryWait(c)) /\ SF_daemonVars(Deadline(c))

\* The same where every session is closed in the end
ClosingSpec == DaemonFairSpec /\ \A c \in Client : WF_daemonVars(EndSession(c))

-----------------------------------------------------------------------------
(* Properties.                                                             *)

Workers(d) == Cardinality(At(d, {"held", "build", "session", "stopping"}))

\* The types, and the limit on connections.
DaemonTypeOK ==
    /\ endpoint \in Daemon \cup {Nobody} /\ sockets \subseteq Daemon
    /\ instLock \in Daemon \cup {Nobody} /\ startLock \in Client \cup {Nobody}
    /\ dm \in [Daemon -> [pc : DaemonPc, stop : BOOLEAN, active : 0..MaxActive,
                          leaving : 0..MaxActive]]
    /\ cl \in [Client -> [pc : ClientPc, at : {"outer", "recheck", "inner"},
                          seen : Daemon \cup {Nobody}, err : Error,
                          child : Daemon \cup {Nobody}]]
    /\ conn \in [Client -> [to : Daemon \cup {Nobody}, st : Open \cup {"none"},
                            reply : Code \cup {Nobody}]]
    /\ kills \in 0..MaxKills /\ killed \subseteq Daemon /\ acked \subseteq Daemon

\* A daemon that serves can be found: the locator names it and its socket file
\* is there, whatever other daemons start, stop, lose or die around it.
ServerIsReachable ==
    \A d \in Daemon : dm[d].pc \in {"check", "accept"} =>
        endpoint = d /\ d \in sockets /\ instLock = d

\* A daemon that ends by itself leaves neither file behind.
CleanExit ==
    \A d \in Daemon : dm[d].pc = "gone" /\ d \notin killed =>
        endpoint # d /\ d \notin sockets

\* The count of connections is the number of workers, so that a stopping daemon
\* waits for each of them, and for nothing else.
ActiveIsExact ==
    \A d \in Daemon : Alive(d) => dm[d].active = Workers(d) + dm[d].leaving

\* A session that was granted is ended by its client, or by the death of the
\* daemon, never by a daemon that stops.
SessionOutlivesStop ==
    [][\A c \in Client :
         conn[c].st = "session" /\ conn'[c].st = "none" =>
             cl'[c].pc \in {"done", "dead"} \/ conn[c].to \in killed']_daemonVars

\* A daemon that serves can be found, one that ends by itself leaves no file
\* behind, and its count of connections is exact, whatever other daemons start,
\* stop, fail or die around it; and it outlives the sessions it granted.
DaemonIsKept ==
    /\ [](DaemonTypeOK /\ ServerIsReachable /\ CleanExit /\ ActiveIsExact)
    /\ SessionOutlivesStop

\* Every client gets its answer or an error, and a daemon that acknowledged a
\* stop request is gone in the end, when sessions end.
DaemonAnswers ==
    /\ \A c \in Client : <>(cl[c].pc \in {"session", "done", "failed", "dead"})
    /\ \A d \in Daemon : (d \in acked) ~> (dm[d].pc = "gone")
==============================================================================
