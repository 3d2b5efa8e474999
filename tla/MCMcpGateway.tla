---------------------------- MODULE MCMcpGateway ----------------------------
(***************************************************************************)
(* The processes of a gateway: a stdio session whose client may stop       *)
(* reading; and two connectors and a client that asks the daemon to stop,  *)
(* while any process may be killed at any point, or while every error and  *)
(* every signal may come.  The first state picks the instance; the other   *)
(* component stays where it starts.  The session has a worker and an id    *)
(* for each daemon and connector of the other instances, so that both      *)
(* share their symmetry.                                                   *)
(***************************************************************************)
EXTENDS McpStdio, GatewayDaemon, TLC

CONSTANTS c1, c2, stop, d1, d2

VARIABLE instance

Modes == (c1 :> "mcp") @@ (c2 :> "mcp") @@ (stop :> "stop")

\* The constants of this run are those of the instance "killed".
Failing == INSTANCE GatewayDaemon WITH
    MaxActive <- 1, Events <- {"idle", "signal", "bindFails", "acceptFails"}, MaxKills <- 0

ASSUME StdioAssumption /\ Failing!DaemonAssumption

MCInit == instance \in {"session", "killed", "failing"} /\ Init /\ DaemonInit

MCNext ==
    /\ UNCHANGED instance
    /\ \/ instance = "session" /\ Next /\ UNCHANGED daemonVars
       \/ instance = "killed" /\ DaemonNext /\ UNCHANGED vars
       \/ instance = "failing" /\ Failing!DaemonNext /\ UNCHANGED vars

MCSpec == MCInit /\ [][MCNext]_<<instance, vars, daemonVars>>

\* Workers are interchangeable, and so are ids; daemons are until they are
\* born, and so are the connectors.
Symmetry == Permutations({d1, d2}) \cup Permutations({c1, c2})
=============================================================================
