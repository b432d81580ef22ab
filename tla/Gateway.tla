------------------------------- MODULE Gateway -------------------------------
(***************************************************************************)
(* A gateway process (app/agent/internal/app): how it starts and stops,    *)
(* and one connection from the listener through the exchange of keys and   *)
(* the login to its end.  What the goroutines of the agents of several     *)
(* connections do to each other is the subject of AgentSessions.           *)
(***************************************************************************)
EXTENDS NodeSelector

CONSTANTS
  Nowhere,       \* no node
  PlayerServer   \* the server of the player, as its token says

ASSUME Nowhere \notin Nodes

VARIABLES
  started,    \* steps of Start that are done
  stopped,    \* steps of Stop that are done
  exited,     \* the process is gone
  conn,       \* the connection: none, backlog, keys (handleConn), loop,
              \* locate, connect, connected (the agent), stopped, closed
  location    \* the node the registry has for the player

gateVars == <<started, stopped, exited, conn, location>>

\* The player may be registered from an earlier session.
GateInit ==
  /\ started = 0 /\ stopped = 0 /\ exited = FALSE
  /\ conn = "none"
  /\ location \in {Nowhere} \cup {n \in FirstNodes : acceptNode(n) /\ ServerOf[n] = PlayerServer}

\* Mutant: the cluster starts before there is a node selector.
StartOrderEager ==
  <<"config", "beforeStart", "redis", "crypto", "actorClient", "startCluster",
    "nodeSelector", "cluster", "listener", "http">>

\* The steps of Start; startCluster ends with the assignment of a.cluster.
StartOrder ==
  <<"config", "beforeStart", "redis", "crypto", "actorClient", "nodeSelector",
    "startCluster", "cluster", "listener", "http">>

\* The steps of Stop.
StopOrder == <<"http", "listener", "agents", "actorClient", "cluster", "redis">>

Ready(part) == \E i \in 1 .. started : StartOrder[i] = part
Ended(part) == \E i \in 1 .. stopped : StopOrder[i] = part

StartStep ==
  /\ ~exited /\ started < Len(StartOrder)
  /\ started' = started + 1
  /\ UNCHANGED <<stopped, exited, conn, location, nodeVars>>

\* Fatalf or panic.
StartFails ==
  /\ ~exited /\ started < Len(StartOrder)
  /\ StartOrder[started + 1] \notin {"nodeSelector", "cluster", "http"}
  /\ exited' = TRUE
  /\ conn' = IF conn = "none" THEN conn ELSE "closed"
  /\ UNCHANGED <<started, stopped, location, nodeVars>>

\* A step of Stop, which a signal begins.  Connections the listener has not
\* accepted are reset, the agents that are registered are stopped.
StopStep ==
  /\ ~exited /\ started = Len(StartOrder) /\ stopped < Len(StopOrder)
  /\ stopped' = stopped + 1
  /\ conn' = CASE StopOrder[stopped'] = "listener" /\ conn = "backlog" -> "closed"
               [] StopOrder[stopped'] = "agents" /\ conn = "connected" -> "stopped"
               [] OTHER -> conn
  /\ UNCHANGED <<started, exited, location, nodeVars>>

\* main returns, which closes every connection.
Exit ==
  /\ ~exited /\ stopped = Len(StopOrder)
  /\ exited' = TRUE
  /\ conn' = IF conn = "none" THEN conn ELSE "closed"
  /\ UNCHANGED <<started, stopped, location, nodeVars>>

-----------------------------------------------------------------------------
(* The cluster calls back: OnNodesSync, OnNodeEvents. *)

ClusterRuns == ~exited /\ Ready("startCluster") /\ ~Ended("cluster")

OnNodesSync == ClusterRuns /\ SetNodes /\ UNCHANGED gateVars
OnNodeEvents == ClusterRuns /\ (\E k \in 1 .. Len(log) : UpdateEvents(k)) /\ UNCHANGED gateVars

-----------------------------------------------------------------------------
(* The connection *)

Listening == ~exited /\ Ready("listener") /\ ~Ended("listener")
ConnGoes(from, to) ==
  /\ ~exited /\ conn = from /\ conn' = to
  /\ UNCHANGED <<started, stopped, exited, nodeVars>>

\* listenLoop: handleConn gets a goroutine of its own.
Accept == Listening /\ ConnGoes("backlog", "keys") /\ UNCHANGED location

\* exchangeSecretKey and StartAgent; without a key the connection is closed.
ExchangeKeys == ConnGoes("keys", "loop") /\ UNCHANGED location
HandshakeFails == ConnGoes("keys", "closed") /\ UNCHANGED location

\* updatePlayerLocation: the actor is registered at the node, for a time.
updatePlayerLocation(n) == location' = n

\* handleLoginReq with the lock: a location that is valid is used, another one
\* is replaced by a node that is picked and registered.
Locate ==
  /\ ConnGoes("locate", "connect")
  /\ \/ location # Nowhere /\ UNCHANGED location
     \/ location = Nowhere /\ \E n \in PickGame(PlayerServer) : updatePlayerLocation(n)

\* The location cannot be read or written, or there is no node to pick.
LocateFails == ConnGoes("locate", "stopped") /\ UNCHANGED location

\* The registration ends (playerPreRegisterTTL, or the node's own).
LocationExpires ==
  /\ location # Nowhere /\ location' = Nowhere
  /\ UNCHANGED <<started, stopped, exited, conn, nodeVars>>

\* The actor client, from startActor to stopActor.
ClientRuns == Ready("actorClient") /\ ~Ended("actorClient")

\* connect2Player, through the actor client and the cluster, then AddAgent.
CanConnect == ClientRuns /\ location \in members
ConnectFails == ConnGoes("connect", "stopped") /\ UNCHANGED location

\* The agent stops: a packet that cannot be read, written or forwarded, the
\* read timeout, a disconnect by the game server.
AgentStops ==
  /\ conn \in {"loop", "connected"} /\ ConnGoes(conn, "stopped")
  /\ UNCHANGED location

\* pendingPacketLoopStop closes the connection.
AgentCloses == ConnGoes("stopped", "closed") /\ UNCHANGED location

Serve ==
  \/ Accept \/ HandshakeFails \/ Locate \/ LocateFails \/ ConnectFails
  \/ AgentStops \/ AgentCloses

GatewayStep ==
  \/ StartStep \/ StartFails \/ StopStep \/ Exit \/ OnNodesSync \/ OnNodeEvents
  \/ Serve \/ LocationExpires
  \/ CenterStep /\ UNCHANGED gateVars
=============================================================================
