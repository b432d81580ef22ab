----------------------------- MODULE NodeSelector -----------------------------
(***************************************************************************)
(* The nodes a gateway may send players to                                 *)
(* (app/agent/internal/infra/router), and how game servers name the group  *)
(* of nodes of an actor (app/game/internal/app/actor.go).                  *)
(*                                                                         *)
(* The center of the cluster (external) knows the nodes.  It tells the     *)
(* gateway all of them, and from then on sends its events in order, in     *)
(* batches.  A node keeps its id when it leaves and comes back.            *)
(***************************************************************************)
EXTENDS Naturals, Sequences, SequencesExt

CONSTANTS
  Nodes,       \* ids of nodes
  CategoryOf,  \* consts.NodeGame, consts.NodeAgent, ...
  ServerOf,    \* the server each node works for
  FirstNodes,  \* nodes of the cluster at first
  Movers,      \* bound: the nodes that join or leave
  MaxEvents    \* bound: events of the center

CONSTANT NodeGame

ASSUME NodeAssumption == FirstNodes \cup Movers \subseteq Nodes /\ MaxEvents \in Nat

VARIABLES
  members,    \* the nodes the center knows
  events,     \* its events so far
  following,  \* the gateway was told all nodes
  log,        \* events not delivered to the gateway yet
  ring        \* the nodes of each group, as the gateway knows them

nodeVars == <<members, events, following, log, ring>>

\* Mutant: all game nodes are one group.
makeGroupShared(category, server) == <<category>>

\* The name of a group, in the gateway ...
makeGroup(category, server) ==
  IF category = NodeGame THEN <<category, server>> ELSE <<category>>

\* ... and in a game server.
makeNodeGroup(category, server) ==
  IF category = NodeGame THEN <<category, server>> ELSE <<category>>

Group(n) == makeGroup(CategoryOf[n], ServerOf[n])
Groups == {Group(n) : n \in Nodes}
acceptNode(n) == CategoryOf[n] = NodeGame

NodeInit ==
  /\ members = FirstNodes /\ events = 0 /\ following = FALSE
  /\ log = <<>> /\ ring = [g \in Groups |-> {}]

\* A node joins or leaves the cluster.
CenterSees(type, n) ==
  /\ events < MaxEvents /\ events' = events + 1
  /\ members' = IF type = "add" THEN members \cup {n} ELSE members \ {n}
  /\ (n \in members) = (type = "del")
  /\ log' = IF following THEN Append(log, [type |-> type, node |-> n]) ELSE log
  /\ UNCHANGED <<following, ring>>

\* SetNodes with all: the groups of the nodes that are told, and no others.
SetNodes ==
  /\ ring' = [g \in Groups |-> {n \in members : acceptNode(n) /\ Group(n) = g}]
  /\ following' = TRUE /\ log' = <<>>
  /\ UNCHANGED <<members, events>>

UpdateOp(ids, e) == IF e.type = "add" THEN ids \cup {e.node} ELSE ids \ {e.node}

\* Mutant: the additions of a batch are applied before its removals.
UpdatesOfUnordered(g, batch) ==
  LET of == SelectSeq(batch, LAMBDA e : acceptNode(e.node) /\ Group(e.node) = g) IN
    SelectSeq(of, LAMBDA e : e.type = "add") \o SelectSeq(of, LAMBDA e : e.type = "del")

\* The updates of a group in a batch, in the order of its events.
UpdatesOf(g, batch) ==
  FoldLeft(LAMBDA updates, e : IF acceptNode(e.node) /\ Group(e.node) = g
                               THEN Append(updates, e) ELSE updates,
           <<>>, batch)

\* UpdateEvents of the first k events that wait.
UpdateEvents(k) ==
  /\ following /\ k \in 1 .. Len(log)
  /\ ring' = [g \in Groups |->
                FoldLeft(UpdateOp, ring[g], UpdatesOf(g, SubSeq(log, 1, k)))]
  /\ log' = SubSeq(log, k + 1, Len(log))
  /\ UNCHANGED <<members, events, following>>

\* PickGame for one node: which one of the group is the choice of the
\* selector (external).
PickGame(server) ==
  LET g == makeGroup(NodeGame, server) IN IF g \in Groups THEN ring[g] ELSE {}

\* getActorNodeGroup of a player, from the server the store has for it.
getActorNodeGroup(server) == makeNodeGroup(NodeGame, server)

CenterStep == \E n \in Movers, type \in {"add", "del"} : CenterSees(type, n)
=============================================================================
