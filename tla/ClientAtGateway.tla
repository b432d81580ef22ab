--------------------------- MODULE ClientAtGateway ---------------------------
(***************************************************************************)
(* A client that connects to a gateway, logs its character in and plays,   *)
(* with the player actor that answers its requests.  The path from the     *)
(* client to the actor and back keeps the order (the connection, the       *)
(* agent's two loops and the actor's box), so it is one queue each way.    *)
(***************************************************************************)
EXTENDS Gateway, Client, Dispatch

VARIABLES
  isLogin,   \* Player.IsLogin
  bag        \* the items of the player

actorVars == <<isLogin, bag>>
vars == <<nodeVars, gateVars, clientVars, actorVars>>

Init ==
  /\ NodeInit /\ GateInit /\ ClientInit
  /\ isLogin = FALSE /\ bag \in {InitBag}

-----------------------------------------------------------------------------
(* The connection is opened, and ends, for both sides. *)

\* connectAgent dials ...
Dial ==
  /\ state = "dial" /\ conn = "none"
  /\ \/ Listening /\ conn' = "backlog" /\ state' = "exchange"
     \/ UNCHANGED conn /\ Fatal
  /\ UNCHANGED <<started, stopped, exited, location, nodeVars, tickers,
                 requestVars, up, down, actorVars>>

\* ... sends the temporary key, which the gateway answers with the session key
\* under it ...
Exchange ==
  /\ state = "exchange" /\ ExchangeKeys
  /\ UNCHANGED <<clientVars, actorVars>>

\* ... and starts the stream.
StartStream ==
  /\ state = "exchange" /\ conn = "loop" /\ state' = "login"
  /\ UNCHANGED <<tickers, requestVars, up, down, gateVars, nodeVars, actorVars>>

\* Mutant: the end of the stream is only printed.
CloseIgnored == conn = "closed" /\ state = "exchange" /\ Fatal
                  /\ UNCHANGED <<tickers, requestVars, up, down, gateVars, nodeVars, actorVars>>

\* The client's read fails: in the exchange, or in the reader of the stream
\* (OnStreamClose).  What was on its way may be lost.
SeeClose ==
  /\ conn = "closed" /\ state \in {"exchange", "login", "play"} /\ holds = NoMsg
  /\ Fatal
  /\ UNCHANGED <<tickers, requestVars, up, down, gateVars, nodeVars, actorVars>>

-----------------------------------------------------------------------------
(* The agent's readLoop, and the player actor *)

NextRequest(kinds) == up # <<>> /\ Head(up).kind \in kinds

\* A LoginReq with a valid token.
ReadLogin ==
  /\ NextRequest({"login"}) /\ ConnGoes("loop", "locate")
  /\ UNCHANGED <<location, clientVars, actorVars>>

\* A token that is refused: an error, then the agent stops.
RefuseLogin ==
  /\ NextRequest({"login"}) /\ ConnGoes("loop", "stopped")
  /\ up' = Tail(up) /\ down' = WritePacket(down, ErrorResp(ReadPacket(up)))
  /\ UNCHANGED <<location, state, tickers, requestVars, actorVars>>

\* The actor accepts the session; a LoginCharacterReq goes to it.
Connect ==
  /\ CanConnect /\ ConnGoes("connect", "connected")
  /\ up' = [up EXCEPT ![1].kind = "character"]
  /\ UNCHANGED <<location, state, tickers, requestVars, down, actorVars>>

\* handleLoginCharacter; the agent makes a LoginResp of its response, which may
\* be missing.
ActorLogsIn ==
  /\ conn = "connected" /\ NextRequest({"character"})
  /\ up' = Tail(up) /\ isLogin' = TRUE
  /\ \/ \E kind \in {"login", "error"} : down' = WritePacket(down, Resp(ReadPacket(up), kind, 0))
     \/ UNCHANGED down
  /\ UNCHANGED <<bag, state, tickers, requestVars, gateVars, nodeVars>>

\* Any other request is forwarded and handled by the actor.
ActorHandles ==
  /\ conn = "connected" /\ NextRequest({"beat", "use", "unknown"})
  /\ up' = Tail(up)
  /\ LET answer == Handle(ReadPacket(up), isLogin, bag) IN
       bag' = answer.bag /\ \E sent \in answer.out : down' = down \o sent
  /\ UNCHANGED <<isLogin, state, tickers, requestVars, gateVars, nodeVars>>

-----------------------------------------------------------------------------

Next ==
  \/ GatewayStep /\ UNCHANGED <<clientVars, actorVars>>
  \/ ClientStep /\ UNCHANGED <<nodeVars, gateVars, actorVars>>
  \/ Dial \/ Exchange \/ StartStream \/ SeeClose
  \/ ReadLogin \/ RefuseLogin \/ Connect \/ ActorLogsIn \/ ActorHandles

\* main goes on once it stops, and so do the goroutines of the client.
Fairness ==
  /\ WF_vars(stopped > 0 /\ (StopStep \/ Exit) /\ UNCHANGED <<clientVars, actorVars>>)
  /\ WF_vars(PutResponse /\ UNCHANGED <<nodeVars, gateVars, actorVars>>)
  /\ WF_vars(SeeClose)
  /\ WF_vars((SendFails \/ TakeResponse \/ TimesOut) /\ UNCHANGED <<nodeVars, gateVars, actorVars>>)
  /\ SF_vars((\E i \in 1 .. MaxTickers : Tick(i)) /\ UNCHANGED <<nodeVars, gateVars, actorVars>>)

Spec == Init /\ [][Next]_vars /\ Fairness

-----------------------------------------------------------------------------
(* Properties *)

\* Types, and: a bag holds at least one of each of its items, and never more
\* than the player got.
TypeOK ==
  /\ members \subseteq Nodes /\ ring \in [Groups -> SUBSET Nodes]
  /\ started \in 0 .. Len(StartOrder) /\ stopped \in 0 .. Len(StopOrder)
  /\ conn \in {"none", "backlog", "keys", "loop", "locate", "connect", "connected",
               "stopped", "closed"}
  /\ location \in Nodes \cup {Nowhere}
  /\ state \in {"list", "create", "token", "dial", "exchange", "login", "play", "exited"}
  /\ tickers \in 0 .. MaxTickers /\ sending.by \in 0 .. MaxTickers + 1
  /\ seqIncr \in 0 .. MaxSeq /\ reqSeq \in 0 .. seqIncr /\ Len(chResp) <= 1
  /\ DOMAIN bag \subseteq DOMAIN InitBag
  /\ \A id \in DOMAIN bag : bag[id] \in 1 .. InitBag[id]

\* Whatever comes in a batch, the gateway's groups are the game nodes of the
\* center once its events are delivered, each node in the group of its server
\* and no other nodes (SetNodes, UpdateEvents: "keeps the order of events").
RingFollowsCenter ==
  following =>
    \A n \in Nodes :
      (\A i \in DOMAIN log : log[i].node # n) =>
         \A g \in Groups : n \in ring[g] <=> n \in members /\ acceptNode(n) /\ g = Group(n)

\* A player is only ever located on a game node of its own server, which is
\* also where game servers look for its actor (PickGame, makeGroup,
\* getActorNodeGroup).
LocatedOnItsServer ==
  location # Nowhere =>
    /\ CategoryOf[location] = NodeGame /\ ServerOf[location] = PlayerServer
    /\ Group(location) = getActorNodeGroup(PlayerServer)

\* Callbacks of the cluster and connections find what their handlers use: the
\* node selector and the actor client, and for connections a.cluster, which is
\* assigned after the cluster has begun to call back (Start, startCluster).
HandlersFindAll ==
  /\ following => Ready("nodeSelector") /\ Ready("actorClient")
  /\ conn # "none" => \A part \in {"beforeStart", "redis", "crypto", "cluster"} : Ready(part)

\* A request takes the response with its own sequence number, also when
\* earlier requests have timed out and their responses come late.  The
\* exception is a response that passes the compare-and-swap, or is still held
\* by the reader, while the next request has emptied chResp and not yet set
\* reqSeq (sendReq, OnStreamMsg).
OwnResponse == foreign => strayed

\* What comes to the client is in the order of its requests, of all of its
\* goroutines, whichever replies and pushes are missing.  Two messages of one
\* request are the response to a use and, after it, the push with the items:
\* both say how many are left, and the item is the one that was used, or the
\* zero item when none is left (WrapReqFunc, UseItem).
PushFollowsResponse ==
  \A i, j \in 1 .. Len(down) : i < j =>
    \/ down[i].seq < down[j].seq
    \/ /\ down[i].seq = down[j].seq
       /\ down[i].pt = "resp" /\ down[i].kind = "use" /\ down[j].pt = "push"
       /\ down[j].left = down[i].left
       /\ down[j].id = IF down[i].left = 0 THEN 0 ELSE down[i].id

\* The reader waits for room in chResp, and the bound on requests keeps the
\* next one from making it.
BoundReached == holds # NoMsg /\ chResp # <<>> /\ seqIncr = MaxSeq

\* A gateway that stops leaves no client waiting for it, not even one whose
\* connection was in the exchange of keys or in a login when the agents were
\* stopped (StopAllAgents sees only those that are registered).
StopEndsClients ==
  stopped > 0 ~> state \notin {"exchange", "login", "play"} \/ BoundReached
=============================================================================
