------------------------------ MODULE GameServer ------------------------------
(***************************************************************************)
(* A game server process (app/game/internal/app): main starts and stops    *)
(* its parts one after the other, while the cluster delivers requests, the *)
(* actors handle them and queue saves, the background database executes    *)
(* them and reports back.  What an actor saves is the subject of           *)
(* ActorPersist; here it has changes that are not saved, or not.           *)
(***************************************************************************)
EXTENDS MongoBD, GdConf, ProtoRegistry

CONSTANTS
  Players,      \* actors of players; Server is the actor of the server
  Server,
  OwnerOf,      \* the actor that queues an operation
  MaxRequests   \* bound: requests delivered

Actors == Players \cup {Server}
\* client: a.cluster, through which the actors send.
Resources == {"defines", "redis", "mongo", "cluster", "client", "http"}

ASSUME ServerAssumption ==
  /\ Server \notin Players /\ MaxRequests \in Nat
  /\ OwnerOf \in [Ops -> Actors]

VARIABLES
  phase,      \* what main does
  up,         \* resources that are usable
  service,    \* the actor service: none, up, stopping, stopped
  running,    \* running actors
  dirty,      \* those with changes not saved
  asked,      \* actors that handle a request
  requests    \* requests delivered so far

actorVars == <<running, dirty, asked, requests>>
mainVars == <<phase, up, service>>
vars == <<mainVars, actorVars, bdVars, confVars>>

Init ==
  /\ BDInit /\ ConfInit
  /\ phase = "init" /\ up = {} /\ service = "none"
  /\ running = {} /\ dirty = {} /\ asked = {} /\ requests = 0

Alive == phase \notin {"fatal", "off"}
Main(from, to) == phase = from /\ phase' = to

-----------------------------------------------------------------------------
(* Start *)

\* BeforeStart: the actor definitions.
BeforeStart ==
  /\ Main("init", "redis")
  /\ up' = {"defines"}
  /\ UNCHANGED <<service, actorVars, bdVars, confVars>>

ConnectRedis ==
  /\ Main("redis", "mongo") /\ up' = up \cup {"redis"}
  /\ UNCHANGED <<service, actorVars, bdVars, confVars>>

ConnectMongo ==
  /\ Main("mongo", "bd") /\ up' = up \cup {"mongo"}
  /\ UNCHANGED <<service, actorVars, bdVars, confVars>>

StartBD ==
  /\ Main("bd", "tables") /\ New
  /\ UNCHANGED <<up, service, actorVars, confVars>>

LoadTables ==
  /\ phase = "tables" /\ LoadStep
  /\ UNCHANGED <<mainVars, actorVars, bdVars>>

\* startActor up to actorService.Start.
StartService ==
  /\ Main("tables", "global") /\ load = "loaded"
  /\ service' = "up"
  /\ UNCHANGED <<up, actorVars, bdVars, confVars>>

\* startGlobalActors: the model of the server actor is loaded; it is new when
\* there was none.
StartGlobalActors ==
  /\ Main("global", "cluster")
  /\ running' = {Server} /\ dirty' \in {{}, {Server}}
  /\ UNCHANGED <<up, service, asked, requests, bdVars, confVars>>

\* startCluster up to cluster.Start, from which on requests arrive.
StartCluster ==
  /\ Main("cluster", "assign") /\ up' = up \cup {"cluster"}
  /\ UNCHANGED <<service, actorVars, bdVars, confVars>>

\* The assignment of a.cluster that follows it.
AssignCluster ==
  /\ Main("assign", "http") /\ up' = up \cup {"client"}
  /\ UNCHANGED <<service, actorVars, bdVars, confVars>>

\* startHttp, unless no port is configured.
StartHttp ==
  /\ Main("http", "running") /\ up' \in {up, up \cup {"http"}}
  /\ UNCHANGED <<service, actorVars, bdVars, confVars>>

\* A step of Start fails: the process exits.
Fatal ==
  /\ \/ phase \in {"redis", "mongo", "bd", "global", "cluster"}
     \/ phase = "tables" /\ load \in {"failed", "loaded"}
  /\ phase' = "fatal"
  /\ UNCHANGED <<up, service, actorVars, bdVars, confVars>>

-----------------------------------------------------------------------------
(* Stop *)

\* Mutant: the cluster is stopped with the http server.
StopHttpAndCluster ==
  /\ Main("running", "stopActor") /\ up' = up \ {"http", "cluster"}
  /\ UNCHANGED <<service, actorVars, bdVars, confVars>>

StopHttp ==
  /\ Main("running", "stopActor") /\ up' = up \ {"http"}
  /\ UNCHANGED <<service, actorVars, bdVars, confVars>>

StopActor ==
  /\ Main("stopActor", "stopping") /\ service' = "stopping"
  /\ UNCHANGED <<up, actorVars, bdVars, confVars>>

\* Mutant: Stop of the service does not wait for the actors.
ActorsLeft ==
  /\ Main("stopping", "stopBD") /\ service' = "stopped"
  /\ UNCHANGED <<up, actorVars, bdVars, confVars>>

\* actorService.Stop returns when all actors have stopped.
ActorsStopped ==
  /\ Main("stopping", "stopBD") /\ running = {} /\ service' = "stopped"
  /\ UNCHANGED <<up, actorVars, bdVars, confVars>>

StopBD ==
  /\ phase = "stopBD" /\ BDStop
  /\ UNCHANGED <<mainVars, actorVars, confVars>>

\* mongobd.Stop has returned: the clients of mongo and redis are closed.
Disconnect ==
  /\ Main("stopBD", "stopCluster") /\ life = "stopped"
  /\ up' = up \ {"mongo", "redis"}
  /\ UNCHANGED <<service, actorVars, bdVars, confVars>>

StopCluster ==
  /\ Main("stopCluster", "off") /\ up' = up \ {"cluster"}
  /\ UNCHANGED <<service, actorVars, bdVars, confVars>>

-----------------------------------------------------------------------------
(* The actors *)

\* OnNodeBytes: the service starts the actor the request is for; the packet is
\* refused when it is not up, or the model cannot be loaded.
HandlePacket(p) ==
  /\ Alive /\ "cluster" \in up /\ requests < MaxRequests /\ requests' = requests + 1
  /\ p \notin asked
  /\ \/ service = "up" /\ running' = running \cup {p} /\ asked' = asked \cup {p}
     \/ p \notin running /\ UNCHANGED <<running, asked>>
  /\ UNCHANGED <<dirty, mainVars, bdVars, confVars>>

\* The handler changes the model or not, and answers through a.cluster.  Send2Node
\* of nil panics: nothing in src/ recovers it, and what the library that runs the
\* actor does with it is open: the answer is lost, or the process ends.
Answer(a) ==
  /\ Alive /\ a \in asked /\ asked' = asked \ {a}
  /\ dirty' \in {dirty, dirty \cup {a}}
  /\ phase' \in IF "client" \in up THEN {phase} ELSE {phase, "fatal"}
  /\ UNCHANGED <<up, service, running, requests, bdVars, confVars>>

\* The save timer of an actor with changes queues a save.
AsyncSave(o) ==
  /\ Alive /\ OwnerOf[o] \in running \cap dirty /\ Add(o)
  /\ UNCHANGED <<mainVars, actorVars, confVars>>

\* actorAsyncSaveCallback: the result is cast to the actor, which clears its
\* marks when the save succeeded; a cast to an actor that is gone fails.
SaveCallback(c) ==
  /\ Alive /\ Consume(c)
  /\ dirty' \in {dirty, dirty \ {OwnerOf[taken[c]]}}
  /\ UNCHANGED <<running, asked, requests, mainVars, confVars>>

\* Mutant: an actor stops while it handles a request.
StopOneBusy(a) ==
  /\ Alive /\ a \in running
  /\ service = "stopping" \/ (service = "up" /\ a \in Players)
  /\ running' = running \ {a} /\ dirty' = dirty \ {a}
  /\ UNCHANGED <<asked, requests, mainVars, bdVars, confVars>>

\* An actor stops, with the service or, when it is a player's, to be recycled;
\* OnStop saves its changes, which may fail.
StopOne(a) ==
  /\ Alive /\ a \in running \ asked
  /\ service = "stopping" \/ (service = "up" /\ a \in Players)
  /\ running' = running \ {a} /\ dirty' = dirty \ {a}
  /\ UNCHANGED <<asked, requests, mainVars, bdVars, confVars>>

\* The workers and consumers of the BD.
Work ==
  /\ Alive
  /\ \/ \E w \in Workers : Execute(w) \/ Report(w)
     \/ \E c \in Consumers : Take(c)
  /\ UNCHANGED <<mainVars, actorVars, confVars>>

\* gen_gdconf runs on another machine.
PublishTables == Publish /\ UNCHANGED <<mainVars, actorVars, bdVars>>

-----------------------------------------------------------------------------

StartStep ==
  \/ BeforeStart \/ ConnectRedis \/ ConnectMongo \/ StartBD
  \/ LoadTables \/ StartService \/ StartGlobalActors \/ StartCluster
  \/ AssignCluster \/ StartHttp \/ Fatal
StopStep ==
  \/ StopHttp \/ StopActor \/ ActorsStopped \/ StopBD \/ Disconnect \/ StopCluster

Next ==
  \/ StartStep \/ StopStep \/ PublishTables \/ Work
  \/ \E p \in Players : HandlePacket(p)
  \/ \E a \in Actors : Answer(a) \/ StopOne(a)
  \/ \E o \in Ops : AsyncSave(o)
  \/ \E c \in Consumers : SaveCallback(c)

Spec == Init /\ [][Next]_vars

\* main, the workers, the consumers and the actors are goroutines that run on;
\* nobody has to send a request or a signal.
Fairness ==
  /\ WF_vars(StopActor \/ ActorsStopped \/ StopBD \/ Disconnect \/ StopCluster)
  /\ \A w \in Workers : WF_vars(Alive /\ (Execute(w) \/ Report(w)) /\ UNCHANGED <<mainVars, actorVars, confVars>>)
  /\ \A c \in Consumers :
       /\ WF_vars(Alive /\ Take(c) /\ UNCHANGED <<mainVars, actorVars, confVars>>)
       /\ WF_vars(SaveCallback(c))
  /\ \A a \in Actors : WF_vars(Answer(a)) /\ WF_vars(StopOne(a))

FairSpec == Spec /\ Fairness

-----------------------------------------------------------------------------
(* Properties *)

TypeOK ==
  /\ life \in {"none", "up", "draining", "drained", "closed", "stopped"}
  /\ queue \in [Workers -> Seq(Ops)] /\ held \in [Workers -> Ops \cup {None}]
  /\ done \in Seq(Ops) /\ taken \in [Consumers -> Ops \cup {None}] /\ called \subseteq Ops
  /\ rows \in Seq(Items) /\ entries \in Seq(Items) /\ tblItem \in Seq(Items) \cup {NoTable}
  /\ up \subseteq Resources
  /\ service \in {"none", "up", "stopping", "stopped"}
  /\ asked \subseteq running /\ running \subseteq Actors /\ dirty \subseteq Actors
  /\ requests \in 0 .. MaxRequests

\* An actor runs only while everything its handlers use is there: the
\* definitions, redis, mongo, the background database and all tables with
\* their indices, whenever requests arrive and main starts or stops.
RunsWithEverything ==
  running # {} =>
    /\ {"defines", "redis", "mongo"} \subseteq up
    /\ life = "up" /\ load = "loaded"

\* A request is handled only while its answer can go out: the cluster is started
\* last and stopped last, however long the actors take to stop, and they know it
\* except between cluster.Start and the assignment of a.cluster.
AnswersGoOut ==
  Alive /\ asked # {} =>
    "cluster" \in up /\ (phase = "assign" \/ "client" \in up)

\* No operation is left for a database that was disconnected, and no worker
\* sends into the closed channel done, which would panic.
NothingAfterDisconnect ==
  /\ "mongo" \notin up => Queued = {}
  /\ life \in {"drained", "closed", "stopped"} =>
       \A w \in Workers : queue[w] = <<>> /\ held[w] = None

\* The item table holds each row exactly once, unless the tables were being
\* published while they were loaded (loadNormal reads pages without a
\* snapshot).
TableIsWhole ==
  load \in {"after", "loaded"} /\ ~torn => IsOrderOf(tblItem, Items)

\* The functions after the load run in the order of their priorities, those of
\* one priority in the order of their registration, whatever that order was.
AfterLoadOrder ==
  phase = "init" =>
    \A n \in 0 .. MaxFuncs : \A priorities \in [1 .. n -> Priorities] :
      LET funcs == AfterLoadFuncs(priorities) IN
        /\ Len(funcs) = n
        /\ \A i, j \in 1 .. n :
             i < j => \/ funcs[i].priority < funcs[j].priority
                      \/ /\ funcs[i].priority = funcs[j].priority
                         /\ funcs[i].nth < funcs[j].nth

\* Whatever files its messages are written in, and in whatever order, a
\* register.go registers first the common messages of its target and then its
\* registrable ones, sorted and each of them once: register panics on a
\* message it knows (gen_register, registry/c2s/c2s.go).
RegistersEachOnce ==
  phase = "init" =>
    \A dir \in Directories : \A target \in Targets :
      LET calls == RegisterFile(target, dir)
          names == {n \in Names : isRegistrableMessageName(n) /\
                      \E f \in DOMAIN dir : [atStart |-> TRUE, name |-> n] \in ToSet(dir[f])}
          own == {n \in DOMAIN CommonFor : target \in CommonFor[n]}
      IN  /\ ToSet(calls) = [pkg : {"common"}, name : own] \cup [pkg : {target}, name : names]
          /\ Len(calls) = Cardinality(ToSet(calls))
          /\ \A i, j \in DOMAIN calls : i < j =>
               \/ calls[i].pkg = "common" /\ calls[j].pkg # "common"
               \/ calls[i].pkg = calls[j].pkg /\ calls[i].name < calls[j].name

\* The background database keeps its promise: what was accepted is executed
\* and called back exactly once, all of it before Stop returns.
Lifetimes == INSTANCE OpLifetimes WITH
  waiting <- Queued, executed <- InFlight, called <- called, open <- life # "stopped"
OpsLiveOnce == Lifetimes!Spec

\* A server that was told to stop stops: workers do not wait forever for room
\* in done, nor Stop for the consumers.
StopReturns == phase = "stopActor" ~> phase = "off"
=============================================================================
