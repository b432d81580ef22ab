--------------------------- MODULE GameServerProofs ---------------------------
(***************************************************************************)
(* Proofs about GameServer, for every set of actors, operations, workers   *)
(* and consumers, every capacity and every content of the tables.          *)
(*                                                                         *)
(* The library folds a sequence with an operator as its parameter, which   *)
(* no lemma can take: each fold of the model has a lemma of its own        *)
(* (RegistrationFold, SortFold, FindFold, CollectFold, DirFold) that turns *)
(* it into a sequence of results, one step after the other, with what      *)
(* Iteration proves once.                                                  *)
(***************************************************************************)
EXTENDS GameServer, Iteration, TLAPS

-----------------------------------------------------------------------------
(* What is up in each phase *)

(* The types the proofs need. *)
BDTypes ==
  /\ queue \in [Workers -> Seq(Ops)] /\ held \in [Workers -> Ops \cup {None}]
  /\ done \in Seq(Ops) /\ taken \in [Consumers -> Ops \cup {None}]

Empty == \A w \in Workers : queue[w] = <<>> /\ held[w] = None

Connected == {"defines", "redis", "mongo"} \subseteq up
Serving == Connected /\ life = "up" /\ load = "loaded"

(* Where main is says what there is: actors and requests only between      *)
(* startGlobalActors and the stop of the service, operations only from the *)
(* start of the background database to its drained queues.                 *)
PhaseInv ==
  /\ phase \in {"init", "redis", "mongo", "bd", "tables", "global", "cluster", "assign",
                "http", "running", "stopActor", "stopping", "stopBD", "stopCluster", "off", "fatal"}
  /\ phase \in {"init", "redis", "mongo", "bd"} => life = "none" /\ running = {}
  /\ phase \in {"redis", "mongo", "bd"} => "defines" \in up
  /\ phase \in {"mongo", "bd"} => "redis" \in up
  /\ phase = "bd" => "mongo" \in up
  /\ phase = "tables" => Connected /\ life = "up" /\ running = {}
  /\ phase \in {"global", "cluster", "assign", "http", "running", "stopActor", "stopping"} => Serving
  /\ phase \in {"assign", "http", "running", "stopActor", "stopping"} => "cluster" \in up
  /\ phase \in {"http", "running", "stopActor", "stopping"} => "client" \in up
  /\ phase \in {"init", "redis", "mongo", "bd", "tables", "global", "cluster"} => asked = {}
  /\ asked \subseteq running
  /\ phase = "stopBD" => running = {} /\ Connected
  /\ phase \in {"stopCluster", "off"} => running = {} /\ life = "stopped"
  /\ phase = "fatal" =>
       /\ running # {} => Serving
       /\ life = "none" \/ Connected
  /\ service = "up" =>
       phase \in {"global", "cluster", "assign", "http", "running", "stopActor", "fatal"}
  /\ "cluster" \in up => phase \notin {"init", "redis", "mongo", "bd", "tables", "global", "cluster"}
  /\ life \in {"none", "drained", "closed", "stopped"} => Empty

ServerInv == BDTypes /\ PhaseInv

LEMMA ServerInit == Init => ServerInv
  BY BDAssumption DEF Init, BDInit, ServerInv, BDTypes, PhaseInv, Empty

LEMMA TypesNext == BDTypes /\ [Next]_vars => BDTypes'
<1> SUFFICES ASSUME BDTypes, [Next]_vars PROVE BDTypes'
  OBVIOUS
<1> USE BDAssumption DEF BDTypes
<1>1. CASE UNCHANGED bdVars
  BY <1>1 DEF bdVars
<1>2. ASSUME NEW o \in Ops, Add(o) PROVE BDTypes'
  BY <1>2 DEF Add
<1>3. ASSUME NEW w \in Workers, Execute(w) PROVE BDTypes'
  BY <1>3 DEF Execute
<1>4. ASSUME NEW w \in Workers, Report(w) PROVE BDTypes'
  BY <1>4 DEF Report
<1>5. ASSUME NEW c \in Consumers, Take(c) \/ Consume(c) PROVE BDTypes'
  <2>1. CASE Take(c)
    <3>1. done # <<>> => Head(done) \in Ops /\ Tail(done) \in Seq(Ops)
      OBVIOUS
    <3>2. QED
      BY <2>1, <3>1 DEF Take
  <2>2. CASE Consume(c)
    BY <2>2 DEF Consume
  <2>3. QED
    BY <1>5, <2>1, <2>2
<1>6. CASE New \/ BDStop
  BY <1>6 DEF New, BDStop, StopCore, CoreStopped, CloseDone, Wait
<1>7. QED
  BY <1>1, <1>2, <1>3, <1>4, <1>5, <1>6
     DEF Next, vars, StartStep, StopStep, BeforeStart, ConnectRedis, ConnectMongo, StartBD,
         LoadTables, StartService, StartGlobalActors, StartCluster, AssignCluster, StartHttp, Fatal, StopHttp,
         StopActor, ActorsStopped, StopBD, Disconnect, StopCluster, HandlePacket, Answer,
         AsyncSave, SaveCallback, StopOne, Work, PublishTables

LEMMA PhaseNext == ServerInv /\ [Next]_vars => PhaseInv'
<1> SUFFICES ASSUME ServerInv, [Next]_vars PROVE PhaseInv'
  OBVIOUS
<1> USE DEF ServerInv, PhaseInv, Serving, Connected, Main, mainVars, actorVars, confVars
<1>1. CASE BeforeStart \/ ConnectRedis \/ ConnectMongo \/ StartCluster \/ AssignCluster \/ StartHttp
  BY <1>1 DEF BeforeStart, ConnectRedis, ConnectMongo, StartCluster, AssignCluster, StartHttp, bdVars, Empty
<1>2. CASE StartBD
  BY <1>2 DEF StartBD, New, Empty
<1>3. CASE LoadTables
  BY <1>3 DEF LoadTables, bdVars, Empty
<1>4. CASE StartService \/ StartGlobalActors \/ Fatal
  BY <1>4 DEF StartService, StartGlobalActors, Fatal, bdVars, Empty
<1>5. CASE StopHttp \/ StopActor \/ ActorsStopped \/ Disconnect \/ StopCluster
  BY <1>5 DEF StopHttp, StopActor, ActorsStopped, Disconnect, StopCluster, bdVars, Empty
<1>6. CASE StopBD
  BY <1>6 DEF StopBD, BDStop, StopCore, CoreStopped, CloseDone, Wait, Empty
<1>7. ASSUME UNCHANGED mainVars, UNCHANGED bdVars, UNCHANGED load, running' \subseteq running,
             asked' \subseteq asked, asked' \subseteq running'
      PROVE  PhaseInv'
  BY <1>7 DEF bdVars, Empty
<1>8. ASSUME NEW p \in Players, HandlePacket(p) PROVE PhaseInv'
  BY <1>8 DEF HandlePacket, Alive, bdVars, Empty
<1>9. ASSUME NEW a \in Actors, Answer(a) PROVE PhaseInv'
  <2>1. CASE phase' = phase
    BY <1>7, <1>9, <2>1 DEF Answer
  <2>2. CASE phase' # phase
    <3>1. phase' = "fatal" /\ phase = "assign"
      BY <1>9, <2>2 DEF Answer, Alive
    <3>2. QED
      BY <1>9, <3>1 DEF Answer, bdVars, Empty
  <2>3. QED
    BY <2>1, <2>2
<1>10. ASSUME NEW a \in Actors, StopOne(a) PROVE PhaseInv'
  BY <1>7, <1>10 DEF StopOne
<1>11. ASSUME UNCHANGED <<mainVars, running, asked, load, life>>,
              life \in {"none", "drained", "closed", "stopped"} /\ Empty => Empty'
       PROVE  PhaseInv'
  BY <1>11
<1>12. ASSUME NEW o \in Ops, AsyncSave(o) PROVE PhaseInv'
  BY <1>11, <1>12 DEF AsyncSave, Add
<1>13. ASSUME NEW c \in Consumers, SaveCallback(c) PROVE PhaseInv'
  BY <1>11, <1>13 DEF SaveCallback, Consume, Empty
<1>14. CASE Work
  BY <1>11, <1>14 DEF Work, Execute, Report, Take, Empty
<1>15. CASE PublishTables \/ UNCHANGED vars
  BY <1>7, <1>15 DEF PublishTables, Publish, Drop, Export, loadVars, vars
<1>16. QED
  BY <1>1, <1>2, <1>3, <1>4, <1>5, <1>6, <1>8, <1>9, <1>10, <1>12, <1>13, <1>14, <1>15
     DEF Next, StartStep, StopStep

LEMMA ServerNext == ServerInv /\ [Next]_vars => ServerInv'
  BY TypesNext, PhaseNext DEF ServerInv

(* An actor runs only while everything its handlers use is there           *)
(* (RunsWithEverything), whenever requests arrive and main starts or stops. *)
THEOREM ActorsHaveEverything == Spec => []RunsWithEverything
<1>1. ServerInv => RunsWithEverything
  BY DEF ServerInv, PhaseInv, RunsWithEverything, Serving, Connected
<1>2. QED
  BY <1>1, ServerInit, ServerNext, PTL DEF Spec

(* A request is handled only while its answer can go out, except between   *)
(* cluster.Start and the assignment of a.cluster (AnswersGoOut).           *)
THEOREM AnswersHaveCluster == Spec => []AnswersGoOut
<1>1. ServerInv => AnswersGoOut
  BY DEF ServerInv, PhaseInv, AnswersGoOut, Alive
<1>2. QED
  BY <1>1, ServerInit, ServerNext, PTL DEF Spec

(* No operation is left for a database that was disconnected, and no       *)
(* worker sends into the closed channel (NothingAfterDisconnect).          *)
THEOREM QueuesEndFirst == Spec => []NothingAfterDisconnect
<1>1. ServerInv => NothingAfterDisconnect
  <2> SUFFICES ASSUME ServerInv PROVE NothingAfterDisconnect
    OBVIOUS
  <2>1. life \in {"drained", "closed", "stopped"} => Empty
    BY DEF ServerInv, PhaseInv
  <2>2. Empty => Queued = {}
    BY DEF Empty, Queued, Elements
  <2>3. "mongo" \notin up => Empty
    BY DEF ServerInv, PhaseInv, Serving, Connected
  <2>4. QED
    BY <2>1, <2>2, <2>3 DEF NothingAfterDisconnect, Empty
<1>2. QED
  BY <1>1, ServerInit, ServerNext, PTL DEF Spec

-----------------------------------------------------------------------------
(* Every operation is executed and called back once *)

Held == {held[w] : w \in Workers} \ {None}
Taken == {taken[c] : c \in Consumers} \ {None}
Distinct(s) == \A i, j \in 1 .. Len(s) : s[i] = s[j] => i = j

(* An operation is in one place only: at one position of the queue of its  *)
(* worker, held by that worker, in done, taken by one consumer, or called; *)
(* and nothing is left when the background database has stopped.           *)
PlacesInv ==
  /\ \A w \in Workers :
       /\ Distinct(queue[w])
       /\ \A o \in Elements(queue[w]) : WorkerOf[o] = w
       /\ held[w] # None => WorkerOf[held[w]] = w
  /\ Distinct(done)
  /\ \A c, d \in Consumers : taken[c] = taken[d] /\ taken[c] # None => c = d
  /\ Queued \cap (Held \cup Elements(done) \cup Taken \cup called) = {}
  /\ Held \cap (Elements(done) \cup Taken \cup called) = {}
  /\ Elements(done) \cap (Taken \cup called) = {}
  /\ Taken \cap called = {}
  /\ life = "stopped" => done = <<>> /\ Taken = {}

(* Append adds one element, which stays the only one of its kind when it   *)
(* is new.                                                                 *)
LEMMA ElementsOfAppend ==
  ASSUME NEW S, NEW s \in Seq(S), NEW e \in S
  PROVE  /\ Elements(Append(s, e)) = Elements(s) \cup {e}
         /\ Distinct(s) /\ e \notin Elements(s) => Distinct(Append(s, e))
<1>1. /\ DOMAIN s = 1 .. Len(s) /\ DOMAIN Append(s, e) = 1 .. Len(s) + 1 /\ Len(s) \in Nat
      /\ Len(Append(s, e)) = Len(s) + 1
      /\ \A i \in 1 .. Len(s) : Append(s, e)[i] = s[i]
      /\ Append(s, e)[Len(s) + 1] = e
  OBVIOUS
<1>2. 1 .. Len(s) + 1 = 1 .. Len(s) \cup {Len(s) + 1}
  BY <1>1
<1>3. Elements(Append(s, e)) = Elements(s) \cup {e}
  BY <1>1, <1>2 DEF Elements
<1>4. ASSUME Distinct(s), e \notin Elements(s) PROVE Distinct(Append(s, e))
  BY <1>1, <1>2, <1>4 DEF Elements, Distinct
<1>5. QED
  BY <1>3, <1>4

(* Tail removes the head, and it alone when no element occurs twice. *)
LEMMA ElementsOfTail ==
  ASSUME NEW S, NEW s \in Seq(S), s # <<>>, Distinct(s)
  PROVE  /\ Head(s) \in Elements(s) /\ Head(s) \in S
         /\ Elements(Tail(s)) = Elements(s) \ {Head(s)}
         /\ Distinct(Tail(s))
<1>1. /\ Len(s) \in Nat \ {0} /\ DOMAIN s = 1 .. Len(s) /\ Head(s) = s[1]
      /\ DOMAIN Tail(s) = 1 .. Len(s) - 1 /\ Len(Tail(s)) = Len(s) - 1
      /\ \A i \in 1 .. Len(s) - 1 : Tail(s)[i] = s[i + 1]
      /\ \A i \in 1 .. Len(s) : s[i] \in S
  OBVIOUS
<1>2. Elements(Tail(s)) \subseteq Elements(s) \ {Head(s)}
  BY <1>1 DEF Elements, Distinct
<1>3. Elements(s) \ {Head(s)} \subseteq Elements(Tail(s))
  <2> SUFFICES ASSUME NEW i \in 1 .. Len(s), s[i] # s[1] PROVE s[i] \in Elements(Tail(s))
    BY <1>1 DEF Elements
  <2>1. i - 1 \in 1 .. Len(s) - 1 /\ Tail(s)[i - 1] = s[i]
    BY <1>1
  <2>2. QED
    BY <1>1, <2>1 DEF Elements
<1>4. Distinct(Tail(s))
  BY <1>1 DEF Distinct
<1>5. Head(s) \in Elements(s) /\ Head(s) \in S
  BY <1>1 DEF Elements
<1>6. QED
  BY <1>2, <1>3, <1>4, <1>5

(* What the steps of the background database do to the places.             *)
LEMMA AddMoves ==
  ASSUME BDTypes, PlacesInv, NEW o \in Ops, Add(o)
  PROVE  /\ Queued' = Queued \cup {o}
         /\ \A w \in Workers : /\ Distinct(queue'[w])
                               /\ \A x \in Elements(queue'[w]) : WorkerOf[x] = w
<1> DEFINE v == WorkerOf[o]
<1>1. /\ v \in Workers /\ queue[v] \in Seq(Ops) /\ o \notin Elements(queue[v])
      /\ queue' = [queue EXCEPT ![v] = Append(queue[v], o)]
  BY BDAssumption DEF BDTypes, Add, Queued
<1>2. /\ Elements(Append(queue[v], o)) = Elements(queue[v]) \cup {o}
      /\ Distinct(Append(queue[v], o))
  BY <1>1, ElementsOfAppend DEF PlacesInv
<1>3. \A w \in Workers : queue'[w] = IF w = v THEN Append(queue[v], o) ELSE queue[w]
  BY <1>1 DEF BDTypes
<1>4. Queued' = Queued \cup {o}
  BY <1>1, <1>2, <1>3 DEF Queued
<1>5. QED
  BY <1>2, <1>3, <1>4 DEF PlacesInv

LEMMA ExecuteMoves ==
  ASSUME BDTypes, PlacesInv, NEW v \in Workers, Execute(v)
  PROVE  \E o \in Ops :
           /\ o \in Queued /\ Queued' = Queued \ {o} /\ Held' = Held \cup {o}
           /\ \A w \in Workers : /\ Distinct(queue'[w])
                                 /\ \A x \in Elements(queue'[w]) : WorkerOf[x] = w
                                 /\ held'[w] # None => WorkerOf[held'[w]] = w
<1> DEFINE o == Head(queue[v])
<1>1. /\ queue[v] \in Seq(Ops) /\ queue[v] # <<>> /\ Distinct(queue[v]) /\ held[v] = None
      /\ queue' = [queue EXCEPT ![v] = Tail(queue[v])] /\ held' = [held EXCEPT ![v] = o]
  BY DEF BDTypes, Execute, PlacesInv
<1>2. /\ o \in Elements(queue[v]) /\ o \in Ops /\ o # None
      /\ Elements(Tail(queue[v])) = Elements(queue[v]) \ {o} /\ Distinct(Tail(queue[v]))
  BY <1>1, ElementsOfTail, BDAssumption
<1>3. \A w \in Workers : /\ queue'[w] = IF w = v THEN Tail(queue[v]) ELSE queue[w]
                         /\ held'[w] = IF w = v THEN o ELSE held[w]
  BY <1>1 DEF BDTypes
<1> HIDE DEF o
<1>4. WorkerOf[o] = v /\ \A w \in Workers \ {v} : o \notin Elements(queue[w])
  BY <1>2 DEF PlacesInv
<1>5. Queued' = Queued \ {o} /\ o \in Queued
  BY <1>2, <1>3, <1>4 DEF Queued
<1>6. Held' = Held \cup {o}
  BY <1>1, <1>2, <1>3 DEF Held
<1>7. QED
  BY <1>2, <1>3, <1>4, <1>5, <1>6 DEF PlacesInv

LEMMA ReportMoves ==
  ASSUME BDTypes, PlacesInv, NEW v \in Workers, Report(v)
  PROVE  \E o \in Ops :
           /\ o \in Held /\ Held' = Held \ {o} /\ Elements(done') = Elements(done) \cup {o}
           /\ Distinct(done')
           /\ \A w \in Workers : held'[w] # None => WorkerOf[held'[w]] = w
<1> DEFINE o == held[v]
<1>1. /\ o \in Held /\ o \in Ops /\ o \notin Elements(done) /\ o # None
      /\ done \in Seq(Ops) /\ Distinct(done) /\ done' = Append(done, o)
  BY DEF BDTypes, Report, Held, PlacesInv
<1>2. \A w \in Workers : held'[w] = IF w = v THEN None ELSE held[w]
  BY DEF BDTypes, Report
<1>3. \A w \in Workers \ {v} : held[w] # o
  BY <1>1 DEF PlacesInv
<1> HIDE DEF o
<1>4. Held' = Held \ {o}
  BY <1>1, <1>2, <1>3 DEF Held, o
<1>5. Elements(done') = Elements(done) \cup {o} /\ Distinct(done')
  BY <1>1, ElementsOfAppend
<1>6. QED
  BY <1>1, <1>2, <1>4, <1>5 DEF PlacesInv

LEMMA TakeMoves ==
  ASSUME BDTypes, PlacesInv, NEW b \in Consumers, Take(b)
  PROVE  \E o \in Ops :
           /\ o \in Elements(done) /\ Elements(done') = Elements(done) \ {o}
           /\ Taken' = Taken \cup {o} /\ Distinct(done')
           /\ \A c, d \in Consumers : taken'[c] = taken'[d] /\ taken'[c] # None => c = d
<1> DEFINE o == Head(done)
<1>1. /\ done \in Seq(Ops) /\ done # <<>> /\ Distinct(done) /\ done' = Tail(done)
      /\ taken[b] = None
  BY DEF BDTypes, Take, PlacesInv
<1>2. /\ o \in Elements(done) /\ o \in Ops /\ o # None
      /\ Elements(done') = Elements(done) \ {o} /\ Distinct(done')
  BY <1>1, ElementsOfTail, BDAssumption
<1>3. \A c \in Consumers : taken'[c] = IF c = b THEN o ELSE taken[c]
  BY DEF BDTypes, Take
<1> HIDE DEF o
<1>4. \A c \in Consumers : taken[c] # o
  BY <1>2 DEF PlacesInv, Taken
<1>5. Taken' = Taken \cup {o}
  BY <1>1, <1>2, <1>3 DEF Taken
<1>6. QED
  BY <1>2, <1>3, <1>4, <1>5 DEF PlacesInv

LEMMA ConsumeMoves ==
  ASSUME BDTypes, PlacesInv, NEW b \in Consumers, Consume(b)
  PROVE  \E o \in Ops :
           /\ o \in Taken /\ Taken' = Taken \ {o} /\ called' = called \cup {o}
           /\ \A c, d \in Consumers : taken'[c] = taken'[d] /\ taken'[c] # None => c = d
<1> DEFINE o == taken[b]
<1>1. /\ o \in Taken /\ o \in Ops /\ called' = called \cup {o}
      /\ \A c \in Consumers : taken'[c] = IF c = b THEN None ELSE taken[c]
      /\ \A c \in Consumers \ {b} : taken[c] # o
  BY DEF BDTypes, Consume, Taken, PlacesInv
<1>2. Taken' = Taken \ {o}
  BY <1>1 DEF Taken
<1>3. QED
  BY <1>1, <1>2 DEF PlacesInv

LEMMA PlacesInit == Init => PlacesInv
  BY BDAssumption DEF Init, BDInit, PlacesInv, Distinct, Queued, Elements, Held, Taken

LEMMA PlacesNext == ServerInv /\ PlacesInv /\ [Next]_vars => PlacesInv'
<1> SUFFICES ASSUME ServerInv, PlacesInv, [Next]_vars PROVE PlacesInv'
  OBVIOUS
<1> USE DEF ServerInv
<1>1. ASSUME UNCHANGED <<queue, held, done, taken, called>>,
             life' = "stopped" => life = "stopped" \/ (done = <<>> /\ Taken = {})
      PROVE  PlacesInv'
  <2>1. UNCHANGED <<Queued, Held, Taken>>
    BY <1>1 DEF Queued, Held, Taken, Elements
  <2>2. QED
    BY <1>1, <2>1 DEF PlacesInv, Distinct, Elements
<1>2. ASSUME NEW o \in Ops, Add(o) PROVE PlacesInv'
  <2>1. /\ UNCHANGED <<held, done, taken, called, life, Held, Taken>> /\ life = "up"
        /\ o \notin Held \cup Elements(done) \cup Taken \cup called
    BY <1>2, BDAssumption DEF Add, InFlight, Held, Taken
  <2>2. QED
    BY <1>2, <2>1, AddMoves DEF PlacesInv, Distinct, Elements
<1>3. ASSUME NEW v \in Workers, Execute(v) PROVE PlacesInv'
  <2>1. UNCHANGED <<done, taken, called, life, Taken>>
    BY <1>3 DEF Execute, Taken
  <2>2. QED
    BY <1>3, <2>1, ExecuteMoves DEF PlacesInv, Distinct, Elements
<1>4. ASSUME NEW v \in Workers, Report(v) PROVE PlacesInv'
  <2>1. UNCHANGED <<queue, taken, called, life, Queued, Taken>> /\ life # "stopped"
    BY <1>4 DEF Report, Queued, Taken, PhaseInv, Empty
  <2>2. QED
    BY <1>4, <2>1, ReportMoves DEF PlacesInv
<1>5. ASSUME NEW b \in Consumers, Take(b) PROVE PlacesInv'
  <2>1. UNCHANGED <<queue, held, called, life, Queued, Held>> /\ life # "stopped"
    BY <1>5 DEF Take, Queued, Held, PlacesInv
  <2>2. QED
    BY <1>5, <2>1, TakeMoves DEF PlacesInv
<1>6. ASSUME NEW b \in Consumers, Consume(b) PROVE PlacesInv'
  <2>1. UNCHANGED <<queue, held, done, life, Queued, Held>>
    BY <1>6 DEF Consume, Queued, Held
  <2>2. QED
    BY <1>6, <2>1, ConsumeMoves DEF PlacesInv
<1>7. CASE StopBD
  BY <1>1, <1>7 DEF StopBD, BDStop, StopCore, CoreStopped, CloseDone, Wait, Taken
<1>8. CASE StartBD
  BY <1>1, <1>8 DEF StartBD, New
<1>9. CASE UNCHANGED bdVars
  BY <1>1, <1>9 DEF bdVars
<1>10. CASE Work
  BY <1>3, <1>4, <1>5, <1>10 DEF Work
<1>11. QED
  BY <1>2, <1>6, <1>7, <1>8, <1>9, <1>10
     DEF Next, vars, StartStep, StopStep, BeforeStart, ConnectRedis, ConnectMongo,
         LoadTables, StartService, StartGlobalActors, StartCluster, AssignCluster, StartHttp, Fatal, StopHttp,
         StopActor, ActorsStopped, Disconnect, StopCluster, HandlePacket, Answer,
         AsyncSave, SaveCallback, StopOne, PublishTables

(* A step of the game server is a step of an operation's life, or none. *)
LEMMA StepLives == ServerInv /\ PlacesInv /\ [Next]_vars => [Lifetimes!Next]_Lifetimes!vars
<1> SUFFICES ASSUME ServerInv, PlacesInv, [Next]_vars PROVE [Lifetimes!Next]_Lifetimes!vars
  OBVIOUS
<1> USE DEF ServerInv
<1>1. InFlight = Held \cup Elements(done) \cup Taken
  BY BDAssumption DEF InFlight, Held, Taken, BDTypes, Elements
<1>2. InFlight' = Held' \cup Elements(done)' \cup Taken'
  <2>1. BDTypes'
    BY TypesNext
  <2>2. QED
    BY <2>1, BDAssumption DEF InFlight, Held, Taken, BDTypes, Elements
<1>3. ASSUME UNCHANGED <<queue, held, done, taken, called>>, (life = "stopped") = (life' = "stopped")
      PROVE  UNCHANGED Lifetimes!vars
  BY <1>3 DEF Lifetimes!vars, Queued, InFlight, Elements
<1>4. ASSUME NEW o \in Ops, Add(o) PROVE Lifetimes!Accept(o)
  <2>1. Queued' = Queued \cup {o}
    BY <1>4, AddMoves
  <2>2. UNCHANGED <<InFlight, called, life>>
    BY <1>4 DEF Add, InFlight, Elements
  <2>3. QED
    BY <1>4, <2>1, <2>2 DEF Add, Lifetimes!Accept
<1>5. ASSUME NEW v \in Workers, Execute(v) PROVE \E o \in Ops : Lifetimes!Execute(o)
  <2>1. PICK o \in Ops : o \in Queued /\ Queued' = Queued \ {o} /\ Held' = Held \cup {o}
    BY <1>5, ExecuteMoves
  <2>2. UNCHANGED <<done, Elements(done), Taken, called, life>> /\ life # "stopped"
    BY <1>5 DEF Execute, Taken
  <2>3. QED
    BY <1>1, <1>2, <2>1, <2>2 DEF Lifetimes!Execute
<1>6. ASSUME NEW v \in Workers, Report(v) PROVE UNCHANGED Lifetimes!vars
  <2>1. PICK o \in Ops :
          o \in Held /\ Held' = Held \ {o} /\ Elements(done)' = Elements(done) \cup {o}
    BY <1>6, ReportMoves
  <2>2. UNCHANGED <<Queued, Taken, called, life>>
    BY <1>6 DEF Report, Queued, Taken
  <2>3. QED
    BY <1>1, <1>2, <2>1, <2>2 DEF Lifetimes!vars
<1>7. ASSUME NEW b \in Consumers, Take(b) PROVE UNCHANGED Lifetimes!vars
  <2>1. PICK o \in Ops :
          o \in Elements(done) /\ Elements(done)' = Elements(done) \ {o} /\ Taken' = Taken \cup {o}
    BY <1>7, TakeMoves
  <2>2. UNCHANGED <<Queued, Held, called, life>>
    BY <1>7 DEF Take, Queued, Held
  <2>3. QED
    BY <1>1, <1>2, <2>1, <2>2 DEF Lifetimes!vars
<1>8. ASSUME NEW b \in Consumers, Consume(b) PROVE \E o \in Ops : Lifetimes!Call(o)
  <2>1. PICK o \in Ops : o \in Taken /\ Taken' = Taken \ {o} /\ called' = called \cup {o}
    BY <1>8, ConsumeMoves
  <2>2. UNCHANGED <<Queued, Held, Elements(done), life>> /\ life # "stopped"
    BY <1>8, <2>1 DEF Consume, Queued, Held, PlacesInv
  <2>3. o \notin Held \cup Elements(done)
    BY <2>1 DEF PlacesInv
  <2>4. QED
    BY <1>1, <1>2, <2>1, <2>2, <2>3 DEF Lifetimes!Call
<1>9. CASE StopBD
  <2>1. CASE Wait
    <3>1. Queued = {} /\ Held = {}
      BY <2>1 DEF Wait, PhaseInv, Empty, Queued, Held, Elements
    <3>2. Elements(done) = {} /\ Taken = {}
      BY <2>1 DEF Wait, Elements, Taken
    <3>3. UNCHANGED <<Queued, InFlight, called>> /\ life # "stopped" /\ life' = "stopped"
      BY <2>1 DEF Wait, Queued, InFlight, Elements
    <3>4. QED
      BY <1>1, <3>1, <3>2, <3>3 DEF Lifetimes!Next, Lifetimes!Stopped
  <2>2. CASE StopCore \/ CoreStopped \/ CloseDone
    BY <1>3, <2>2 DEF StopCore, CoreStopped, CloseDone
  <2>3. QED
    BY <1>9, <2>1, <2>2 DEF StopBD, BDStop
<1>10. CASE StartBD
  BY <1>3, <1>10 DEF StartBD, New
<1>11. CASE UNCHANGED bdVars
  BY <1>3, <1>11 DEF bdVars
<1>12. CASE Work
  BY <1>5, <1>6, <1>7, <1>12 DEF Work, Lifetimes!Next
<1>13. QED
  BY <1>4, <1>8, <1>9, <1>10, <1>11, <1>12
     DEF Next, vars, Lifetimes!Next, StartStep, StopStep, BeforeStart, ConnectRedis, ConnectMongo,
         LoadTables, StartService, StartGlobalActors, StartCluster, AssignCluster, StartHttp, Fatal, StopHttp,
         StopActor, ActorsStopped, Disconnect, StopCluster, HandlePacket, Answer,
         AsyncSave, SaveCallback, StopOne, PublishTables

(* The background database keeps its promise (OpsLiveOnce): what was       *)
(* accepted is executed and called back once, all of it before Stop        *)
(* returns.                                                                *)
THEOREM OperationsLiveOnce == Spec => OpsLiveOnce
<1>1. Init => Lifetimes!Init
  BY BDAssumption DEF Init, BDInit, Lifetimes!Init, Queued, InFlight, Elements
<1>2. QED
  BY <1>1, ServerInit, ServerNext, PlacesInit, PlacesNext, StepLives, PTL
     DEF Spec, OpsLiveOnce, Lifetimes!Spec

-----------------------------------------------------------------------------
(* The item table *)

(* A sequence without repetitions, of elements of a finite set, that is as *)
(* long as the set is large holds all of it; and one that holds all of it  *)
(* repeats none.                                                           *)
LEMMA OrdersOfFinite ==
  ASSUME NEW S, IsFiniteSet(S), NEW s \in Seq(S), Len(s) = Cardinality(S)
  PROVE  Distinct(s) <=> IsOrderOf(s, S)
<1> DEFINE D == 1 .. Len(s)
<1>1. /\ Len(s) \in Nat /\ DOMAIN s = D /\ s \in [D -> S]
  OBVIOUS
<1>2. IsFiniteSet(D) /\ Cardinality(D) = Cardinality(S)
  BY <1>1, FS_Interval
<1>3. ASSUME Distinct(s) PROVE IsOrderOf(s, S)
  <2>1. s \in Injection(D, S)
    BY <1>1, <1>3 DEF Distinct, Injection, IsInjective
  <2>2. s \in Surjection(D, S)
    BY <1>2, <2>1, FS_Injection
  <2>3. QED
    BY <1>1, <2>2 DEF Surjection, IsOrderOf
<1>4. ASSUME IsOrderOf(s, S) PROVE Distinct(s)
  <2>1. s \in Surjection(D, S)
    BY <1>1, <1>4 DEF IsOrderOf, Surjection
  <2>2. s \in Injection(D, S)
    BY <1>2, <2>1, FS_SurjSameCardinalityImpliesInj
  <2>3. QED
    BY <1>1, <2>2 DEF Distinct, Injection, IsInjective
<1>5. QED
  BY <1>3, <1>4

(* The stored rows are different ones, and none is stored that is still to *)
(* be written; a load that was not disturbed has seen all of the items,    *)
(* and what it has read is where the stored rows begin.                    *)
TableInv ==
  /\ load \in {"idle", "global", "items", "after", "loaded", "failed"}
  /\ publishing \in SUBSET Items
  /\ rows \in Seq(Items) /\ Distinct(rows) /\ \A i \in 1 .. Len(rows) : rows[i] \notin publishing
  /\ entries \in Seq(Items) /\ tblItem \in Seq(Items) \cup {NoTable}
  /\ load \in {"idle", "global"} => entries = <<>>
  /\ Loading /\ ~torn => Complete
  /\ load = "items" /\ ~torn =>
       Len(entries) <= Len(rows) /\ entries = SubSeq(rows, 1, Len(entries))
  /\ load \in {"after", "loaded"} /\ ~torn => Complete /\ tblItem = rows

LEMMA TableInit == Init => TableInv
<1> SUFFICES ASSUME Init PROVE TableInv
  OBVIOUS
<1>1. IsFiniteSet(Items) /\ Cardinality(Items) \in Nat
  BY ConfAssumption, FS_CardinalityType
<1>2. rows \in [1 .. Cardinality(Items) -> Items] /\ IsOrderOf(rows, Items)
  BY DEF Init, ConfInit
<1>3. rows \in Seq(Items) /\ Len(rows) = Cardinality(Items)
  BY <1>1, <1>2
<1>4. Distinct(rows)
  BY <1>1, <1>2, <1>3, OrdersOfFinite
<1>5. QED
  BY <1>3, <1>4 DEF Init, ConfInit, TableInv, Loading

(* A page continues what was read, and a short one completes it.           *)
LEMMA PageContinues ==
  ASSUME NEW S, rows \in Seq(S), entries \in Seq(S)
  PROVE  /\ Page \in Seq(S) /\ entries \o Page \in Seq(S)
         /\ Len(entries) <= Len(rows) /\ entries = SubSeq(rows, 1, Len(entries)) =>
              /\ Len(entries \o Page) <= Len(rows)
              /\ entries \o Page = SubSeq(rows, 1, Len(entries \o Page))
              /\ LastPage => entries \o Page = rows
<1> DEFINE k == Len(entries)
           last == k + LoadBatchSize
           m == IF last < Len(rows) THEN last ELSE Len(rows)
<1>1. k \in Nat /\ Len(rows) \in Nat /\ LoadBatchSize \in Nat \ {0} /\ m \in Nat /\ m <= Len(rows)
      /\ Page = SubSeq(rows, k + 1, m)
  BY ConfAssumption DEF Page
<1> HIDE DEF m
<1>2. Page \in Seq(S)
  BY <1>1
<1>3. ASSUME k <= Len(rows), entries = SubSeq(rows, 1, k)
      PROVE  /\ Len(entries \o Page) <= Len(rows)
             /\ entries \o Page = SubSeq(rows, 1, Len(entries \o Page))
             /\ LastPage => entries \o Page = rows
  <2>1. k <= m
    BY <1>1, <1>3 DEF m
  <2>2. Len(Page) = m - k /\ \A i \in 1 .. m - k : Page[i] = rows[k + i]
    BY <1>1, <2>1
  <2>3. \A i \in 1 .. k : entries[i] = rows[i]
    BY <1>1, <1>3
  <2> DEFINE e == entries \o Page
  <2>4. e \in Seq(S) /\ Len(e) = m /\ \A i \in 1 .. m : e[i] = IF i <= k THEN entries[i] ELSE Page[i - k]
    BY <1>1, <1>2, <2>1, <2>2
  <2> HIDE DEF e
  <2>5. \A i \in 1 .. m : e[i] = rows[i]
    <3> SUFFICES ASSUME NEW i \in 1 .. m PROVE e[i] = rows[i]
      OBVIOUS
    <3>1. CASE i <= k
      BY <1>1, <2>3, <2>4, <3>1
    <3>2. CASE i > k
      <4>1. i - k \in 1 .. m - k /\ k + (i - k) = i /\ ~ (i <= k)
        BY <1>1, <2>1, <3>2
      <4>2. QED
        BY <2>2, <2>4, <4>1
    <3>3. QED
      BY <1>1, <3>1, <3>2
  <2>6. e = SubSeq(rows, 1, m)
    BY <1>1, <2>4, <2>5
  <2>7. LastPage => m = Len(rows)
    BY <1>1, <2>1, <2>2 DEF LastPage, m
  <2>8. SubSeq(rows, 1, Len(rows)) = rows
    OBVIOUS
  <2>9. QED
    BY <1>1, <2>4, <2>6, <2>7, <2>8 DEF e
<1>4. QED
  BY <1>2, <1>3

LEMMA TableNext == TableInv /\ [Next]_vars => TableInv'
<1> SUFFICES ASSUME TableInv, [Next]_vars PROVE TableInv'
  OBVIOUS
<1>1. CASE UNCHANGED confVars
  BY <1>1 DEF TableInv, confVars, Distinct, Loading, Complete
<1>2. CASE Drop
  <2>1. /\ load \in {"idle", "global", "items"} /\ rows' = <<>> /\ publishing' = Items
        /\ torn' = (torn \/ Loading) /\ UNCHANGED loadVars
    BY <1>2 DEF Drop
  <2>2. rows' \in Seq(Items) /\ Distinct(rows') /\ \A i \in 1 .. Len(rows') : rows'[i] \notin publishing'
    BY <2>1 DEF Distinct
  <2>3. QED
    BY <2>1, <2>2 DEF TableInv, loadVars, Loading
<1>3. CASE Export
  <2>1. /\ load \in {"idle", "global", "items"} /\ torn' = (torn \/ Loading) /\ UNCHANGED loadVars
    BY <1>3 DEF Export
  <2>2. CASE publishing' = {} /\ UNCHANGED rows
    BY <2>1, <2>2 DEF TableInv, loadVars, Distinct, Loading
  <2>3. ASSUME NEW i \in publishing, rows' = Append(rows, i), publishing' = publishing \ {i}
        PROVE  TableInv'
    <3>1. i \in Items /\ rows \in Seq(Items) /\ i \notin Elements(rows)
      BY <2>3 DEF TableInv, Elements
    <3>2. rows' \in Seq(Items) /\ Distinct(rows')
      BY <2>3, <3>1, ElementsOfAppend DEF TableInv
    <3>3. /\ Len(rows) \in Nat /\ Len(rows') = Len(rows) + 1 /\ rows'[Len(rows) + 1] = i
          /\ \A j \in 1 .. Len(rows) : rows'[j] = rows[j]
      BY <2>3, <3>1
    <3>4. \A j \in 1 .. Len(rows') : rows'[j] \notin publishing'
      BY <2>3, <3>3 DEF TableInv
    <3>5. publishing' \in SUBSET Items
      BY <2>3 DEF TableInv
    <3>6. QED
      BY <2>1, <3>2, <3>4, <3>5 DEF TableInv, loadVars, Loading
  <2>4. QED
    BY <1>3, <2>2, <2>3 DEF Export
<1>4. CASE BeginLoad
  BY <1>4 DEF BeginLoad, dbVars, TableInv, Distinct, Loading, Complete
<1>5. CASE LoadGlobal
  <2>1. /\ load = "global" /\ load' \in {"failed", "items"}
        /\ UNCHANGED <<rows, globalDoc, publishing, entries, torn, tblItem>>
    BY <1>5 DEF LoadGlobal, dbVars
  <2>2. entries = <<>> /\ Len(entries) = 0 /\ Len(rows) \in Nat /\ SubSeq(rows, 1, 0) = <<>>
    BY <2>1 DEF TableInv
  <2>3. QED
    BY <2>1, <2>2 DEF TableInv, Distinct, Loading, Complete
<1>6. CASE LoadItems
  <2>1. load = "items" /\ UNCHANGED <<rows, globalDoc, publishing, torn>>
    BY <1>6 DEF LoadItems, dbVars
  <2>2. /\ entries \o Page \in Seq(Items)
        /\ ~torn => /\ Len(entries \o Page) <= Len(rows)
                    /\ entries \o Page = SubSeq(rows, 1, Len(entries \o Page))
                    /\ LastPage => entries \o Page = rows
    BY <2>1, PageContinues DEF TableInv
  <2>3. CASE entries' = entries \o Page /\ LastPage /\ load' = "after" /\ tblItem' = entries'
    BY <2>1, <2>2, <2>3 DEF TableInv, Distinct, Loading, Complete
  <2>4. CASE entries' = entries \o Page /\ UNCHANGED <<load, tblItem>>
    BY <2>1, <2>2, <2>4 DEF TableInv, Distinct, Loading, Complete
  <2>5. CASE load' = "failed" /\ UNCHANGED <<entries, tblItem>>
    BY <2>1, <2>5 DEF TableInv, Distinct, Loading
  <2>6. QED
    BY <1>6, <2>3, <2>4, <2>5 DEF LoadItems
<1>7. CASE RunAfterLoad
  BY <1>7 DEF RunAfterLoad, dbVars, TableInv, Distinct, Loading, Complete
<1>8. QED
  BY <1>1, <1>2, <1>3, <1>4, <1>5, <1>6, <1>7
     DEF Next, vars, StartStep, StopStep, BeforeStart, ConnectRedis, ConnectMongo, StartBD,
         LoadTables, LoadStep, StartService, StartGlobalActors, StartCluster, AssignCluster, StartHttp, Fatal,
         StopHttp, StopActor, ActorsStopped, StopBD, Disconnect, StopCluster, HandlePacket, Answer,
         AsyncSave, SaveCallback, StopOne, Work, PublishTables, Publish

(* The item table holds each row exactly once, for any number of rows and  *)
(* any size of pages, unless the tables were being published while they    *)
(* were loaded (TableIsWhole).                                             *)
THEOREM TablesAreWhole == Spec => []TableIsWhole
<1>1. TableInv => TableIsWhole
  <2> SUFFICES ASSUME TableInv, load \in {"after", "loaded"}, ~torn PROVE IsOrderOf(tblItem, Items)
    BY DEF TableIsWhole
  <2>1. rows \in Seq(Items) /\ Distinct(rows) /\ Len(rows) = Cardinality(Items) /\ tblItem = rows
    BY DEF TableInv, Complete
  <2>2. QED
    BY <2>1, ConfAssumption, OrdersOfFinite
<1>2. QED
  BY <1>1, TableInit, TableNext, PTL DEF Spec

-----------------------------------------------------------------------------
(* Types *)

(* The actors that handle a request run, from startGlobalActors on.        *)
ActorTypes ==
  /\ life \in {"none", "up", "draining", "drained", "closed", "stopped"}
  /\ called \subseteq Ops
  /\ up \subseteq Resources /\ service \in {"none", "up", "stopping", "stopped"}
  /\ asked \subseteq running /\ running \subseteq Actors /\ dirty \subseteq Actors
  /\ phase = "global" => running = {}
  /\ requests \in 0 .. MaxRequests

LEMMA ActorTypesNext == ServerInv /\ ActorTypes /\ [Next]_vars => ActorTypes'
<1> SUFFICES ASSUME ServerInv, ActorTypes, [Next]_vars PROVE ActorTypes'
  OBVIOUS
<1> USE DEF ActorTypes, Main, Resources
<1>1. CASE StartStep
  <2>1. CASE BeforeStart \/ ConnectRedis \/ ConnectMongo \/ LoadTables \/ Fatal
    BY <1>1, <2>1 DEF BeforeStart, ConnectRedis, ConnectMongo, LoadTables, Fatal, actorVars, bdVars,
       mainVars
  <2>2. CASE StartBD \/ StartCluster \/ AssignCluster \/ StartHttp
    BY <2>2 DEF StartBD, New, StartCluster, AssignCluster, StartHttp, actorVars, bdVars
  <2>3. CASE StartService
    BY <2>3 DEF StartService, actorVars, bdVars, ServerInv, PhaseInv
  <2>4. CASE StartGlobalActors
    BY <2>4 DEF StartGlobalActors, bdVars, Actors
  <2>5. QED
    BY <1>1, <2>1, <2>2, <2>3, <2>4 DEF StartStep
<1>2. CASE StopHttp \/ StopActor \/ ActorsStopped \/ Disconnect \/ StopCluster
  BY <1>2 DEF StopHttp, StopActor, ActorsStopped, Disconnect, StopCluster, actorVars, bdVars
<1>3. CASE StopBD
  BY <1>3 DEF StopBD, BDStop, StopCore, CoreStopped, CloseDone, Wait, actorVars, mainVars
<1>4. CASE PublishTables \/ UNCHANGED vars
  BY <1>4 DEF PublishTables, vars, mainVars, actorVars, bdVars
<1>5. CASE Work
  BY <1>5 DEF Work, Execute, Report, Take, mainVars, actorVars
<1>6. ASSUME NEW p \in Players, HandlePacket(p) PROVE ActorTypes'
  <2>1. phase # "global" /\ requests' \in 0 .. MaxRequests
    BY <1>6, ServerAssumption DEF HandlePacket, ServerInv, PhaseInv
  <2>2. QED
    BY <1>6, <2>1 DEF HandlePacket, mainVars, bdVars, Actors
<1>7. ASSUME NEW a \in Actors, Answer(a) PROVE ActorTypes'
  BY <1>7 DEF Answer, mainVars, bdVars
<1>8. ASSUME NEW a \in Actors, StopOne(a) PROVE ActorTypes'
  BY <1>8 DEF StopOne, mainVars, bdVars
<1>9. ASSUME NEW o \in Ops, AsyncSave(o) PROVE ActorTypes'
  BY <1>9 DEF AsyncSave, Add, mainVars, actorVars
<1>10. ASSUME NEW c \in Consumers, SaveCallback(c) PROVE ActorTypes'
  BY <1>10 DEF SaveCallback, Consume, mainVars, ServerInv, BDTypes
<1>11. QED
  BY <1>1, <1>2, <1>3, <1>4, <1>5, <1>6, <1>7, <1>8, <1>9, <1>10 DEF Next, StopStep

(* Types, and every actor that handles a request runs (TypeOK).            *)
THEOREM ServerTypeCorrect == Spec => []TypeOK
<1>1. Init => ActorTypes
  BY ServerAssumption DEF Init, BDInit, ActorTypes
<1>2. ServerInv /\ TableInv /\ ActorTypes => TypeOK
  BY DEF ServerInv, BDTypes, TableInv, ActorTypes, TypeOK
<1>3. QED
  BY <1>1, <1>2, ServerInit, ServerNext, TableInit, TableNext, ActorTypesNext, PTL DEF Spec

-----------------------------------------------------------------------------
(* Lists that are kept in order *)

Ascends(s, R) == \A i, j \in 1 .. Len(s) : i < j => <<s[i], s[j]>> \in R

(* w is s with e put at place p. *)
IsInsertion(w, s, p, e, S) ==
  /\ w \in Seq(S) /\ Len(w) = Len(s) + 1 /\ w[p] = e
  /\ \A i \in 1 .. p - 1 : w[i] = s[i]
  /\ \A i \in p + 1 .. Len(s) + 1 : w[i] = s[i - 1]

LEMMA Inserted ==
  ASSUME NEW S, NEW s \in Seq(S), NEW e \in S, NEW p \in 1 .. Len(s) + 1
  PROVE  IsInsertion(InsertAt(s, p, e), s, p, e, S)
<1> DEFINE a == SubSeq(s, 1, p - 1)
           b == a \o <<e>>
           c == SubSeq(s, p, Len(s))
<1>1. /\ Len(s) \in Nat /\ p \in Nat /\ p - 1 \in Nat /\ a \in Seq(S) /\ Len(a) = p - 1
      /\ \A i \in 1 .. p - 1 : a[i] = s[i]
  OBVIOUS
<1>2. /\ c \in Seq(S) /\ Len(c) = Len(s) + 1 - p
      /\ \A i \in 1 .. Len(s) + 1 - p : c[i] = s[p + i - 1]
  OBVIOUS
<1> HIDE DEF a, c
<1>3. /\ b \in Seq(S) /\ Len(b) = p /\ b[p] = e /\ \A i \in 1 .. p - 1 : b[i] = s[i]
  BY <1>1
<1> HIDE DEF b
<1>4. /\ b \o c \in Seq(S) /\ Len(b \o c) = Len(s) + 1
      /\ \A i \in 1 .. Len(s) + 1 : (b \o c)[i] = IF i <= p THEN b[i] ELSE c[i - p]
  BY <1>1, <1>2, <1>3
<1>5. ASSUME NEW i \in p + 1 .. Len(s) + 1 PROVE (b \o c)[i] = s[i - 1]
  <2>1. i \in 1 .. Len(s) + 1 /\ ~ (i <= p) /\ i - p \in 1 .. Len(s) + 1 - p /\ p + (i - p) - 1 = i - 1
    BY <1>1
  <2>2. QED
    BY <1>2, <1>4, <2>1
<1>6. InsertAt(s, p, e) = b \o c
  BY DEF InsertAt, a, b, c
<1>7. (b \o c)[p] = e /\ \A i \in 1 .. p - 1 : (b \o c)[i] = s[i]
  BY <1>1, <1>3, <1>4
<1>8. QED
  BY <1>4, <1>5, <1>6, <1>7 DEF IsInsertion

LEMMA InsertedAscends ==
  ASSUME NEW S, NEW s \in Seq(S), NEW e \in S, NEW p \in 1 .. Len(s) + 1, NEW R, Ascends(s, R),
         \A i \in 1 .. p - 1 : <<s[i], e>> \in R,
         \A i \in p .. Len(s) : <<e, s[i]>> \in R
  PROVE  Ascends(InsertAt(s, p, e), R)
<1> DEFINE w == InsertAt(s, p, e)
<1>1. /\ Len(s) \in Nat /\ p \in Nat /\ Len(w) = Len(s) + 1 /\ w[p] = e
      /\ \A i \in 1 .. p - 1 : w[i] = s[i]
      /\ \A i \in p + 1 .. Len(s) + 1 : w[i] = s[i - 1]
  <2>1. Len(s) \in Nat /\ p \in Nat
    OBVIOUS
  <2>2. IsInsertion(w, s, p, e, S)
    BY Inserted
  <2>3. QED
    BY <2>1, <2>2 DEF IsInsertion
<1> HIDE DEF w
<1>2. ASSUME NEW i \in 1 .. Len(w), NEW j \in 1 .. Len(w), i < j PROVE <<w[i], w[j]>> \in R
  <2>1. CASE j < p
    BY <1>1, <1>2, <2>1 DEF Ascends
  <2>2. CASE j = p
    BY <1>1, <1>2, <2>2
  <2>3. CASE j > p
    <3>1. j - 1 \in p .. Len(s) /\ j - 1 \in 1 .. Len(s) /\ w[j] = s[j - 1]
      BY <1>1, <2>3
    <3>2. CASE i < p
      BY <1>1, <3>1, <3>2 DEF Ascends
    <3>3. CASE i = p
      BY <1>1, <3>1, <3>3
    <3>4. CASE i > p
      <4>1. i - 1 \in 1 .. Len(s) /\ w[i] = s[i - 1] /\ i - 1 < j - 1
        BY <1>1, <1>2, <3>4
      <4>2. QED
        BY <3>1, <4>1 DEF Ascends
    <3>5. QED
      BY <1>1, <3>2, <3>3, <3>4
  <2>4. QED
    BY <1>1, <2>1, <2>2, <2>3
<1>3. QED
  BY <1>2 DEF Ascends, w

LEMMA InsertedElements ==
  ASSUME NEW S, NEW s \in Seq(S), NEW e \in S, NEW p \in 1 .. Len(s) + 1
  PROVE  Elements(InsertAt(s, p, e)) = Elements(s) \cup {e}
<1> DEFINE w == InsertAt(s, p, e)
<1>1. /\ Len(s) \in Nat /\ p \in Nat /\ DOMAIN s = 1 .. Len(s) /\ DOMAIN w = 1 .. Len(s) + 1 /\ w[p] = e
      /\ \A i \in 1 .. p - 1 : w[i] = s[i]
      /\ \A i \in p + 1 .. Len(s) + 1 : w[i] = s[i - 1]
  <2>1. Len(s) \in Nat /\ p \in Nat /\ DOMAIN s = 1 .. Len(s)
    OBVIOUS
  <2>2. IsInsertion(w, s, p, e, S)
    BY Inserted
  <2> HIDE DEF w
  <2>3. QED
    BY <2>1, <2>2 DEF IsInsertion
<1> HIDE DEF w
<1>2. ASSUME NEW i \in 1 .. Len(s) + 1 PROVE w[i] \in Elements(s) \cup {e}
  <2>1. CASE i < p
    BY <1>1, <2>1 DEF Elements
  <2>2. CASE i > p
    <3>1. i - 1 \in 1 .. Len(s) /\ w[i] = s[i - 1]
      BY <1>1, <2>2
    <3>2. QED
      BY <1>1, <3>1 DEF Elements
  <2>3. QED
    BY <1>1, <2>1, <2>2
<1>3. ASSUME NEW i \in 1 .. Len(s) PROVE s[i] \in Elements(w)
  <2>1. CASE i < p
    BY <1>1, <2>1 DEF Elements
  <2>2. CASE i >= p
    <3>1. i + 1 \in p + 1 .. Len(s) + 1 /\ i + 1 \in 1 .. Len(s) + 1 /\ (i + 1) - 1 = i
      BY <1>1, <2>2
    <3>2. w[i + 1] = s[i]
      BY <1>1, <3>1
    <3>3. QED
      BY <1>1, <3>1, <3>2 DEF Elements
  <2>3. QED
    BY <1>1, <2>1, <2>2
<1>4. e \in Elements(w)
  BY <1>1 DEF Elements
<1>5. QED
  BY <1>1, <1>2, <1>3, <1>4 DEF Elements, w

(* The first place in a list that something greater holds, or its end.     *)
LEMMA FirstGreater ==
  ASSUME NEW n \in Nat, NEW G
  PROVE  \E p \in 1 .. n + 1 : (\A j \in 1 .. p - 1 : j \notin G) /\ (p <= n => p \in G)
<1> DEFINE T == {p \in 1 .. n + 1 : p <= n => p \in G}
<1>1. T \in SUBSET Nat /\ n + 1 \in T
  OBVIOUS
<1>2. PICK p \in T : \A q \in T : p <= q
  <2> HIDE DEF T
  <2>1. QED
    BY <1>1, LeastNat
<1>3. \A j \in 1 .. p - 1 : j \in 1 .. n + 1 /\ j <= n /\ ~ (p <= j)
  OBVIOUS
<1>4. QED
  BY <1>2, <1>3

-----------------------------------------------------------------------------
(* The functions after the load *)

Infos == [priority : Priorities, nth : Nat]
RunsBefore == {xy \in Infos \X Infos :
                 \/ xy[1].priority < xy[2].priority
                 \/ xy[1].priority = xy[2].priority /\ xy[1].nth < xy[2].nth}

LEMMA InsertPlace ==
  ASSUME NEW funcs \in Seq(Infos), NEW info \in Infos
  PROVE  \E p \in 1 .. Len(funcs) + 1 :
           /\ Insert(funcs, info) = InsertAt(funcs, p, info)
           /\ \A j \in 1 .. p - 1 : funcs[j].priority <= info.priority
           /\ p <= Len(funcs) => funcs[p].priority > info.priority
<1> DEFINE n == Len(funcs)
           G == {j \in 1 .. n : funcs[j].priority > info.priority}
           P(p) == /\ \A j \in 1 .. p - 1 : funcs[j].priority <= info.priority
                   /\ p <= n => funcs[p].priority > info.priority
<1>1. n \in Nat /\ info.priority \in Int /\ \A j \in 1 .. n : funcs[j].priority \in Int
  <2>1. \A x \in Infos : x.priority \in Int
    BY ConfAssumption DEF Infos
  <2>2. \A j \in 1 .. n : funcs[j] \in Infos
    OBVIOUS
  <2>3. QED
    BY <2>1, <2>2
<1>2. PICK p \in 1 .. n + 1 : (\A j \in 1 .. p - 1 : j \notin G) /\ (p <= n => p \in G)
  <2> HIDE DEF G
  <2>1. QED
    BY <1>1, FirstGreater
<1>3. P(p)
  BY <1>1, <1>2
<1> DEFINE q == CHOOSE q \in 1 .. n + 1 : P(q)
<1>4. q \in 1 .. n + 1 /\ P(q)
  BY <1>3
<1>5. Insert(funcs, info) = InsertAt(funcs, q, info)
  BY DEF Insert
<1> HIDE DEF q
<1>6. QED
  BY <1>4, <1>5

(* The registrations, function by function. *)
Registers(r, n, priorities) ==
  /\ r \in [0 .. n -> Seq(Infos)] /\ r[0] = <<>> /\ r[n] = AfterLoadFuncs(priorities)
  /\ \A k \in 1 .. n : r[k] = Insert(r[k - 1], [priority |-> priorities[k], nth |-> k])

LEMMA RegistrationFold ==
  ASSUME NEW n \in Nat, NEW priorities \in [1 .. n -> Priorities]
  PROVE  \E r : Registers(r, n, priorities)
<1> DEFINE V == Seq(Infos)
           s == [k \in 1 .. n |-> [priority |-> priorities[k], nth |-> k]]
           step == [vk \in V \X (1 .. n) |-> Insert(vk[1], s[vk[2]])]
           F(f) == [t \in SUBSET DOMAIN s |->
                      IF t = {} THEN <<>> ELSE Insert(f[t \ {Max(t)}], s[Max(t)])]
           f == CHOOSE f : f = F(f)
<1>1. DOMAIN s = 1 .. n /\ DOMAIN priorities = 1 .. n /\ \A k \in 1 .. n : s[k] \in Infos
  BY DEF Infos
<1>2. step \in [V \X (1 .. n) -> V]
  <2>1. ASSUME NEW v \in V, NEW k \in 1 .. n PROVE Insert(v, s[k]) \in V
    BY <1>1, InsertPlace, Inserted DEF IsInsertion
  <2>2. QED
    BY <2>1
<1>3. PICK h : Iterates(h, n, V, <<>>, step)
  <2>1. <<>> \in V
    OBVIOUS
  <2> HIDE DEF V, step
  <2>2. QED
    BY <1>2, <2>1, IterateExists
<1>4. ASSUME NEW t \in SUBSET (1 .. n), t # {} PROVE IsGreatest(Max(t), t) /\ Max(t) \in 1 .. n
  BY <1>4, MaxIsGreatest DEF IsGreatest
<1>5. h = F(h)
  <2>1. ASSUME NEW t \in SUBSET (1 .. n), t # {} PROVE h[t] = Insert(h[t \ {Max(t)}], s[Max(t)])
    BY <1>3, <1>4, <2>1 DEF Iterates, IsGreatest
  <2>2. QED
    BY <1>1, <1>3, <2>1 DEF Iterates
<1>6. f = F(f) /\ f[1 .. n] = AfterLoadFuncs(priorities)
  <2>1. f = F(f)
    <3> HIDE DEF F
    <3>1. QED
      BY <1>5
  <2>2. AfterLoadFuncs(priorities) = FoldLeft(Insert, <<>>, s)
    BY <1>1 DEF AfterLoadFuncs
  <2> HIDE DEF s
  <2>3. FoldLeft(Insert, <<>>, s) = f[DOMAIN s]
    BY DEF FoldLeft, MapThenFoldSet
  <2>4. QED
    BY <1>1, <2>1, <2>2, <2>3
<1> HIDE DEF f
<1>7. Folds(f, n, V, <<>>, step)
  <2>1. ASSUME NEW t \in SUBSET (1 .. n), t # {}, f[t \ {Max(t)}] \in V
        PROVE  f[t] = step[<<f[t \ {Max(t)}], Max(t)>>]
    BY <1>1, <1>4, <1>6, <2>1
  <2>2. QED
    BY <1>1, <1>6, <2>1 DEF Folds
<1>8. PICK r : IsTrace(r, n, V, <<>>, step, f[1 .. n])
  <2>1. <<>> \in V
    OBVIOUS
  <2> HIDE DEF V, step
  <2>2. QED
    BY <1>2, <1>7, <2>1, FoldTrace
<1>9. ASSUME NEW k \in 1 .. n
      PROVE  r[k] = Insert(r[k - 1], [priority |-> priorities[k], nth |-> k])
  <2>1. k - 1 \in 0 .. n
    OBVIOUS
  <2>2. r[k - 1] \in V /\ r[k] = step[<<r[k - 1], k>>]
    <3> HIDE DEF V, step
    <3>1. QED
      BY <1>8, <2>1 DEF IsTrace
  <2>3. r[k] = Insert(r[k - 1], s[k])
    BY <2>2
  <2>4. QED
    BY <2>3
<1>10. r \in [0 .. n -> Seq(Infos)] /\ r[0] = <<>> /\ r[n] = AfterLoadFuncs(priorities)
  BY <1>6, <1>8 DEF IsTrace
<1>11. QED
  BY <1>9, <1>10 DEF Registers

LEMMA RegistrationOrder ==
  ASSUME NEW n \in Nat, NEW priorities \in [1 .. n -> Priorities]
  PROVE  /\ AfterLoadFuncs(priorities) \in Seq(Infos) /\ Len(AfterLoadFuncs(priorities)) = n
         /\ Ascends(AfterLoadFuncs(priorities), RunsBefore)
<1>1. PICK r : Registers(r, n, priorities)
  BY RegistrationFold
<1> DEFINE Good(k) == /\ Len(r[k]) = k /\ Ascends(r[k], RunsBefore)
                      /\ \A i \in 1 .. k : r[k][i].nth <= k
           T == {k \in 0 .. n : Good(k)}
<1>2. 0 \in T
  BY <1>1 DEF Registers, Ascends
<1>3. ASSUME NEW k \in 1 .. n, Good(k - 1) PROVE Good(k)
  <2> DEFINE info == [priority |-> priorities[k], nth |-> k]
             s == r[k - 1]
  <2>1. info \in Infos /\ s \in Seq(Infos) /\ r[k] = Insert(s, info) /\ info.nth = k
    <3>1. info \in Infos /\ info.nth = k
      BY DEF Infos
    <3>2. k - 1 \in 0 .. n
      OBVIOUS
    <3>3. QED
      BY <1>1, <3>1, <3>2 DEF Registers
  <2>2. Len(s) = k - 1 /\ Ascends(s, RunsBefore) /\ \A i \in 1 .. k - 1 : s[i].nth <= k - 1
    BY <1>3
  <2> HIDE DEF info, s
  <2>3. PICK p \in 1 .. Len(s) + 1 :
          /\ Insert(s, info) = InsertAt(s, p, info)
          /\ \A j \in 1 .. p - 1 : s[j].priority <= info.priority
          /\ p <= Len(s) => s[p].priority > info.priority
    BY <2>1, InsertPlace
  <2>4. \A j \in 1 .. k - 1 : s[j] \in Infos /\ s[j].priority \in Int /\ s[j].nth \in Nat
    <3>1. \A x \in Infos : x.priority \in Int /\ x.nth \in Nat
      BY ConfAssumption DEF Infos
    <3>2. QED
      BY <2>1, <2>2, <3>1
  <2>5. info.priority \in Int
    BY <2>1, ConfAssumption DEF Infos
  <2>6. \A j \in 1 .. p - 1 : <<s[j], info>> \in RunsBefore
    <3> SUFFICES ASSUME NEW j \in 1 .. p - 1 PROVE <<s[j], info>> \in RunsBefore
      OBVIOUS
    <3>1. /\ j \in 1 .. k - 1 /\ s[j] \in Infos /\ s[j].priority \in Int
          /\ s[j].nth < k /\ s[j].priority <= info.priority
      BY <2>2, <2>3, <2>4
    <3>2. \/ s[j].priority < info.priority
          \/ s[j].priority = info.priority /\ s[j].nth < info.nth
      BY <2>1, <2>5, <3>1
    <3>3. QED
      BY <2>1, <3>1, <3>2 DEF RunsBefore
  <2>7. \A j \in p .. Len(s) : <<info, s[j]>> \in RunsBefore
    <3> SUFFICES ASSUME NEW j \in p .. Len(s) PROVE <<info, s[j]>> \in RunsBefore
      OBVIOUS
    <3>1. p \in 1 .. k - 1 /\ j \in 1 .. k - 1 /\ s[p].priority > info.priority
      BY <2>2, <2>3
    <3>2. p < j => s[p].priority <= s[j].priority
      <4>1. p < j => <<s[p], s[j]>> \in RunsBefore
        BY <2>2, <3>1 DEF Ascends
      <4>2. QED
        BY <2>4, <3>1, <4>1 DEF RunsBefore
    <3>3. s[j].priority > info.priority
      BY <2>4, <2>5, <3>1, <3>2
    <3>4. QED
      BY <2>1, <2>4, <3>1, <3>3 DEF RunsBefore
  <2>8. Ascends(r[k], RunsBefore)
    BY <2>1, <2>2, <2>3, <2>6, <2>7, InsertedAscends
  <2>9. /\ Len(r[k]) = k /\ r[k][p] = info
        /\ \A i \in 1 .. p - 1 : r[k][i] = s[i]
        /\ \A i \in p + 1 .. k : r[k][i] = s[i - 1]
    <3>1. Len(s) + 1 = k
      BY <2>2
    <3>2. /\ Len(r[k]) = Len(s) + 1 /\ r[k][p] = info
          /\ \A i \in 1 .. p - 1 : r[k][i] = s[i]
          /\ \A i \in p + 1 .. Len(s) + 1 : r[k][i] = s[i - 1]
      BY <2>1, <2>3, Inserted DEF IsInsertion
    <3>3. QED
      BY <3>1, <3>2
  <2>10. ASSUME NEW i \in 1 .. k PROVE r[k][i].nth <= k
    <3>1. CASE i < p
      <4>1. i \in 1 .. k - 1 /\ r[k][i] = s[i]
        BY <2>2, <2>9, <3>1
      <4>2. QED
        BY <2>2, <2>4, <4>1
    <3>2. CASE i > p
      <4>1. i - 1 \in 1 .. k - 1 /\ r[k][i] = s[i - 1]
        BY <2>2, <2>9, <3>2
      <4>2. QED
        BY <2>2, <2>4, <4>1
    <3>3. CASE i = p
      BY <2>1, <2>9, <3>3
    <3>4. QED
      BY <2>2, <3>1, <3>2, <3>3
  <2>11. QED
    BY <2>8, <2>9, <2>10
<1>4. \A k \in 0 .. n - 1 : k \in T => k + 1 \in T
  <2> HIDE DEF Good
  <2> SUFFICES ASSUME NEW k \in 0 .. n - 1, Good(k) PROVE Good(k + 1)
    OBVIOUS
  <2>1. PICK j \in 1 .. n : j = k + 1 /\ j - 1 = k
    OBVIOUS
  <2>2. QED
    BY <1>3, <2>1
<1>5. n \in T
  <2> HIDE DEF T
  <2>1. 0 .. n \subseteq T
    BY <1>2, <1>4, IntervalInduction
  <2>2. QED
    BY <2>1
<1>6. QED
  BY <1>1, <1>5 DEF Registers

(* The functions after the load run in the order of their priorities,      *)
(* those of one priority in the order of their registration, for any       *)
(* number of functions in any order (AfterLoadOrder).                      *)
THEOREM FunctionsRunInOrder == Spec => []AfterLoadOrder
<1>1. AfterLoadOrder
  <2> SUFFICES ASSUME NEW n \in 0 .. MaxFuncs, NEW priorities \in [1 .. n -> Priorities]
               PROVE  LET funcs == AfterLoadFuncs(priorities) IN
                        /\ Len(funcs) = n
                        /\ \A i, j \in 1 .. n :
                             i < j => \/ funcs[i].priority < funcs[j].priority
                                      \/ /\ funcs[i].priority = funcs[j].priority
                                         /\ funcs[i].nth < funcs[j].nth
    BY DEF AfterLoadOrder
  <2>1. n \in Nat
    BY ConfAssumption
  <2> DEFINE funcs == AfterLoadFuncs(priorities)
  <2>2. Len(funcs) = n /\ Ascends(funcs, RunsBefore)
    BY <2>1, RegistrationOrder
  <2> HIDE DEF funcs
  <2>3. \A i, j \in 1 .. n : i < j => <<funcs[i], funcs[j]>> \in RunsBefore
    BY <2>2 DEF Ascends
  <2>4. ASSUME NEW x, NEW y, <<x, y>> \in RunsBefore
        PROVE  x.priority < y.priority \/ (x.priority = y.priority /\ x.nth < y.nth)
    BY <2>4 DEF RunsBefore
  <2>5. QED
    BY <2>2, <2>3, <2>4 DEF funcs
<1>2. QED
  BY <1>1, PTL DEF Spec

-----------------------------------------------------------------------------
(* The registrations of messages *)

Less == {xy \in Nat \X Nat : xy[1] < xy[2]}

(* What a list of length n holds, element by element. *)
LEMMA ElementsOfPrefix ==
  ASSUME NEW S, NEW s \in Seq(S)
  PROVE  /\ Elements(SubSeq(s, 1, 0)) = {} /\ Elements(SubSeq(s, 1, Len(s))) = Elements(s)
         /\ \A k \in 1 .. Len(s) :
              Elements(SubSeq(s, 1, k)) = Elements(SubSeq(s, 1, k - 1)) \cup {s[k]}
<1>1. SubSeq(s, 1, 0) = <<>> /\ SubSeq(s, 1, Len(s)) = s
  BY PrefixSteps
<1>2. ASSUME NEW k \in 1 .. Len(s)
      PROVE  Elements(SubSeq(s, 1, k)) = Elements(SubSeq(s, 1, k - 1)) \cup {s[k]}
  <2> DEFINE q == SubSeq(s, 1, k - 1)
  <2>1. SubSeq(s, 1, k) = Append(q, s[k]) /\ q \in Seq(S) /\ s[k] \in S
    BY PrefixSteps
  <2> HIDE DEF q
  <2>2. Elements(Append(q, s[k])) = Elements(q) \cup {s[k]}
    BY <2>1, ElementsOfAppend
  <2>3. QED
    BY <2>1, <2>2 DEF q
<1>3. Elements(<<>>) = {}
  BY DEF Elements
<1>4. QED
  BY <1>1, <1>2, <1>3

LEMMA NamePlace ==
  ASSUME NEW sorted \in Seq(Nat), NEW name \in Nat
  PROVE  \E p \in 1 .. Len(sorted) + 1 :
           /\ InsertName(sorted, name) = InsertAt(sorted, p, name)
           /\ \A j \in 1 .. p - 1 : sorted[j] <= name
           /\ p <= Len(sorted) => sorted[p] > name
<1> DEFINE n == Len(sorted)
           G == {j \in 1 .. n : sorted[j] > name}
           P(p) == /\ \A j \in 1 .. p - 1 : sorted[j] <= name
                   /\ p <= n => sorted[p] > name
<1>1. n \in Nat /\ \A j \in 1 .. n : sorted[j] \in Nat
  OBVIOUS
<1>2. PICK p \in 1 .. n + 1 : (\A j \in 1 .. p - 1 : j \notin G) /\ (p <= n => p \in G)
  <2> HIDE DEF G
  <2>1. QED
    BY <1>1, FirstGreater
<1>3. P(p)
  BY <1>1, <1>2
<1> DEFINE q == CHOOSE q \in 1 .. n + 1 : P(q)
<1>4. q \in 1 .. n + 1 /\ P(q)
  BY <1>3
<1>5. InsertName(sorted, name) = InsertAt(sorted, q, name)
  BY DEF InsertName
<1> HIDE DEF q
<1>6. QED
  BY <1>4, <1>5

LEMMA NameInserted ==
  ASSUME NEW sorted \in Seq(Nat), NEW name \in Nat
  PROVE  InsertName(sorted, name) \in Seq(Nat)
<1>1. PICK p \in 1 .. Len(sorted) + 1 : InsertName(sorted, name) = InsertAt(sorted, p, name)
  BY NamePlace
<1>2. InsertAt(sorted, p, name) \in Seq(Nat)
  BY Inserted DEF IsInsertion
<1>3. QED
  BY <1>1, <1>2

(* The sort, name by name. *)
Sorts(r, s) ==
  /\ r \in [0 .. Len(s) -> Seq(Nat)] /\ r[0] = <<>> /\ r[Len(s)] = Sorted(s)
  /\ \A k \in 1 .. Len(s) : r[k] = InsertName(r[k - 1], s[k])

LEMMA SortFold ==
  ASSUME NEW s \in Seq(Nat)
  PROVE  \E r : Sorts(r, s)
<1> DEFINE V == Seq(Nat)
           n == Len(s)
           step == [vk \in V \X (1 .. n) |-> InsertName(vk[1], s[vk[2]])]
           F(f) == [t \in SUBSET DOMAIN s |->
                      IF t = {} THEN <<>> ELSE InsertName(f[t \ {Max(t)}], s[Max(t)])]
           f == CHOOSE f : f = F(f)
<1>1. n \in Nat /\ DOMAIN s = 1 .. n /\ \A k \in 1 .. n : s[k] \in Nat
  OBVIOUS
<1>2. <<>> \in V /\ step \in [V \X (1 .. n) -> V]
  <2>1. ASSUME NEW v \in V, NEW k \in 1 .. n PROVE InsertName(v, s[k]) \in V
    BY <1>1, NameInserted
  <2>2. QED
    BY <2>1
<1>3. PICK h : Iterates(h, n, V, <<>>, step)
  <2> HIDE DEF V, step
  <2>1. QED
    BY <1>1, <1>2, IterateExists
<1>4. ASSUME NEW t \in SUBSET (1 .. n), t # {} PROVE IsGreatest(Max(t), t) /\ Max(t) \in 1 .. n
  BY <1>1, <1>4, MaxIsGreatest DEF IsGreatest
<1>5. h = F(h)
  <2>1. ASSUME NEW t \in SUBSET (1 .. n), t # {}
        PROVE  h[t] = InsertName(h[t \ {Max(t)}], s[Max(t)])
    BY <1>3, <1>4, <2>1 DEF Iterates, IsGreatest
  <2>2. QED
    BY <1>1, <1>3, <2>1 DEF Iterates
<1>6. f = F(f) /\ f[1 .. n] = Sorted(s)
  <2>1. f = F(f)
    <3> HIDE DEF F
    <3>1. QED
      BY <1>5
  <2>2. Sorted(s) = f[DOMAIN s]
    BY DEF Sorted, FoldLeft, MapThenFoldSet
  <2>3. QED
    BY <1>1, <2>1, <2>2
<1> HIDE DEF f
<1>7. Folds(f, n, V, <<>>, step)
  <2>1. ASSUME NEW t \in SUBSET (1 .. n), t # {}, f[t \ {Max(t)}] \in V
        PROVE  f[t] = step[<<f[t \ {Max(t)}], Max(t)>>]
    BY <1>1, <1>4, <1>6, <2>1
  <2>2. QED
    BY <1>1, <1>6, <2>1 DEF Folds
<1>8. PICK r : IsTrace(r, n, V, <<>>, step, f[1 .. n])
  <2> HIDE DEF V, step
  <2>1. QED
    BY <1>1, <1>2, <1>7, FoldTrace
<1>9. ASSUME NEW k \in 1 .. n PROVE r[k] = InsertName(r[k - 1], s[k])
  <2>1. k - 1 \in 0 .. n
    BY <1>1
  <2>2. r[k - 1] \in V /\ r[k] = step[<<r[k - 1], k>>]
    <3> HIDE DEF V, step
    <3>1. QED
      BY <1>8, <2>1 DEF IsTrace
  <2>3. QED
    BY <2>2
<1>10. r \in [0 .. n -> V] /\ r[0] = <<>> /\ r[n] = f[1 .. n]
  <2> HIDE DEF V, step
  <2>1. QED
    BY <1>8 DEF IsTrace
<1>11. QED
  BY <1>1, <1>6, <1>9, <1>10 DEF Sorts

(* Names that differ are sorted into an ascending list. *)
LEMMA SortedAscends ==
  ASSUME NEW s \in Seq(Nat), Distinct(s)
  PROVE  /\ Sorted(s) \in Seq(Nat) /\ Elements(Sorted(s)) = Elements(s)
         /\ Ascends(Sorted(s), Less)
<1> DEFINE E(k) == Elements(SubSeq(s, 1, k))
<1>1. /\ Len(s) \in Nat /\ E(0) = {} /\ E(Len(s)) = Elements(s)
      /\ \A k \in 1 .. Len(s) : E(k) = E(k - 1) \cup {s[k]} /\ s[k] \in Nat /\ s[k] \notin E(k - 1)
  <2>1. ASSUME NEW k \in 1 .. Len(s) PROVE s[k] \notin E(k - 1)
    <3>1. /\ Len(SubSeq(s, 1, k - 1)) = k - 1 /\ DOMAIN SubSeq(s, 1, k - 1) = 1 .. k - 1
          /\ \A i \in 1 .. k - 1 : SubSeq(s, 1, k - 1)[i] = s[i]
      OBVIOUS
    <3>2. QED
      BY <3>1 DEF Elements, Distinct
  <2>2. QED
    BY <2>1, ElementsOfPrefix
<1>2. PICK r : Sorts(r, s)
  BY SortFold
<1> HIDE DEF E
<1> DEFINE Good(k) == Elements(r[k]) = E(k) /\ Ascends(r[k], Less)
           T == {k \in 0 .. Len(s) : Good(k)}
<1>3. 0 \in T
  <2>1. Elements(<<>>) = {} /\ Ascends(<<>>, Less)
    BY DEF Elements, Ascends
  <2>2. r[0] = <<>>
    BY <1>2 DEF Sorts
  <2>3. E(0) = {} /\ 0 \in 0 .. Len(s)
    BY <1>1
  <2>4. Good(0)
    BY <2>1, <2>2, <2>3
  <2>5. QED
    BY <2>3, <2>4
<1>4. ASSUME NEW k \in 1 .. Len(s), Good(k - 1) PROVE Good(k)
  <2> DEFINE q == r[k - 1]
             e == s[k]
  <2>1. k - 1 \in 0 .. Len(s)
    BY <1>1
  <2>2. q \in Seq(Nat) /\ r[k] = InsertName(q, e) /\ e \in Nat
    BY <1>1, <1>2, <2>1 DEF Sorts
  <2>3. Elements(q) = E(k - 1) /\ Ascends(q, Less) /\ e \notin Elements(q) /\ E(k) = E(k - 1) \cup {e}
    BY <1>1, <1>4
  <2> HIDE DEF q, e
  <2>4. PICK p \in 1 .. Len(q) + 1 :
          /\ InsertName(q, e) = InsertAt(q, p, e)
          /\ \A j \in 1 .. p - 1 : q[j] <= e
          /\ p <= Len(q) => q[p] > e
    BY <2>2, NamePlace
  <2>5. Len(q) \in Nat /\ \A j \in 1 .. Len(q) : q[j] \in Nat /\ q[j] # e
    BY <2>2, <2>3 DEF Elements
  <2>6. \A j \in 1 .. p - 1 : <<q[j], e>> \in Less
    <3> SUFFICES ASSUME NEW j \in 1 .. p - 1 PROVE <<q[j], e>> \in Less
      OBVIOUS
    <3>1. j \in 1 .. Len(q) /\ q[j] <= e
      BY <2>4, <2>5
    <3>2. q[j] \in Nat /\ q[j] < e
      BY <2>2, <2>5, <3>1
    <3>3. QED
      BY <2>2, <3>2 DEF Less
  <2>7. \A j \in p .. Len(q) : <<e, q[j]>> \in Less
    <3> SUFFICES ASSUME NEW j \in p .. Len(q) PROVE <<e, q[j]>> \in Less
      OBVIOUS
    <3>1. p \in 1 .. Len(q) /\ j \in 1 .. Len(q) /\ q[p] > e
      BY <2>4, <2>5
    <3>2. p < j => <<q[p], q[j]>> \in Less
      BY <2>3, <3>1 DEF Ascends
    <3>3. p < j => q[p] < q[j]
      BY <3>2 DEF Less
    <3>4. e < q[j]
      <4>1. q[p] \in Nat /\ q[j] \in Nat
        BY <2>5, <3>1
      <4>2. CASE p = j
        BY <3>1, <4>2
      <4>3. CASE p < j
        BY <2>2, <3>1, <3>3, <4>1, <4>3
      <4>4. p = j \/ p < j
        BY <3>1
      <4>5. QED
        BY <4>2, <4>3, <4>4
    <3>5. QED
      BY <2>2, <2>5, <3>1, <3>4 DEF Less
  <2>8. Ascends(InsertAt(q, p, e), Less)
    BY <2>2, <2>3, <2>6, <2>7, InsertedAscends
  <2>9. Elements(InsertAt(q, p, e)) = Elements(q) \cup {e}
    <3>1. \A v \in Seq(Nat), x \in Nat : \A i \in 1 .. Len(v) + 1 :
            Elements(InsertAt(v, i, x)) = Elements(v) \cup {x}
      BY InsertedElements
    <3>2. QED
      BY <2>2, <3>1
  <2>10. QED
    BY <2>2, <2>3, <2>4, <2>8, <2>9
<1>5. \A k \in 0 .. Len(s) - 1 : k \in T => k + 1 \in T
  <2> SUFFICES ASSUME NEW k \in 0 .. Len(s) - 1, Good(k) PROVE Good(k + 1)
    BY <1>1
  <2>1. PICK j \in 1 .. Len(s) : j = k + 1 /\ j - 1 = k
    BY <1>1
  <2> HIDE DEF Good
  <2>2. QED
    BY <1>4, <2>1
<1>6. Good(Len(s))
  <2> HIDE DEF T
  <2>1. 0 .. Len(s) \subseteq T
    BY <1>1, <1>3, <1>5, IntervalInduction
  <2>2. QED
    BY <1>1, <2>1 DEF T
<1>7. QED
  BY <1>1, <1>2, <1>6 DEF Sorts

(* The messages of a file, line by line. *)
Lines == [atStart : BOOLEAN, name : Names]
Finds(r, s) ==
  /\ r \in [0 .. Len(s) -> Seq(Names)] /\ r[0] = <<>> /\ r[Len(s)] = parseProtoMessageNames(s)
  /\ \A k \in 1 .. Len(s) : r[k] = Find(r[k - 1], s[k])

LEMMA FindFold ==
  ASSUME NEW s \in Seq(Lines)
  PROVE  \E r : Finds(r, s)
<1> DEFINE V == Seq(Names)
           n == Len(s)
           step == [vk \in V \X (1 .. n) |-> Find(vk[1], s[vk[2]])]
           F(f) == [t \in SUBSET DOMAIN s |->
                      IF t = {} THEN <<>> ELSE Find(f[t \ {Max(t)}], s[Max(t)])]
           f == CHOOSE f : f = F(f)
<1>1. n \in Nat /\ DOMAIN s = 1 .. n /\ \A k \in 1 .. n : s[k] \in Lines
  OBVIOUS
<1>2. <<>> \in V /\ step \in [V \X (1 .. n) -> V]
  <2>1. ASSUME NEW v \in V, NEW k \in 1 .. n PROVE Find(v, s[k]) \in V
    BY <1>1 DEF Find, Lines
  <2>2. QED
    BY <2>1
<1>3. PICK h : Iterates(h, n, V, <<>>, step)
  <2> HIDE DEF V, step
  <2>1. QED
    BY <1>1, <1>2, IterateExists
<1>4. ASSUME NEW t \in SUBSET (1 .. n), t # {} PROVE IsGreatest(Max(t), t) /\ Max(t) \in 1 .. n
  BY <1>1, <1>4, MaxIsGreatest DEF IsGreatest
<1>5. h = F(h)
  <2>1. ASSUME NEW t \in SUBSET (1 .. n), t # {}
        PROVE  h[t] = Find(h[t \ {Max(t)}], s[Max(t)])
    BY <1>3, <1>4, <2>1 DEF Iterates, IsGreatest
  <2>2. QED
    BY <1>1, <1>3, <2>1 DEF Iterates
<1>6. f = F(f) /\ f[1 .. n] = parseProtoMessageNames(s)
  <2>1. f = F(f)
    <3> HIDE DEF F
    <3>1. QED
      BY <1>5
  <2>2. parseProtoMessageNames(s) = f[DOMAIN s]
    BY DEF parseProtoMessageNames, FoldLeft, MapThenFoldSet
  <2>3. QED
    BY <1>1, <2>1, <2>2
<1> HIDE DEF f
<1>7. Folds(f, n, V, <<>>, step)
  <2>1. ASSUME NEW t \in SUBSET (1 .. n), t # {}, f[t \ {Max(t)}] \in V
        PROVE  f[t] = step[<<f[t \ {Max(t)}], Max(t)>>]
    BY <1>1, <1>4, <1>6, <2>1
  <2>2. QED
    BY <1>1, <1>6, <2>1 DEF Folds
<1>8. PICK r : IsTrace(r, n, V, <<>>, step, f[1 .. n])
  <2> HIDE DEF V, step
  <2>1. QED
    BY <1>1, <1>2, <1>7, FoldTrace
<1>9. ASSUME NEW k \in 1 .. n PROVE r[k] = Find(r[k - 1], s[k])
  <2>1. k - 1 \in 0 .. n
    BY <1>1
  <2>2. r[k - 1] \in V /\ r[k] = step[<<r[k - 1], k>>]
    <3> HIDE DEF V, step
    <3>1. QED
      BY <1>8, <2>1 DEF IsTrace
  <2>3. QED
    BY <2>2
<1>10. QED
  BY <1>1, <1>6, <1>8, <1>9 DEF IsTrace, Finds

Declared(L) == {line.name : line \in {x \in L : x.atStart}}

LEMMA FileParsed ==
  ASSUME NEW s \in Seq(Lines)
  PROVE  /\ parseProtoMessageNames(s) \in Seq(Names)
         /\ Elements(parseProtoMessageNames(s)) = Declared(Elements(s))
<1> DEFINE E(k) == Elements(SubSeq(s, 1, k))
<1>1. /\ Len(s) \in Nat /\ E(0) = {} /\ E(Len(s)) = Elements(s)
      /\ \A k \in 1 .. Len(s) : E(k) = E(k - 1) \cup {s[k]} /\ s[k] \in Lines
  BY ElementsOfPrefix
<1>2. PICK r : Finds(r, s)
  BY FindFold
<1> HIDE DEF E
<1> DEFINE Good(k) == Elements(r[k]) = Declared(E(k))
           T == {k \in 0 .. Len(s) : Good(k)}
<1>3. 0 \in T
  <2>1. Elements(<<>>) = {} /\ Declared({}) = {}
    BY DEF Elements, Declared
  <2>2. r[0] = <<>>
    BY <1>2 DEF Finds
  <2>3. E(0) = {} /\ 0 \in 0 .. Len(s)
    BY <1>1
  <2>4. Good(0)
    BY <2>1, <2>2, <2>3
  <2>5. QED
    BY <2>3, <2>4
<1>4. ASSUME NEW k \in 1 .. Len(s), Good(k - 1) PROVE Good(k)
  <2>1. k - 1 \in 0 .. Len(s)
    BY <1>1
  <2>2. r[k - 1] \in Seq(Names) /\ r[k] = Find(r[k - 1], s[k]) /\ s[k].name \in Names
    BY <1>1, <1>2, <2>1 DEF Finds, Lines
  <2>3. Declared(E(k)) = IF s[k].atStart THEN Declared(E(k - 1)) \cup {s[k].name}
                         ELSE Declared(E(k - 1))
    BY <1>1 DEF Declared
  <2>4. Elements(Append(r[k - 1], s[k].name)) = Elements(r[k - 1]) \cup {s[k].name}
    BY <2>2, ElementsOfAppend
  <2>5. QED
    BY <1>4, <2>2, <2>3, <2>4 DEF Find
<1>5. \A k \in 0 .. Len(s) - 1 : k \in T => k + 1 \in T
  <2> SUFFICES ASSUME NEW k \in 0 .. Len(s) - 1, Good(k) PROVE Good(k + 1)
    BY <1>1
  <2>1. PICK j \in 1 .. Len(s) : j = k + 1 /\ j - 1 = k
    BY <1>1
  <2> HIDE DEF Good
  <2>2. QED
    BY <1>4, <2>1
<1>6. Good(Len(s))
  <2> HIDE DEF T
  <2>1. 0 .. Len(s) \subseteq T
    BY <1>1, <1>3, <1>5, IntervalInduction
  <2>2. QED
    BY <1>1, <2>1 DEF T
<1>7. QED
  BY <1>1, <1>2, <1>6 DEF Finds

(* The names that are taken, name by name. *)
Collects(r, s, names) ==
  /\ r \in [0 .. Len(s) -> Seq(Names)] /\ r[0] = names /\ r[Len(s)] = FoldLeft(Collect, names, s)
  /\ \A k \in 1 .. Len(s) : r[k] = Collect(r[k - 1], s[k])

LEMMA CollectFold ==
  ASSUME NEW s \in Seq(Names), NEW names \in Seq(Names)
  PROVE  \E r : Collects(r, s, names)
<1> DEFINE V == Seq(Names)
           n == Len(s)
           step == [vk \in V \X (1 .. n) |-> Collect(vk[1], s[vk[2]])]
           F(f) == [t \in SUBSET DOMAIN s |->
                      IF t = {} THEN names ELSE Collect(f[t \ {Max(t)}], s[Max(t)])]
           f == CHOOSE f : f = F(f)
<1>1. n \in Nat /\ DOMAIN s = 1 .. n /\ \A k \in 1 .. n : s[k] \in Names
  OBVIOUS
<1>2. names \in V /\ step \in [V \X (1 .. n) -> V]
  <2>1. ASSUME NEW v \in V, NEW k \in 1 .. n PROVE Collect(v, s[k]) \in V
    BY <1>1 DEF Collect
  <2>2. QED
    BY <2>1
<1>3. PICK h : Iterates(h, n, V, names, step)
  <2> HIDE DEF V, step
  <2>1. QED
    BY <1>1, <1>2, IterateExists
<1>4. ASSUME NEW t \in SUBSET (1 .. n), t # {} PROVE IsGreatest(Max(t), t) /\ Max(t) \in 1 .. n
  BY <1>1, <1>4, MaxIsGreatest DEF IsGreatest
<1>5. h = F(h)
  <2>1. ASSUME NEW t \in SUBSET (1 .. n), t # {}
        PROVE  h[t] = Collect(h[t \ {Max(t)}], s[Max(t)])
    BY <1>3, <1>4, <2>1 DEF Iterates, IsGreatest
  <2>2. QED
    BY <1>1, <1>3, <2>1 DEF Iterates
<1>6. f = F(f) /\ f[1 .. n] = FoldLeft(Collect, names, s)
  <2>1. f = F(f)
    <3> HIDE DEF F
    <3>1. QED
      BY <1>5
  <2>2. FoldLeft(Collect, names, s) = f[DOMAIN s]
    BY DEF FoldLeft, MapThenFoldSet
  <2>3. QED
    BY <1>1, <2>1, <2>2
<1> HIDE DEF f
<1>7. Folds(f, n, V, names, step)
  <2>1. ASSUME NEW t \in SUBSET (1 .. n), t # {}, f[t \ {Max(t)}] \in V
        PROVE  f[t] = step[<<f[t \ {Max(t)}], Max(t)>>]
    BY <1>1, <1>4, <1>6, <2>1
  <2>2. QED
    BY <1>1, <1>6, <2>1 DEF Folds
<1>8. PICK r : IsTrace(r, n, V, names, step, f[1 .. n])
  <2> HIDE DEF V, step
  <2>1. QED
    BY <1>1, <1>2, <1>7, FoldTrace
<1>9. ASSUME NEW k \in 1 .. n PROVE r[k] = Collect(r[k - 1], s[k])
  <2>1. k - 1 \in 0 .. n
    BY <1>1
  <2>2. r[k - 1] \in V /\ r[k] = step[<<r[k - 1], k>>]
    <3> HIDE DEF V, step
    <3>1. QED
      BY <1>8, <2>1 DEF IsTrace
  <2>3. QED
    BY <2>2
<1>10. r \in [0 .. n -> V] /\ r[0] = names /\ r[n] = f[1 .. n]
  <2> HIDE DEF V, step
  <2>1. QED
    BY <1>8 DEF IsTrace
<1>11. QED
  BY <1>1, <1>6, <1>9, <1>10 DEF Collects

Registrable(N) == {name \in N : isRegistrableMessageName(name)}

LEMMA NamesCollected ==
  ASSUME NEW s \in Seq(Names), NEW names \in Seq(Names)
  PROVE  LET c == FoldLeft(Collect, names, s) IN
           /\ c \in Seq(Names)
           /\ Elements(c) = Elements(names) \cup Registrable(Elements(s))
           /\ Distinct(names) => Distinct(c)
<1> DEFINE E(k) == Elements(SubSeq(s, 1, k))
<1>1. /\ Len(s) \in Nat /\ E(0) = {} /\ E(Len(s)) = Elements(s)
      /\ \A k \in 1 .. Len(s) : E(k) = E(k - 1) \cup {s[k]} /\ s[k] \in Names
  BY ElementsOfPrefix
<1>2. PICK r : Collects(r, s, names)
  BY CollectFold
<1> HIDE DEF E
<1> DEFINE Good(k) == /\ Elements(r[k]) = Elements(names) \cup Registrable(E(k))
                      /\ Distinct(names) => Distinct(r[k])
           T == {k \in 0 .. Len(s) : Good(k)}
<1>3. 0 \in T
  BY <1>1, <1>2 DEF Collects, Registrable
<1>4. ASSUME NEW k \in 1 .. Len(s), Good(k - 1) PROVE Good(k)
  <2>1. k - 1 \in 0 .. Len(s)
    BY <1>1
  <2>2. r[k - 1] \in Seq(Names) /\ r[k] = Collect(r[k - 1], s[k]) /\ s[k] \in Names
    BY <1>1, <1>2, <2>1 DEF Collects
  <2>3. Registrable(E(k)) = IF isRegistrableMessageName(s[k]) THEN Registrable(E(k - 1)) \cup {s[k]}
                            ELSE Registrable(E(k - 1))
    BY <1>1 DEF Registrable
  <2>4. /\ Elements(Append(r[k - 1], s[k])) = Elements(r[k - 1]) \cup {s[k]}
        /\ Distinct(r[k - 1]) /\ s[k] \notin Elements(r[k - 1]) => Distinct(Append(r[k - 1], s[k]))
    BY <2>2, ElementsOfAppend
  <2>5. ToSet(r[k - 1]) = Elements(r[k - 1])
    BY DEF ToSet, Elements
  <2>6. QED
    BY <1>4, <2>2, <2>3, <2>4, <2>5 DEF Collect
<1>5. \A k \in 0 .. Len(s) - 1 : k \in T => k + 1 \in T
  <2> SUFFICES ASSUME NEW k \in 0 .. Len(s) - 1, Good(k) PROVE Good(k + 1)
    BY <1>1
  <2>1. PICK j \in 1 .. Len(s) : j = k + 1 /\ j - 1 = k
    BY <1>1
  <2> HIDE DEF Good
  <2>2. QED
    BY <1>4, <2>1
<1>6. Good(Len(s))
  <2> HIDE DEF T
  <2>1. 0 .. Len(s) \subseteq T
    BY <1>1, <1>3, <1>5, IntervalInduction
  <2>2. QED
    BY <1>1, <2>1 DEF T
<1>7. QED
  BY <1>1, <1>2, <1>6 DEF Collects

LEMMA FileCollected ==
  ASSUME NEW names \in Seq(Names), NEW file \in Seq(Lines)
  PROVE  /\ CollectFile(names, file) \in Seq(Names)
         /\ Elements(CollectFile(names, file)) =
              Elements(names) \cup Registrable(Declared(Elements(file)))
         /\ Distinct(names) => Distinct(CollectFile(names, file))
<1> DEFINE p == parseProtoMessageNames(file)
<1>1. p \in Seq(Names) /\ Elements(p) = Declared(Elements(file))
  BY FileParsed
<1> HIDE DEF p
<1>2. CollectFile(names, file) = FoldLeft(Collect, names, p)
  BY DEF CollectFile, p
<1>3. QED
  BY <1>1, <1>2, NamesCollected

(* The names of a directory, file by file. *)
CollectsFiles(r, s) ==
  /\ r \in [0 .. Len(s) -> Seq(Names)] /\ r[0] = <<>> /\ r[Len(s)] = FoldLeft(CollectFile, <<>>, s)
  /\ \A k \in 1 .. Len(s) : r[k] = CollectFile(r[k - 1], s[k])

LEMMA DirFold ==
  ASSUME NEW s \in Seq(Seq(Lines))
  PROVE  \E r : CollectsFiles(r, s)
<1> DEFINE V == Seq(Names)
           n == Len(s)
           step == [vk \in V \X (1 .. n) |-> CollectFile(vk[1], s[vk[2]])]
           F(f) == [t \in SUBSET DOMAIN s |->
                      IF t = {} THEN <<>> ELSE CollectFile(f[t \ {Max(t)}], s[Max(t)])]
           f == CHOOSE f : f = F(f)
<1>1. n \in Nat /\ DOMAIN s = 1 .. n /\ \A k \in 1 .. n : s[k] \in Seq(Lines)
  OBVIOUS
<1>2. <<>> \in V /\ step \in [V \X (1 .. n) -> V]
  <2>1. ASSUME NEW v \in V, NEW k \in 1 .. n PROVE CollectFile(v, s[k]) \in V
    BY <1>1, FileCollected
  <2>2. QED
    BY <2>1
<1>3. PICK h : Iterates(h, n, V, <<>>, step)
  <2> HIDE DEF V, step
  <2>1. QED
    BY <1>1, <1>2, IterateExists
<1>4. ASSUME NEW t \in SUBSET (1 .. n), t # {} PROVE IsGreatest(Max(t), t) /\ Max(t) \in 1 .. n
  BY <1>1, <1>4, MaxIsGreatest DEF IsGreatest
<1>5. h = F(h)
  <2>1. ASSUME NEW t \in SUBSET (1 .. n), t # {}
        PROVE  h[t] = CollectFile(h[t \ {Max(t)}], s[Max(t)])
    BY <1>3, <1>4, <2>1 DEF Iterates, IsGreatest
  <2>2. QED
    BY <1>1, <1>3, <2>1 DEF Iterates
<1>6. f = F(f) /\ f[1 .. n] = FoldLeft(CollectFile, <<>>, s)
  <2>1. f = F(f)
    <3> HIDE DEF F
    <3>1. QED
      BY <1>5
  <2>2. FoldLeft(CollectFile, <<>>, s) = f[DOMAIN s]
    BY DEF FoldLeft, MapThenFoldSet
  <2>3. QED
    BY <1>1, <2>1, <2>2
<1> HIDE DEF f
<1>7. Folds(f, n, V, <<>>, step)
  <2>1. ASSUME NEW t \in SUBSET (1 .. n), t # {}, f[t \ {Max(t)}] \in V
        PROVE  f[t] = step[<<f[t \ {Max(t)}], Max(t)>>]
    BY <1>1, <1>4, <1>6, <2>1
  <2>2. QED
    BY <1>1, <1>6, <2>1 DEF Folds
<1>8. PICK r : IsTrace(r, n, V, <<>>, step, f[1 .. n])
  <2> HIDE DEF V, step
  <2>1. QED
    BY <1>1, <1>2, <1>7, FoldTrace
<1>9. ASSUME NEW k \in 1 .. n PROVE r[k] = CollectFile(r[k - 1], s[k])
  <2>1. k - 1 \in 0 .. n
    BY <1>1
  <2>2. r[k - 1] \in V /\ r[k] = step[<<r[k - 1], k>>]
    <3> HIDE DEF V, step
    <3>1. QED
      BY <1>8, <2>1 DEF IsTrace
  <2>3. QED
    BY <2>2
<1>10. r \in [0 .. n -> V] /\ r[0] = <<>> /\ r[n] = f[1 .. n]
  <2> HIDE DEF V, step
  <2>1. QED
    BY <1>8 DEF IsTrace
<1>11. QED
  BY <1>1, <1>6, <1>9, <1>10 DEF CollectsFiles

DeclaredIn(F) == UNION {Declared(Elements(file)) : file \in F}

LEMMA DirCollected ==
  ASSUME NEW s \in Seq(Seq(Lines))
  PROVE  LET c == FoldLeft(CollectFile, <<>>, s) IN
           c \in Seq(Names) /\ Distinct(c) /\ Elements(c) = Registrable(DeclaredIn(Elements(s)))
<1> DEFINE E(k) == Elements(SubSeq(s, 1, k))
<1>1. /\ Len(s) \in Nat /\ E(0) = {} /\ E(Len(s)) = Elements(s)
      /\ \A k \in 1 .. Len(s) : E(k) = E(k - 1) \cup {s[k]} /\ s[k] \in Seq(Lines)
  BY ElementsOfPrefix
<1>2. PICK r : CollectsFiles(r, s)
  BY DirFold
<1> HIDE DEF E
<1> DEFINE Good(k) == Distinct(r[k]) /\ Elements(r[k]) = Registrable(DeclaredIn(E(k)))
           T == {k \in 0 .. Len(s) : Good(k)}
<1>3. 0 \in T
  <2>1. Elements(<<>>) = {} /\ Distinct(<<>>) /\ Registrable(DeclaredIn({})) = {}
    BY DEF Elements, Distinct, DeclaredIn, Registrable
  <2>2. r[0] = <<>>
    BY <1>2 DEF CollectsFiles
  <2>3. E(0) = {} /\ 0 \in 0 .. Len(s)
    BY <1>1
  <2>4. Good(0)
    BY <2>1, <2>2, <2>3
  <2>5. QED
    BY <2>3, <2>4
<1>4. ASSUME NEW k \in 1 .. Len(s), Good(k - 1) PROVE Good(k)
  <2>1. k - 1 \in 0 .. Len(s)
    BY <1>1
  <2>2. r[k - 1] \in Seq(Names) /\ r[k] = CollectFile(r[k - 1], s[k]) /\ s[k] \in Seq(Lines)
    BY <1>1, <1>2, <2>1 DEF CollectsFiles
  <2>3. Registrable(DeclaredIn(E(k))) =
          Registrable(DeclaredIn(E(k - 1))) \cup Registrable(Declared(Elements(s[k])))
    BY <1>1 DEF DeclaredIn, Registrable
  <2>4. /\ Elements(r[k]) = Elements(r[k - 1]) \cup Registrable(Declared(Elements(s[k])))
        /\ Distinct(r[k - 1]) => Distinct(r[k])
    BY <2>2, FileCollected
  <2>5. QED
    BY <1>4, <2>3, <2>4
<1>5. \A k \in 0 .. Len(s) - 1 : k \in T => k + 1 \in T
  <2> SUFFICES ASSUME NEW k \in 0 .. Len(s) - 1, Good(k) PROVE Good(k + 1)
    BY <1>1
  <2>1. PICK j \in 1 .. Len(s) : j = k + 1 /\ j - 1 = k
    BY <1>1
  <2> HIDE DEF Good
  <2>2. QED
    BY <1>4, <2>1
<1>6. Good(Len(s))
  <2> HIDE DEF T
  <2>1. 0 .. Len(s) \subseteq T
    BY <1>1, <1>3, <1>5, IntervalInduction
  <2>2. QED
    BY <1>1, <2>1 DEF T
<1>7. QED
  BY <1>1, <1>2, <1>6 DEF CollectsFiles

(* The elements of a finite set, each once. *)
LEMMA SetAsSequence ==
  ASSUME NEW S, IsFiniteSet(S)
  PROVE  SetToSeq(S) \in Seq(S) /\ Distinct(SetToSeq(S)) /\ Elements(SetToSeq(S)) = S
<1> DEFINE n == Cardinality(S)
           s == SetToSeq(S)
<1>1. n \in Nat /\ ExistsBijection(1 .. n, S)
  BY FS_CardinalityType
<1>2. \E g \in [1 .. n -> S] : IsInjective(g)
  BY <1>1 DEF ExistsBijection, Bijection, Injection
<1>3. s \in [1 .. n -> S] /\ IsInjective(s)
  BY <1>2 DEF SetToSeq
<1> HIDE DEF s
<1>4. s \in Seq(S) /\ Len(s) = n /\ DOMAIN s = 1 .. n
  BY <1>1, <1>3
<1>5. Distinct(s)
  BY <1>3, <1>4 DEF Distinct, IsInjective
<1>6. IsOrderOf(s, S)
  BY <1>4, <1>5, OrdersOfFinite
<1>7. QED
  BY <1>4, <1>5, <1>6 DEF IsOrderOf, Elements, s

LEMMA BoundedIsSeq ==
  ASSUME NEW S, NEW n \in Nat, NEW s \in BoundedSeq(S, n)
  PROVE  s \in Seq(S)
  BY DEF BoundedSeq, SeqOf

(* The calls of one package. *)
Calls(p, names) == [i \in DOMAIN names |-> [pkg |-> p, name |-> names[i]]]

LEMMA CallsOfNames ==
  ASSUME NEW P, NEW p \in P, NEW names \in Seq(Nat)
  PROVE  /\ Calls(p, names) \in Seq([pkg : P, name : Nat]) /\ Len(Calls(p, names)) = Len(names)
         /\ \A i \in 1 .. Len(names) :
              Calls(p, names)[i] = [pkg |-> p, name |-> names[i]] /\ names[i] \in Elements(names)
<1>1. DOMAIN names = 1 .. Len(names) /\ Len(names) \in Nat /\ \A i \in 1 .. Len(names) : names[i] \in Nat
  OBVIOUS
<1>2. Calls(p, names) \in [1 .. Len(names) -> [pkg : P, name : Nat]]
  BY <1>1 DEF Calls
<1>3. QED
  BY <1>1, <1>2 DEF Calls, Elements

(* Two sequences, one after the other. *)
LEMMA Joined ==
  ASSUME NEW C, NEW x \in Seq(C), NEW y \in Seq(C)
  PROVE  /\ x \o y \in Seq(C) /\ Len(x \o y) = Len(x) + Len(y) /\ Len(x) \in Nat /\ Len(y) \in Nat
         /\ \A i \in 1 .. Len(x) : i \in 1 .. Len(x \o y) /\ (x \o y)[i] = x[i]
         /\ \A k \in 1 .. Len(y) : Len(x) + k \in 1 .. Len(x \o y) /\ (x \o y)[Len(x) + k] = y[k]
         /\ \A i \in 1 .. Len(x \o y) : i \in 1 .. Len(x) \/ \E k \in 1 .. Len(y) : i = Len(x) + k
<1>1. x \o y \in Seq(C) /\ Len(x \o y) = Len(x) + Len(y) /\ Len(x) \in Nat /\ Len(y) \in Nat
  OBVIOUS
<1>2. ASSUME NEW i \in 1 .. Len(x) PROVE i \in 1 .. Len(x \o y) /\ (x \o y)[i] = x[i]
  OBVIOUS
<1>3. ASSUME NEW k \in 1 .. Len(y)
      PROVE  Len(x) + k \in 1 .. Len(x \o y) /\ (x \o y)[Len(x) + k] = y[k]
  OBVIOUS
<1>4. ASSUME NEW i \in 1 .. Len(x \o y), i \notin 1 .. Len(x)
      PROVE  \E k \in 1 .. Len(y) : i = Len(x) + k
  <2>1. i - Len(x) \in 1 .. Len(y) /\ i = Len(x) + (i - Len(x))
    BY <1>1, <1>4
  <2>2. QED
    BY <2>1
<1>5. QED
  BY <1>1, <1>2, <1>3, <1>4

(* What two lists of names in order make a list of calls. *)
InOrder(calls, p, q, A, B) ==
  /\ ToSet(calls) = [pkg : {p}, name : A] \cup [pkg : {q}, name : B]
  /\ Len(calls) = Cardinality(ToSet(calls))
  /\ \A i, j \in DOMAIN calls : i < j =>
       \/ calls[i].pkg = p /\ calls[j].pkg = q
       \/ calls[i].pkg = calls[j].pkg /\ calls[i].name < calls[j].name

LEMMA CallsInOrder ==
  ASSUME NEW p, NEW q, p # q,
         NEW a \in Seq(Nat), NEW b \in Seq(Nat), Ascends(a, Less), Ascends(b, Less)
  PROVE  InOrder(Calls(p, a) \o Calls(q, b), p, q, Elements(a), Elements(b))
<1> DEFINE C == [pkg : {p, q}, name : Nat]
           x == Calls(p, a)
           y == Calls(q, b)
           calls == x \o y
           m == Len(a)
           n == Len(b)
<1>1. x \in Seq(C) /\ Len(x) = m
      /\ \A i \in 1 .. m : x[i] = [pkg |-> p, name |-> a[i]] /\ a[i] \in Elements(a)
  BY CallsOfNames
<1>2. y \in Seq(C) /\ Len(y) = n
      /\ \A i \in 1 .. n : y[i] = [pkg |-> q, name |-> b[i]] /\ b[i] \in Elements(b)
  BY CallsOfNames
<1>3. (\A i \in 1 .. m : a[i] \in Nat) /\ (\A i \in 1 .. n : b[i] \in Nat)
  OBVIOUS
<1> HIDE DEF C, x, y
<1>4. /\ calls \in Seq(C) /\ Len(calls) = m + n /\ m \in Nat /\ n \in Nat
      /\ \A i \in 1 .. m : i \in 1 .. Len(calls) /\ calls[i] = x[i]
      /\ \A k \in 1 .. n : m + k \in 1 .. Len(calls) /\ calls[m + k] = y[k]
      /\ \A i \in 1 .. Len(calls) : i \in 1 .. m \/ \E k \in 1 .. n : i = m + k
  <2>0. x \in Seq(C) /\ y \in Seq(C)
    BY <1>1, <1>2
  <2>1. /\ x \o y \in Seq(C) /\ Len(x \o y) = Len(x) + Len(y) /\ Len(x) \in Nat /\ Len(y) \in Nat
        /\ \A i \in 1 .. Len(x) : i \in 1 .. Len(x \o y) /\ (x \o y)[i] = x[i]
        /\ \A k \in 1 .. Len(y) : Len(x) + k \in 1 .. Len(x \o y) /\ (x \o y)[Len(x) + k] = y[k]
        /\ \A i \in 1 .. Len(x \o y) : i \in 1 .. Len(x) \/ \E k \in 1 .. Len(y) : i = Len(x) + k
    BY <2>0, Joined
  <2> HIDE DEF calls, m, n
  <2>2. calls = x \o y /\ Len(x) = m /\ Len(y) = n
    BY <1>1, <1>2 DEF calls
  <2>3. QED
    BY <2>1, <2>2
<1>5. DOMAIN calls = 1 .. m + n
  BY <1>4
<1> HIDE DEF calls, m, n
<1>6. ASSUME NEW i \in 1 .. m
      PROVE  i \in 1 .. m + n /\ calls[i] = [pkg |-> p, name |-> a[i]] /\ a[i] \in Elements(a)
  BY <1>1, <1>4
<1>7. ASSUME NEW k \in 1 .. n
      PROVE  m + k \in 1 .. m + n /\ calls[m + k] = [pkg |-> q, name |-> b[k]] /\ b[k] \in Elements(b)
  BY <1>2, <1>4
<1>8. \A i \in 1 .. m + n : i \in 1 .. m \/ \E k \in 1 .. n : i = m + k
  BY <1>4
<1>9. ToSet(calls) = [pkg : {p}, name : Elements(a)] \cup [pkg : {q}, name : Elements(b)]
  <2>1. ASSUME NEW i \in 1 .. m + n
        PROVE  calls[i] \in [pkg : {p}, name : Elements(a)] \cup [pkg : {q}, name : Elements(b)]
    <3>0. \A u, E : \A e \in E : [pkg |-> u, name |-> e] \in [pkg : {u}, name : E]
      OBVIOUS
    <3>1. ASSUME i \in 1 .. m PROVE calls[i] \in [pkg : {p}, name : Elements(a)]
      <4>1. calls[i] = [pkg |-> p, name |-> a[i]] /\ a[i] \in Elements(a)
        BY <1>6, <3>1
      <4>2. QED
        BY <3>0, <4>1
    <3>2. ASSUME NEW k \in 1 .. n, i = m + k
          PROVE  calls[i] \in [pkg : {q}, name : Elements(b)]
      <4>1. calls[i] = [pkg |-> q, name |-> b[k]] /\ b[k] \in Elements(b)
        BY <1>7, <3>2
      <4>2. QED
        BY <3>0, <4>1
    <3>3. QED
      BY <1>8, <3>1, <3>2
  <2>2. ASSUME NEW e \in Elements(a) PROVE [pkg |-> p, name |-> e] \in ToSet(calls)
    <3>1. PICK i \in 1 .. m : e = a[i]
      BY DEF Elements, m
    <3>2. QED
      BY <1>5, <1>6, <3>1 DEF ToSet
  <2>3. ASSUME NEW e \in Elements(b) PROVE [pkg |-> q, name |-> e] \in ToSet(calls)
    <3>1. PICK k \in 1 .. n : e = b[k]
      BY DEF Elements, n
    <3>2. QED
      BY <1>5, <1>7, <3>1 DEF ToSet
  <2>4. ToSet(calls) = {calls[i] : i \in 1 .. m + n}
    BY <1>5 DEF ToSet
  <2>5. QED
    BY <2>1, <2>2, <2>3, <2>4
<1>10. ASSUME NEW i \in 1 .. m + n, NEW j \in 1 .. m + n, i < j
       PROVE  /\ \/ calls[i].pkg = p /\ calls[j].pkg = q
                 \/ calls[i].pkg = calls[j].pkg /\ calls[i].name < calls[j].name
              /\ calls[i].name \in Nat
  <2>1. CASE i \in 1 .. m /\ j \in 1 .. m
    <3>1. <<a[i], a[j]>> \in Less
      BY <1>10, <2>1 DEF Ascends, m
    <3>2. a[i] < a[j] /\ a[i] \in Nat
      BY <3>1 DEF Less
    <3>3. calls[i] = [pkg |-> p, name |-> a[i]] /\ calls[j] = [pkg |-> p, name |-> a[j]]
      BY <1>6, <2>1
    <3>4. QED
      BY <3>2, <3>3
  <2>2. ASSUME i \in 1 .. m, NEW l \in 1 .. n, j = m + l
        PROVE  calls[i].pkg = p /\ calls[j].pkg = q /\ calls[i].name \in Nat
    <3>1. calls[i] = [pkg |-> p, name |-> a[i]] /\ calls[j] = [pkg |-> q, name |-> b[l]]
      BY <1>6, <1>7, <2>2
    <3>2. a[i] \in Nat
      BY <1>3, <2>2 DEF m
    <3>3. QED
      BY <3>1, <3>2
  <2>3. ASSUME NEW k \in 1 .. n, i = m + k, NEW l \in 1 .. n, j = m + l
        PROVE  calls[i].pkg = calls[j].pkg /\ calls[i].name < calls[j].name /\ calls[i].name \in Nat
    <3>1. k < l
      BY <1>4, <1>10, <2>3
    <3>2. <<b[k], b[l]>> \in Less
      BY <3>1 DEF Ascends, n
    <3>3. b[k] < b[l] /\ b[k] \in Nat
      BY <3>2 DEF Less
    <3>4. calls[i] = [pkg |-> q, name |-> b[k]] /\ calls[j] = [pkg |-> q, name |-> b[l]]
      BY <1>7, <2>3
    <3>5. QED
      BY <3>3, <3>4
  <2>4. ASSUME NEW k \in 1 .. n, i = m + k PROVE j \notin 1 .. m
    BY <1>4, <1>10, <2>4
  <2>5. QED
    BY <1>8, <2>1, <2>2, <2>3, <2>4
<1>11. ASSUME NEW i \in 1 .. m + n, NEW j \in 1 .. m + n, i < j PROVE calls[i] # calls[j]
  <2>1. CASE calls[i].pkg = p /\ calls[j].pkg = q
    BY <2>1
  <2>2. CASE calls[i].name < calls[j].name /\ calls[i].name \in Nat
    BY <2>2
  <2>3. QED
    BY <1>10, <1>11, <2>1, <2>2
<1>12. Len(calls) = Cardinality(ToSet(calls))
  <2>1. calls \in Injection(1 .. m + n, ToSet(calls))
    <3>1. calls \in [1 .. m + n -> ToSet(calls)]
      BY <1>4, <1>5 DEF ToSet
    <3>2. \A i, j \in 1 .. m + n : i < j \/ j < i \/ i = j
      BY <1>4
    <3>3. \A i, j \in 1 .. m + n : calls[i] = calls[j] => i = j
      BY <1>11, <3>2
    <3>4. IsInjective(calls)
      BY <1>5, <3>3 DEF IsInjective
    <3>5. QED
      BY <3>1, <3>4 DEF Injection
  <2>2. calls \in Surjection(1 .. m + n, ToSet(calls))
    BY <1>4, <1>5 DEF Surjection, ToSet
  <2>3. ExistsBijection(1 .. m + n, ToSet(calls))
    BY <2>1, <2>2 DEF ExistsBijection, Bijection
  <2>4. m + n \in Nat
    BY <1>4
  <2>5. QED
    BY <1>4, <2>3, <2>4, FS_CountingElements
<1>13. \A i, j \in DOMAIN calls : i < j =>
         \/ calls[i].pkg = p /\ calls[j].pkg = q
         \/ calls[i].pkg = calls[j].pkg /\ calls[i].name < calls[j].name
  BY <1>5, <1>10
<1>14. InOrder(calls, p, q, Elements(a), Elements(b))
  BY <1>9, <1>12, <1>13 DEF InOrder
<1>15. QED
  BY <1>14 DEF calls, x, y

(* Whatever files its messages are written in, a register.go registers     *)
(* first the common messages of its target and then its registrable ones,  *)
(* sorted and each of them once, for any messages and any number of files  *)
(* and lines (RegistersEachOnce).                                          *)
THEOREM MessagesRegisteredOnce == Spec => []RegistersEachOnce
<1>1. ASSUME NEW dir \in Directories, NEW target \in Targets
      PROVE  LET calls == RegisterFile(target, dir)
                 names == {n \in Names : isRegistrableMessageName(n) /\
                             \E f \in DOMAIN dir : [atStart |-> TRUE, name |-> n] \in ToSet(dir[f])}
                 own == {n \in DOMAIN CommonFor : target \in CommonFor[n]}
             IN  /\ ToSet(calls) = [pkg : {"common"}, name : own] \cup [pkg : {target}, name : names]
                 /\ Len(calls) = Cardinality(ToSet(calls))
                 /\ \A i, j \in DOMAIN calls : i < j =>
                      \/ calls[i].pkg = "common" /\ calls[j].pkg # "common"
                      \/ calls[i].pkg = calls[j].pkg /\ calls[i].name < calls[j].name
  <2> DEFINE names == {n \in Names : isRegistrableMessageName(n) /\
                         \E f \in DOMAIN dir : [atStart |-> TRUE, name |-> n] \in ToSet(dir[f])}
             own == {n \in DOMAIN CommonFor : target \in CommonFor[n]}
             a == commonMessagesFor(target)
             b == parseRegistrableMessageNamesInDir(dir)
  <2>1. dir \in Seq(Seq(Lines))
    <3>1. dir \in Seq(ProtoFiles)
      BY ProtoAssumption, BoundedIsSeq DEF Directories
    <3>2. \A file \in ProtoFiles : file \in Seq(Lines)
      BY ProtoAssumption, BoundedIsSeq DEF ProtoFiles, Lines
    <3>3. QED
      BY <3>1, <3>2
  <2>2. a \in Seq(Nat) /\ Elements(a) = own /\ Ascends(a, Less)
    <3>1. IsFiniteSet(own) /\ own \subseteq Nat
      BY ProtoAssumption, FS_Subset
    <3>2. a = Sorted(SetToSeq(own))
      BY DEF commonMessagesFor
    <3> HIDE DEF own, a
    <3>3. SetToSeq(own) \in Seq(own) /\ Distinct(SetToSeq(own)) /\ Elements(SetToSeq(own)) = own
      BY <3>1, SetAsSequence
    <3>4. SetToSeq(own) \in Seq(Nat)
      <4>1. \A S, T : S \subseteq T => Seq(S) \subseteq Seq(T)
        OBVIOUS
      <4>2. QED
        BY <3>1, <3>3, <4>1
    <3>5. QED
      BY <3>2, <3>3, <3>4, SortedAscends
  <2>3. b \in Seq(Nat) /\ Elements(b) = names /\ Ascends(b, Less)
    <3> DEFINE c == FoldLeft(CollectFile, <<>>, dir)
    <3>1. c \in Seq(Names) /\ Distinct(c) /\ Elements(c) = Registrable(DeclaredIn(Elements(dir)))
      BY <2>1, DirCollected
    <3>2. b = Sorted(c)
      BY DEF parseRegistrableMessageNamesInDir
    <3> HIDE DEF c, b, names
    <3>3. c \in Seq(Nat)
      BY <3>1, ProtoAssumption
    <3>4. b \in Seq(Nat) /\ Elements(b) = Registrable(DeclaredIn(Elements(dir))) /\ Ascends(b, Less)
      BY <3>1, <3>2, <3>3, SortedAscends
    <3>5. Registrable(DeclaredIn(Elements(dir))) = names
      <4>1. ASSUME NEW n, NEW f \in DOMAIN dir
            PROVE  n \in Declared(Elements(dir[f])) <=>
                     n \in Names /\ [atStart |-> TRUE, name |-> n] \in Elements(dir[f])
        <5>1. \A x \in Elements(dir[f]) : x \in Lines
          BY <2>1 DEF Elements
        <5>2. \A x \in Lines : x.atStart => x = [atStart |-> TRUE, name |-> x.name] /\ x.name \in Names
          BY DEF Lines
        <5>3. QED
          BY <5>1, <5>2 DEF Declared
      <4>2. \A n : n \in DeclaredIn(Elements(dir)) <=> \E f \in DOMAIN dir : n \in Declared(Elements(dir[f]))
        <5>1. Elements(dir) = {dir[f] : f \in DOMAIN dir}
          BY <2>1 DEF Elements
        <5>2. QED
          BY <5>1 DEF DeclaredIn
      <4>3. \A f \in DOMAIN dir : ToSet(dir[f]) = Elements(dir[f])
        BY DEF ToSet, Elements
      <4>4. \A n : n \in Registrable(DeclaredIn(Elements(dir))) <=> n \in names
        BY <4>1, <4>2, <4>3 DEF Registrable, names
      <4>5. QED
        BY <4>4
    <3>6. QED
      BY <3>4, <3>5
  <2>4. RegisterFile(target, dir) = Calls("common", a) \o Calls(target, b)
    BY DEF RegisterFile, generateRegisterFile, Calls
  <2>5. "common" # target
    BY DEF Targets
  <2> HIDE DEF names, own, a, b
  <2>6. InOrder(Calls("common", a) \o Calls(target, b), "common", target, own, names)
    BY <2>2, <2>3, <2>5, CallsInOrder
  <2> DEFINE calls == RegisterFile(target, dir)
  <2>7. InOrder(calls, "common", target, own, names)
    BY <2>4, <2>6
  <2> HIDE DEF calls
  <2>8. /\ ToSet(calls) = [pkg : {"common"}, name : own] \cup [pkg : {target}, name : names]
        /\ Len(calls) = Cardinality(ToSet(calls))
        /\ \A i, j \in DOMAIN calls : i < j =>
             \/ calls[i].pkg = "common" /\ calls[j].pkg # "common"
             \/ calls[i].pkg = calls[j].pkg /\ calls[i].name < calls[j].name
    <3>1. /\ ToSet(calls) = [pkg : {"common"}, name : own] \cup [pkg : {target}, name : names]
          /\ Len(calls) = Cardinality(ToSet(calls))
      BY <2>7 DEF InOrder
    <3>2. \A i, j \in DOMAIN calls : i < j =>
            \/ calls[i].pkg = "common" /\ calls[j].pkg = target
            \/ calls[i].pkg = calls[j].pkg /\ calls[i].name < calls[j].name
      BY <2>7 DEF InOrder
    <3>3. \A j \in DOMAIN calls : calls[j].pkg = target => calls[j].pkg # "common"
      BY <2>5
    <3>4. QED
      BY <3>1, <3>2, <3>3
  <2>9. QED
    BY <2>8 DEF calls, names, own
<1>2. RegistersEachOnce
  BY <1>1 DEF RegistersEachOnce
<1>3. QED
  BY <1>2, PTL DEF Spec

=============================================================================
