# A verification of ggs

ggs is a game server in Go: a **gateway** (`app/agent`) keeps the connections of the
clients, **game servers** (`app/game`) run one actor per player on the `gactor`
framework, a **login service** and a **platform service** (`app/login`, `app/platform`)
answer HTTP requests, and MongoDB and Redis hold what survives a process. A test client
(`app/client`) uses all of them. This directory models the parts in which processes,
goroutines, timers and failures meet, checks them with TLC and proves the most important
results with TLAPS.

Paths below are relative to the repository's root. Line numbers of every definition are in
`PROJECT.json` under `map`.

## 1. Inventory

| Component | State | Operations | Modelled by |
|---|---|---|---|
| Actor persistence (`internal/infra/actor`: `actor.go`, `persist.go`, `persist/`, `model/`) | model, dirty marks (`Dirties`), save timer, document | start/load, change, snapshot and queue, result, stop/save, crash | `ActorPersist`, `ModuleStore` |
| Background database (`internal/infra/mongobd`) | queues of the workers, bounded channel `done`, consumers | `New`, `Add`, `opConsumer`, `consumeOp`, `Stop` | `MongoBD`, `OpLifetimes` |
| Player actor (`actors/player.go`, `game/internal/handler/player`) | `isLogin`, `heartbeatTimerId`, `lastHeartbeatTime` | login, heartbeat, timer, logout, connect, disconnect | `PlayerSession`; its answers in `Dispatch` |
| Message dispatch (`internal/infra/actor/handler`) | handler map, queue of pushes | `Handle`, `WrapReqFunc`, `checkLogin` | `Dispatch` |
| Game systems (`systems/`, `model/player`) | items, names, version | `InitPlayer`, `UseItem`, `ModifyName` | `ActorPersist` (as changes), `Dispatch` (the bag) |
| Game server process (`game/internal/app`) | main's progress, connections, actor service | start, stop, packets, save callbacks | `GameServer` |
| Configuration tables (`internal/gdconf`, `tools/gen_gdconf`) | stored tables, loaded tables and indices | load in pages, functions after the load, publication | `GdConf` |
| Registration of messages (`protocol/tools/gen_register`) | none: functions of proto files | parse, select, sort, generate | `ProtoRegistry` |
| Gateway: agents (`agent/internal/infra/agent`, `app/actor.go`) | per agent: stop flag, `chStop`, `stopReason`, player, session, pending packets; registry; login lock | `readLoop`, `pendingPacketLoop`, login, `Stop`, callbacks of the actor client | `AgentSessions` |
| Gateway process: start, stop, listener, key exchange, location of players | steps of `Start`/`Stop`, one connection, the location in the registry | accept, exchange keys, locate, connect, close | `Gateway` |
| Node selector (`infra/router`, `app/cluster.go`) | groups of nodes | `SetNodes`, `UpdateEvents`, `PickGame` | `NodeSelector` |
| Test client (`app/client`) | state, one outstanding request, `chResp`, tickers | HTTP requests, `sendReq`, stream reader, commands | `Client` |
| Login service: accounts (`middleware/auth.go`, `mongo/repo/account.go`) | accounts, id counter | `Auth`, `getOrCreateAccount` | `LoginService` |
| Login service: characters (`handlers/character.go`, `mongo/repo/character.go`) | characters, id counter, account lock, actor servers, tokens | create, list, log in | `LoginService`, `Services` |
| Platform service (`platform/internal`) | servers, actor registry, unique indexes | start, create a server, stop | `Services` |
| Packet framing, crypto (`base/net`, `base/crypto`) | none / one connection | frames, encryption | a packet is a whole message in `Client` |
| Generated protobuf code | none | | not modelled |

**How they interact.** The platform creates servers. A client asks the login service for a
character on one of them and for a token, then opens a connection to a gateway. The agent
of that connection checks the token, takes the login lock in Redis, stops the agent that
serves the character, locates the actor's node (the registry, or a node the selector
picks), connects a session to the player actor and registers itself. From then on its
reader forwards packets to the actor, and the callbacks of the actor client hand the
actor's packets to its writer. The actor handles one message at a time, marks what it
changes and saves it through `mongobd`, whose consumers cast the result back to it. When
an actor disconnects a session, the gateway's `HandleDisconnect` stops the agent. Each
process starts and stops its parts in a fixed order while all this goes on.

**What is hard.** Results that come back after the state they describe has changed
(saves, disconnects, timers, responses); stops that run in any goroutine while the loops
of the agent run on; two logins of one character; locks that expire under their holder;
commands whose answer is lost; processes that die between two steps; parts that are
stopped while others still use them; events that are applied in batches. `PROJECT.json`
lists the places under `hazards`, each with the properties that watch it.

## 2. Modules

### ModuleStore, ActorPersist
`ModuleStore` is the promise of persistence to the rest of the game: parts of a model that
are counted in changes, a store that only moves forward towards values the memory has held,
a start that begins exactly from the store, a stop or crash that may lose the end.

`ActorPersist` is one actor with its pipeline. Each handler is one action, because gactor
runs the messages and timers of an actor one at a time. `Start*` are the outcomes of
`OnStart` (a document, none, a failed load); `InitPlayer` and `Change(m)` mark and arm the
save timer (`SetDirtyModules`, `OnModelDirty`); `SaveTimerFires` is `onSaveTimer` with
`AsyncSaveModel`: a snapshot of the dirty parts goes into `queue` and the **marks stay**;
`SaveTimerRefused` is a full queue; `WorkerExecutes(result, hit)` applies an operation or
not, and reports success or an error; `ConsumerTakes` and `ConsumerCasts` are two steps of
each consumer, so that results overtake each other; `HandleSaved` clears **all** marks,
`HandleSaveFailed` arms the timer; `Stop*` are the outcomes of `OnStop`, with `Exec` in
the same order as the queue when `ExecOrdered`; `Crash` loses everything but the document.
Data are counters: how many changes does a part contain, in memory, in an operation, in
the document. Two history variables: `raced`, the parts changed while a save was outstanding and
not snapshotted since without one; `lost`, the result of a save was not cast, and nothing
has armed the timer or restarted the actor since.

### OpLifetimes, MongoBD, GdConf, ProtoRegistry, GameServer
`OpLifetimes` is what the background database promises: an accepted operation is executed
once, then called back once, and `Stop` returns when nothing is left. `MongoBD` has the
bounded queues of the workers, the operation each worker holds while it waits for room in
`done`, and the consumers. `BDStop` is `Stop` in the order of the code: the core (external)
drains its workers, `done` is closed, the consumers empty it.

`GdConf` is the loading of the tables: the global table, the items in pages of
`LoadBatchSize` by skip and limit, then the functions registered for after the load, here
the one that builds the index of levels. `Drop` and `Export` are `gen_gdconf`, which may
run at the same time. The rows are stored in any order. `AfterLoadFuncs` is the list that
`RegisterAfterLoadFunc` builds, a fold of `Insert`. `ProtoRegistry` is the generator that
decides what a process registers when it starts, as functions of the lines of proto files;
names are numbers, which keep their order. Its loops are folds: `Find` over the lines of a
file, `Collect` over the names found in it, `CollectFile` over the files; `Sorted` stands for
`sort.Strings`, as an insertion sort.

`GameServer` EXTENDS these three and runs one process: `phase` is what `main` does, `up`
the resources that are usable, `service` the actor service. `HandlePacket`, `Answer`,
`AsyncSave`, `SaveCallback`, `StopOne` are its actors, with what they change reduced to
*dirty or not* (`ActorPersist` has the rest). `startCluster` is two steps: `StartCluster`,
from which on packets arrive, and `AssignCluster`, from which on the actors can send. An
`Answer` in between goes through a nil `a.cluster`: it is lost, or the process ends, as
nothing in `src/` recovers the panic and gactor is not there to read.

### AgentSessions
One gateway process. `Agents` are accepted connections; `reader[a]` and `writer[a]` are
the program counters of the two loops, `stopPc[a]` that of the body of `stop()`, which runs
step by step in the goroutine that won the compare-and-swap: the reader of another agent
(a kick, `awaits`), its own loops, or a callback. The login has one action per statement
that other goroutines can see: `LockLogin`, then `FindAnother`, `RemoveAnother` and
`StopAnother` (lines 79 to 81 of `hook_login.go`), `ConnectPlayer`, `AssignPlayer`,
`AssignSid`, `AddAgent`, `ForwardLogin`, `UnlockLogin`. Every call may fail, and a call over
the network may fail *after* it took effect:

- `LockTimeout` may leave a lock taken, when the answer of Redis is lost;
- `ConnectFails` may leave a session open with the actor, when its answer is lost;
- `StopDisconnects` may leave the session, as the error of `disconnectPlayer` is only logged;
- `UnlockLogin` may leave the lock, as the error of `Unlock` is ignored and its context runs
  since before the `Lock`;
- `ForwardFails` is followed by `AbortLogin`: `DelAgent` and `Stop` are two statements.

`registry` is `internal.agents`, `lock` the Redis lock per account, whose owner is `Left`
when nobody will release it, `session` what the game server believes. `callback` is what
each goroutine of the actor client has in its hands between `GetAgent` and what it does with
the agent: it waits for room in `chPendingPackets` (`Enqueue`), gets `ErrStopped`
(`ReceiveStopped`), or stops the agent (`CallbackStops`: an error, a disconnect,
`StopAllAgents`). In between the agent may have been replaced. History variables: `robbed`,
agents whose entry was deleted by the stop of another agent; `lost`, the sessions of the
second and third item above.

### NodeSelector, Gateway, Client, Dispatch, ClientAtGateway
`NodeSelector` has the center of the cluster (external), its events, the events the gateway
has not handled (`log`), and `ring`, the groups as the gateway knows them. `UpdateEvents(k)`
handles a batch of `k` events, group by group, as the code does (`UpdatesOf`, `UpdateOp`:
folds over the batch). `getActorNodeGroup` is the
game server's name for the same group.

`Gateway` EXTENDS it: `StartOrder` and `StopOrder` are the steps of `Start` and `Stop`;
`conn` is one connection from the listener to its end; `location` the node registered for
the player, which expires. Between agents only the connection counts here, their
interleavings are `AgentSessions`.

`Client` is the test client: `sendReq` in the steps at which the reader of the stream may
interleave (`Lock` with the emptying of `chResp`, `Send` with `reqSeq`, then
`TakeResponse` or `TimesOut`), `ReadMsg` with the compare-and-swap, `PutResponse` with the
bounded channel. Every visit of `statePlay` starts another ticker, because Ctrl-D only
leaves `run` (`EndOfFile`). `strayed` and `foreign` are history variables.

`Dispatch` is what the player actor answers: the handler map, `checkLogin`, the reply and
the pushes after it, and the bag of items with sums that wrap around like int64. The errors
of `Reply` and of `PushRawMessage` are ignored, so `WrapReq` is a set: the reply, the push,
both or neither go out. The `seq` of a push is history: the request it is about.
`ClientAtGateway` composes the three: the connection has two ends, requests go `up` and
messages come `down` in order.

### LoginService, Services
`LoginService`: HTTP requests that create characters: `Authenticate` (find, generate an id, upsert) and
`Create` (lock, two counts, refresh, id, insertion, actor server, unlock), one action per
command of MongoDB or Redis. `Fails` ends a request at any point; `CreateOrGetAccount`,
`LockAccount`, `InsertCharacter` and `SetActorServer` may take effect and lose their answer;
`Unlock` may fail. The lock is kept by its holder (`ttl[r]`, the time left), a `Tick` lets
time pass for locks and for the commands between the refresh and the insertion, which take
at most `Latency`. Duration matters nowhere else: before the refresh the code asks Redis
whether it still holds the lock. `late` is a history variable: the characters that were
inserted when their request did not hold the lock any more.

`Services` EXTENDS it with everything else of the two HTTP services: the steps of start and
stop, with `HasClients` as the guard of every command; the check of the server before a
creation, lists, `handleCharacterLogin` with its token; the platform's
`handleServerCreate` as insertion and registration, each of which may fail or lose its
answer; the death of the platform and its restart. The steps of a creation are the actions of
`LoginService` themselves.

### PlayerSession
The login state of one player actor. The clients connect one after the other; `box` is the
message box with the age of each message; a login keeps the actor `busy` until the server
actor has answered (`FinishLogin`, which may fail *after* `SetLogin`). `TimerFires` puts
the id of the timer into the box, and `HandleStaleTimer`, `HandleTimer` and `LogOut` are the
branches of `onHeartbeatTimer`. `OnConnected` and `OnDisconnected` change nothing, as in the code.
A client is `fresh` after its login, `beating` after its first heartbeat, `mute` when it
falls silent before that and `silent` when after.

### What is external
gactor, ggskit, MongoDB and Redis are not in the repository; they are modelled from how the
code uses them: one message at a time per actor, a message of a session that is not
connected does not reach a handler, one-shot timers whose message may still be in the box
when they are stopped, a service whose `Stop` returns when its actors have stopped, a core
of `mongobd` that has drained its workers when its `Stop` returns (`done` is closed right
after it), atomic commands of the databases, a Redis lock that only its holder can refresh
or release, a center that sends its events in order.

The unique indexes of `internal/infra/mongo/models` are created by the platform service
only. `Services` therefore lets the login service serve once the platform has created
them: an assumption about the deployment, which no code of the login service checks.

## 3. Runs

| Run | Instance | Question and answer |
|---|---|---|
| `ActorPersist` | 2 modules and the version, 2 consumers, 2 changes, 3 saves in flight; casts and saves fail; fairness | `NoForgottenChange`: outside `raced`, a part that differs from the document is marked. `StoreRefined`: the whole implements `ModuleStore`. `ChangeIsStored`: a change outside the race is stored while the actor runs, unless a result was lost. |
| `ActorPersistFaults` | the same, loads fail, synchronous saves overtake queued ones | `DirtyIsScheduled`: marks always have a timer or an outstanding save behind them, unless a result was lost. |
| `AgentSessions` | 2 connections, 1 callback, 1 character, 2 sessions, 1 packet pending | `LiveIsRegistered`, `StoppedLeavesNothing` (but for `lost`), `LockHeldInLogin`, `AddNeverOverwrites`. |
| `AgentSessionsLive` | 1 connection, 1 callback, 2 characters, second logins, locks that expire, fairness | `LiveIsRegistered` when a client changes its character; `StopCompletes`; `CallbackReturns`: a callback that waits for a full queue is released by the stop. |
| `Services` | up to 3 requests of 1 or 2 users, 2 servers, 2 creations of servers, 2 characters per account, 1 per server, commands of 5 s under a lock of 10 s (units of 5 s) | `OneAccountPerUser`, `LimitUnderLock`, `ReportedIsPlayable`, `ReportedServerRuns`, `CharactersHaveServers`, `TokenNamesOwner`. |
| `PlayerSession` | 3 clients, times in units of 5 s: interval 6, timeout 9, answer 1, wait 1, fairness | `PunctualStays`, `MuteIsLoggedOut`. |
| `GameServer` | 3 saves of 2 actors, 2 workers with queues of 2, `done` of 1, 2 consumers, 2 rows in pages of 1, 1 publication, up to 4 functions after the load, 2 files of 2 messages, fairness | `RunsWithEverything`, `AnswersGoOut`, `NothingAfterDisconnect`, `TableIsWhole`, `AfterLoadOrder`, `RegistersEachOnce`, `OpsLiveOnce` (refinement), `StopReturns`. |
| `ClientAtGateway` | 2 servers with a game node each and the gateway's own node, 2 events, 3 requests, 2 tickers, fairness | `RingFollowsCenter`, `LocatedOnItsServer`, `HandlersFindAll`, `OwnResponse`, `PushFollowsResponse`, `StopEndsClients`. |
| `ActorPersistStop` | 1 actor | **violated** `StopPersists`: a mark cleared by an older result, then a stop without a save. |
| `AgentSessionsDelete` | 2 connections | **violated** `DeletesOwnEntry`: `DelAgent` deletes by player, and takes the entry of the newer agent. |
| `AgentSessionsTold` | 2 connections | **violated** `KickedIsTold`: `chStop` is closed before `stopReason` is set. |
| `LoginServiceSlow` | 2 requests, commands of 5 s, lock of 10 s (units of 5 s) | **violated** `CharacterLimit`: the lock expires between refresh and insertion, and a late insertion exceeds the limit. |

The four violated runs each check what a comment of the repository says; `findings` quotes it.
Every property of a passing run has a mutant of the code in `PROJECT.json` that breaks it.

**Bounds and why they are enough.** `MaxChanges` and `MaxInFlight` cap counters that are
unbounded in the code. Three saves in flight with two consumers give every order of two
results around a third snapshot; more changes repeat the relation *older than the snapshot,
in it, newer*. Two agents are the kicker and the kicked; a third would meet the same lock.
`MaxSessions` bounds the opened sessions: each login opens one, and two are the kicked and
the kicking one; `MaxPending` = 1 makes the channel full after one packet, and one callback
holds one agent while the registry names another. Three requests are needed to exceed a limit of two; the limits differ so that both
are met. `MCServices` puts two instances into one run (`FewInit`, `ManyInit`): one creation
of a character with another request while services and servers come and go, and three
creations while the services are up; the proofs of section 4 need neither. Three clients of
`PlayerSession` are an earlier login, its successor, and one more that finds the timer id
of a finished login. In `GameServer` two operations share a worker and a third has its own,
and `done` holds one, so that workers block; with pages of one row the last page is the
empty one. In `ClientAtGateway` a node leaves and comes back within one batch, and the
second and third request meet late responses of the first; a player gets its items in
portions of 3, 3 and 2 with a `MaxNum` of 3, so that the second one wraps around and removes
the item, and uses one or both of the two it has left, or more than are left. (Messages that nobody handles get
the error that a refused use gets; the run sends none, the proof covers them.) The deadlock check is off where the
system may really stop (every connection closed, the process gone, the bounds reached).

**Fairness.** `ActorPersist`: goroutines and timers run (weak fairness of worker, casts and
results), a consumer gets results in spite of the other (strong), and the queue has room and
the database accepts an operation again and again (strong fairness of `SaveTimerFires` and
of a successful execution): without the last two nothing can be promised. `AgentSessions`: a
goroutine that can step does (Go's scheduler), a read ends because the connection is closed
or by `ReadWriteTimeout`, every call of the login returns by its own timeout, and the `select`
of a callback takes a case that stays ready; nothing is assumed of clients, of the writes to
them (a writer may hang in one), of the game server or of the expiry of locks. `PlayerSession`: the actor, the
clock and the ticker of a playing client go on. `GameServer`: main, workers, consumers and
actors run on; nobody has to send a request or a signal. `ClientAtGateway`: a stop that has
begun goes on, the client's goroutines run, a ticker that is refused the mutex again and
again gets it (strong fairness; `sync.Mutex` is starvation-free).

## 4. Proofs

A module `XProofs` extends `X` and holds its theorems; `PROJECT.json` lists them under
`theorems`. Every invariant of a passing run, every refinement and every action property has
one. They hold for every number of actors, agents, requests, clients, nodes, workers
and servers and for every bound. The constants are only assumed to be of their kind
(`PersistAssumption`, `AgentAssumption`, `LoginAssumption`, `SessionAssumption`,
`BDAssumption` and so on; TLC evaluates them in the runs). What a theorem needs besides is
its hypothesis. (`ConfAssumption` and `ProtoAssumption` say that a stored table and the list
of common messages in the program are finite.) Each argument is an inductive invariant of named parts, with one lemma per
part.

**`ActorPersistProofs`.** `TypeCorrect` and `DirtyAlwaysScheduled` need nothing: a mark
without a timer or an outstanding save is excused only by `lost`. `NothingForgotten` and
`StoreIsRefined` assume `~LoadFaults` (a failed load starts on an empty model, section 5)
and `ExecOrdered` (a synchronous save does not overtake a queued one). `NoForgottenChange`
is not inductive: that a part which is not marked equals the document follows from what the
operations on the way hold. `TrackInv` says it for every outstanding operation and for every
result that has not arrived (`OkPending`, `NoDocument`). `Chain` orders document, operations
and memory, which makes every execution a forward step of `ModuleStore`.

**`LoginServiceProofs`.** `LoginTypeCorrect` rests on `HasIds`: a request that acts has
asked for its id. `AccountsAreShared` (`AccountInv`): the upsert decides which account wins,
and every request past it acts for the winner. `LimitHolds` assumes nothing about times: the
limits hold for the characters that were inserted under the lock, whatever late ones were
inserted besides. `LimitInv` says that one request holds the lock (`OneHolder`), that a
request which has not asked for it does not (`UnaskedUnheld`), and that the counts it read
still hold of the characters in time while it does (`CountsHold`): the request counts late
characters too, and those inserted since are late. `ReportedPlayable` (`PlayableInv`): the
actor's server is set before the answer, for the character that was inserted.

**`ServicesProofs`.** Every step of `Services` is a step of `LoginService` or leaves its
variables alone (the lemma `StepRefines`), hence `ServicesLimit` and `ServicesPlayable` carry over. `ReportedServersRun`: from the first creation on the unique
indexes are there (`IndexInv`), so what is inserted under an id stays the only one
(`ServersInv`). `CharactersOnServers`: what passed the check stays true, as servers are
never deleted. `TokensNameOwners`: ids are fresh (`IdsInv`), accounts have one user
(`AccountInv`), and the fields a token is made of are read from stored documents
(`TokensInv`).

**`AgentSessionsProofs`.** `SessionsTypeCorrect` and `LockIsForLogins` need nothing: whoever
owns a lock is in a login of its account, whatever answers are lost and whatever expires,
because a call that may leave the lock without its login also leaves it without its owner
(`Left`). The others need that locks outlive their logins (`~LockExpires`), that a
connection logs in once (`~Relogin`), or both, and no more than that. `LiveAgentsRegistered` needs the lock only: with
an expired one two logins of a character overlap and the later one overwrites the entry. A
lock that was left behind does expire in it. Between `DelAgent` and `Stop` an agent is connected,
unregistered and not stopped (`BeingStopped`), which the property excepts, and nothing else.
It is inductive together with `KickedInv`, which says that from the removal to the
registration of a login every other agent of its player has been stopped or is about to be
(`Doomed`), and that is
preserved because nobody else can register the player without the lock (`LockInv`). Steps
that do not find, remove, assign or register an agent take nothing back (`Bystanders`).
`StopsLeaveNothing` needs one login per connection only: after a second one
the stop of an agent may be over before it registers again. `OnceInv` says that an entry is of
an agent that has registered for its one player, `QuietInv` that no one has stopped an agent
before its login has registered it, except its own reader, which then leaves, and `GoneInv`
follows the body of `stop()`: after the step that deletes, no entry of the agent is left;
after the last one, no session but a lost one. `AddsNeverOverwrite` needs both (`OneLogin`): whoever is past
the removal finds no entry for its player (`EmptyInv`); an agent that changed its character
would have left one behind.

**`GameServerProofs`.** `PhaseInv` reads off `phase` what is there: actors and requests only
between `startGlobalActors` and the stop of the service, operations only from the start of
the background database until its queues are drained. `ActorsHaveEverything`,
`AnswersHaveCluster` and `QueuesEndFirst` follow. For `OperationsLiveOnce` the abstract state of an operation is
where it is; `PlacesInv` says that it is in one place only (one queue, one worker, `done`,
one consumer), so every step of a worker, a consumer and of `Stop` is one step of
`OpLifetimes` or none. `TablesAreWhole` (`TableInv`): while nobody has published since the
load began, what is loaded is the beginning of the stored rows, of the length that was
skipped (`PageContinues`), and only a page that is not full ends the load; an order of
exactly the stored rows repeats none (`OrdersOfFinite`, which counts them).
`ServerTypeCorrect` adds `ActorTypes`: an actor with a request runs. The last two theorems
are about the state in which the process starts, for lists of any length.
`FunctionsRunInOrder`: after each registration the list is ordered by priority and, within
one, by the order of registration, and holds every function registered so far
(`RegistrationOrder`), because `Insert` finds the first greater priority (`InsertPlace`).
`MessagesRegisteredOnce` follows the generator loop by loop: what a file declares
(`FileParsed`), what the names of a file add to those collected (`NamesCollected`,
`FileCollected`), what a directory holds (`DirCollected`), that sorting keeps the elements
and makes them ascend (`SortedAscends`), and that two lists in order make a list of calls in
which no call is repeated (`CallsInOrder`).

**`ClientAtGatewayProofs`.** `HandlersAreReady` (`StartInv`): the callbacks start at the
seventh step of `Start`, connections at the ninth. `PushesFollowResponses` (`WireInv`) is
about the two paths between client and actor: requests travel in the order of their numbers
(`Order`), whatever is sent for one answers it (`AnswersTo`), and so what comes after a
message belongs to a later request or is the push of the same use (`Path`). `OwnResponsesTaken` (`RequestInv`): what the reader lets pass has the number
of a request that is not newer than the current one. `RingsFollowCenter` needs more than the
property says, which speaks of nodes without events on the way. `RingInv` says of every node
that the last event about it in the log, if there is one, agrees with the center, and that
without one the ring does: an event at the end makes itself the last (`LastOfAppend`), a
batch leaves either the last one in the log or has it (`LastOfSplit`), and what a batch does
to a group is what the last event of each node in it says (`UpdatesLast`, `FoldLast`).
`PlayersLocatedOnTheirServer` (`LocationInv`) takes from it that a group holds nodes of its
server only. `TypeCorrect` has `ClientInv` (which goroutine of the client waits for what;
the channel holds one response at most), `GateInv` and `BagInv`: the items of the player are
some of the first ones, none above its first number and none at zero. That the first items
are positive numbers is `InitBagIsBag`: `InitBag` is a fold of sums that wrap around.

**`Iteration`.** The model folds its lists with the operators of the community modules. A
fold is defined by recursion, and the library's theorems on induction take an operator as
their parameter, which the provers cannot give it. `Iteration` states what is needed with
sets and functions in its place. From the least element of a set of numbers
(`LeastNat`) come induction up to a number for a set (`IntervalInduction`) and the greatest
element of a set (`GreatestNat`), which the folds choose as the next one. For a step that is
a function, `IterateExists` says that there is a function which does what the definition of
the fold demands, hence that the fold's `CHOOSE` chooses such a function, and `FoldTrace`
that its result is the last of a sequence of results, each the step from the one before. A
lemma per fold (`UpdateFold`, `UpdatesFold`, `RegistrationFold`, `SortFold`, `FindFold`,
`CollectFold`, `DirFold`) turns the fold of the model into such a sequence, and
`IntervalInduction` along it gives the invariant of the loop.

**`PlayerSessionProofs`.** `SessionTypeCorrect` includes that the running timer is the one
`heartbeatTimerId` names. `PunctualClientsStay` assumes `InTime`: the answer of the server
actor and the first interval fit into the timeout, an interval and the delay of a message
fit into it, and a message is delivered before the next one is sent. `TimerInv` and
`ClientInv` say which messages can be in the box; `TimeInv` says of the client that plays,
until its first heartbeat is sent, that the timer runs and fires only after that heartbeat
is due, and from then on that the actor has heard of it recently, or a heartbeat of it is in
the box: in time, before every message of the timer, or while the timer has not fired.

**Only model-checked.** Liveness, which the prover does not do: `ChangeIsStored`,
`StopCompletes`, `CallbackReturns`, `MuteIsLoggedOut`, `StopReturns`, `StopEndsClients`. Also what the
hypotheses exclude: `AgentSessionsLive` checks `LiveIsRegistered` with second logins and
locks that expire for one connection.

## 5. Observations that no run reports

They were seen in TLC traces of the modules above, follow from the same cause as a run, or
were met while the code was read.

- `LoadModel` returns `(true, nil)` for every error but `ErrNoDocuments`
  (`persist/persist.go:47`): the actor runs on an empty model and saves over its document.
  This is `StartBlind`; the proofs of section 4 that assume `~LoadFaults` need it excluded.
- The mark of the version is cleared like any other, so a later partial save stores items under version 0 and
  `IsInit` (`model/player/player.go:27`) sends the next login through the initial grant again.
- A session stays with the game server when `disconnectPlayer` fails, which is only logged
  (`agent.go:270`), or when a connect succeeds and its answer is lost (`hook_login.go:112`): the
  agent does not know the session then. `StoppedLeavesNothing` excepts both (`lost`).
- `Unlock` uses the context of the login and its error is ignored (`hook_login.go:74`): after a
  slow login, or a `Lock` whose answer was lost, the account is locked until the lock expires.
- A reply that cannot be sent is not followed up (`handler/wrapper.go:22`): the push about the
  items may come without the response.
- `StopAllAgents` (`agent/internal/agent.go:61`) sees the agents registered so far; a login in
  progress registers afterwards. The exit of the process closes its connection all the same
  (`StopEndsClients`), but nobody tells its client.
- `HandleDisconnect` (`agent/internal/app/actor.go:109`) ignores the session it is told about and
  stops whatever agent is registered now.
- A second `LoginReq` for the same character stops the agent it runs on, then registers it
  again: its stop is over, so entry and session stay. `StoppedLeavesNothing` fails with `Relogin`.
  One for another character leaves the entry of the first (`hook_login.go` never removes it), which
  a later login of that character overwrites; `AddNeverOverwrites` fails with `Relogin`.
  (Second logins are modelled in `AgentSessions` only, not in `ClientAtGateway`.)
- The heartbeat timer is one-shot and never started again after a heartbeat was seen: a client
  that is `silent` after one heartbeat is not logged out by it, only by the read deadline of its agent, which
  leaves `isLogin` set.
- `OnConnected` leaves the timer of an earlier login running, which may disconnect a client
  that has connected but whose login is still in the box. `PunctualStays` therefore begins with the login.
- A failed `SetActorServer` leaves a character that counts towards the limit and cannot be routed.
- A failed registration in `handleServerCreate` (`platform/internal/handlers/server.go:52`)
  leaves a stored server without an actor; its retry is refused by the unique index.
- The comment of `mongobd.Stop` (`mongobd.go:81`) closes `done` first and stops the core last; the
  code does it the other way round, as it has to: the mutant `CloseFirst` has workers send into a closed channel.
- `game/internal/app/cluster.go:42` starts the cluster before it assigns `a.cluster`: a packet that
  is answered in between is sent through nil. `AnswersGoOut` excepts this window (the phase
  `assign`) and nothing else. The gateway has the same order, but no connection exists yet (`HandlersFindAll`).
- `loadNormal` reads pages by skip and limit, without a sort or a snapshot, and `gen_gdconf` drops
  the database before it has parsed its sheets: a server that starts meanwhile loads any part of
  the tables (`torn`), and a sheet with an error leaves none.
- `config.Actor.SaveDelay` (`game/internal/base/config`) is never passed to the actors' configuration.
- Ctrl-D in the client, commented as an exit, leads back into `statePlay` and starts another
  ticker.
- The push after an item was used up carries the zero item (`systems/item.go:34` ignores that
  `GetItem` found nothing).
- A late response that passes the compare-and-swap while the next request is between the
  emptying of `chResp` and the setting of `reqSeq` is taken for the response of that request
  (`strayed`; `OwnResponse` claims that nothing else goes wrong).
- The response of `httputils` is decoded into a field named `db`.

## 6. Not modelled, and why

- Bytes: framing, lengths, encryption, parsing of tokens and sheets. A frame is written in
  two steps (`packet.go:120`); two goroutines write to one connection only when a connected agent
  refuses a second `LoginReq`, after which it is stopped.
- `handleModifyName`, which sets a name and marks it (`Change` of `ActorPersist`).
- A second `LoginReq` sent with `sendreq` (`Commands` has none): the agent would take it for a
  login, which `AgentSessions` models.
- The router of the game server (its `OnNodesSync` and `OnNodeEvents`), the same code as the
  gateway's in a library that is not in the repository.
- `LoadTable` of `gdconf`, which nothing calls, and the lifecycle callbacks, which are all empty.
- Generated protobuf code, logging, configuration files and flags.
