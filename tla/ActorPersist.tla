---------------------------- MODULE ActorPersist ----------------------------
(***************************************************************************)
(* Persistence of one stateful actor (a player) of the game server:        *)
(* internal/infra/actor (actor.go, persist.go, persist/persist.go,         *)
(* model/dirty.go, model/model.go), the handler of the save results        *)
(* (app/game/internal/handler/common) and the background queue             *)
(* internal/infra/mongobd.                                                 *)
(*                                                                         *)
(* The actor runs one message or timer at a time (gactor, external), so    *)
(* each handler is one step.  A save is asynchronous: the save timer takes *)
(* a snapshot of the dirty parts and queues it; a worker of the database   *)
(* library applies it; one of several consumer goroutines takes the result *)
(* from the `done` channel and casts it to the actor, whose handler clears *)
(* the dirty marks or arms the timer again.  Dirty marks set between the   *)
(* snapshot and the handling of its result are the hard case.              *)
(*                                                                         *)
(* Data is abstracted to "how many changes does this part contain".        *)
(***************************************************************************)
EXTENDS Naturals, Sequences, FiniteSets

CONSTANTS
    Modules,      \* module keys of the model (player: "base", "items")
    Version,      \* the version field of the model, > 0 once initialised
    Consumers,    \* goroutines consuming the done channel (OpConsumers)
    LoadFaults,   \* TRUE: loading may fail with an error
    CastFaults,   \* TRUE: casting a save result to the actor may fail
    ExecOrdered,  \* TRUE: Exec runs after the queued operations of its key
    MaxChanges,   \* bound: changes per part
    MaxInFlight   \* bound: saves outstanding at a time

ASSUME PersistAssumption ==
    /\ Version \notin Modules
    /\ {LoadFaults, CastFaults, ExecOrdered} \subseteq BOOLEAN
    /\ MaxChanges \in Nat
    /\ MaxInFlight \in Nat

VARIABLES
    phase,    \* the actor object: "absent", "running" or "stopping"
    mem,      \* changes each part contains in memory (last, when absent)
    all,      \* Dirties.all
    dirties,  \* keys of Dirties.dirties
    timer,    \* saveTimerId is set
    queue,    \* operations added to the background queue, oldest first
    done,     \* results in the done channel
    held,     \* the result each consumer goroutine is about to cast
    box,      \* save results in the actor's message box
    exists,   \* the store has a document for this actor
    doc,      \* changes each part contains in that document
    raced,    \* history: parts changed while a save was outstanding and not
              \* snapshotted since without one
    lost      \* history: the result of a save did not reach the actor, and no
              \* save was started since

actorVars == <<phase, mem, all, dirties, timer>>
pipeVars  == <<queue, done, held, box>>
docVars   == <<exists, doc>>
vars      == <<actorVars, pipeVars, docVars, raced, lost>>

Parts  == Modules \cup {Version}
Result == {"ok", "err"}
Op     == [parts : SUBSET Parts, upsert : BOOLEAN, vals : [Parts -> Nat]]
Fresh  == [p \in Parts |-> 0]

TypeOK ==
    /\ phase \in {"absent", "running", "stopping"}
    /\ mem \in [Parts -> Nat]
    /\ all \in BOOLEAN
    /\ dirties \subseteq Modules
    /\ timer \in BOOLEAN
    /\ queue \in Seq(Op)
    /\ done \in Seq(Result)
    /\ held \in [Consumers -> Result \cup {"none"}]
    /\ box \in Seq(Result)
    /\ exists \in BOOLEAN
    /\ doc \in [Parts -> Nat]
    /\ raced \subseteq Parts
    /\ lost \in BOOLEAN
    /\ phase # "running" => ~timer

Init ==
    /\ phase = "absent"
    /\ mem = Fresh
    /\ all = FALSE
    /\ dirties = {}
    /\ timer = FALSE
    /\ queue = <<>>
    /\ done = <<>>
    /\ held = [c \in Consumers |-> "none"]
    /\ box = <<>>
    /\ exists = FALSE
    /\ doc = Fresh
    /\ raced = {}
    /\ lost = FALSE

-----------------------------------------------------------------------------
(* Dirty marks and snapshots. *)

(* Dirties.IsDirty: everything when `all`, else the marked modules. *)
DirtyParts == IF all THEN Parts ELSE dirties

(* extractModelDirty: a full document with upsert, the dirty modules       *)
(* without, or an empty update when nothing is dirty.                      *)
Snapshot == [parts |-> DirtyParts, upsert |-> all, vals |-> mem]

(* A save was started and its result is not handled yet. *)
Outstanding ==
    \/ queue # <<>>
    \/ done # <<>>
    \/ \E c \in Consumers : held[c] # "none"
    \/ box # <<>>

(* Bound on the saves outstanding. *)
RoomForSave ==
    Len(queue) + Len(done) + Len(box)
        + Cardinality({c \in Consumers : held[c] # "none"}) < MaxInFlight

(* History: parts marked while a save is outstanding are raced. *)
Mark(S) ==
    /\ raced' = IF Outstanding THEN raced \cup S ELSE raced
    /\ lost' = lost

(* The update of the document by `op`: an update without upsert that       *)
(* matches no document changes nothing.                                    *)
Store(op) ==
    IF exists \/ op.upsert
    THEN /\ exists' = TRUE
         /\ doc' = [p \in Parts |-> IF p \in op.parts THEN op.vals[p]
                                                       ELSE doc[p]]
    ELSE UNCHANGED docVars

(* Mutant: Exec is submitted without the hash key of the model. *)
ExecReadyUnkeyed == TRUE

(* BD.Exec takes the hash key of the model like BD.Add: the synchronous    *)
(* operation waits for those queued before it.                             *)
ExecReady == ExecOrdered => queue = <<>>

-----------------------------------------------------------------------------
(* OnStart: LoadModel, then prepare a new document if there was none. *)

StartWith(m, fresh) ==
    /\ phase = "absent"
    /\ ExecReady
    /\ phase' = "running"
    /\ mem' = m
    /\ all' = fresh
    /\ dirties' = {}
    /\ timer' = fresh
    /\ raced' = IF fresh /\ Outstanding THEN Parts ELSE {}
    /\ lost' = FALSE
    /\ UNCHANGED <<pipeVars, docVars>>

StartLoaded == exists /\ StartWith(doc, FALSE)

StartFresh == ~exists /\ StartWith(Fresh, TRUE)

(* LoadModel returns (true, nil) for every error but ErrNoDocuments: the   *)
(* actor runs on the empty model as if it had been loaded.                 *)
StartBlind == LoadFaults /\ StartWith(Fresh, FALSE)

-----------------------------------------------------------------------------
(* Changes by message handlers. *)

(* Login: InitPlayer fills a model whose version is 0 and marks it all. *)
InitPlayer ==
    /\ phase = "running"
    /\ mem[Version] = 0
    /\ \A p \in Parts : mem[p] < MaxChanges
    /\ mem' = [p \in Parts |-> mem[p] + 1]
    /\ all' = TRUE
    /\ timer' = TRUE
    /\ Mark(Parts)
    /\ UNCHANGED <<phase, dirties, pipeVars, docVars>>

(* A handler behind mdCheckLogin changes a module: SetDirtyModules marks   *)
(* it and OnModelDirty starts the save timer unless it runs.               *)
Change(m) ==
    /\ phase = "running"
    /\ mem[Version] > 0
    /\ mem[m] < MaxChanges
    /\ mem' = [mem EXCEPT ![m] = @ + 1]
    /\ dirties' = dirties \cup {m}
    /\ timer' = TRUE
    /\ Mark({m})
    /\ UNCHANGED <<phase, all, pipeVars, docVars>>

-----------------------------------------------------------------------------
(* The asynchronous save. *)

(* Mutant: onSaveTimer clears the marks once the snapshot is queued. *)
SaveTimerFiresClearing ==
    /\ phase = "running"
    /\ timer
    /\ RoomForSave
    /\ queue' = Append(queue, Snapshot)
    /\ timer' = FALSE
    /\ all' = FALSE
    /\ dirties' = {}
    /\ raced' = IF Outstanding THEN raced ELSE raced \ DirtyParts
    /\ lost' = FALSE
    /\ UNCHANGED <<phase, mem, done, held, box, docVars>>

(* onSaveTimer: the snapshot is queued; the marks stay until the result. *)
SaveTimerFires ==
    /\ phase = "running"
    /\ timer
    /\ RoomForSave
    /\ queue' = Append(queue, Snapshot)
    /\ timer' = FALSE
    /\ raced' = IF Outstanding THEN raced ELSE raced \ DirtyParts
    /\ lost' = FALSE
    /\ UNCHANGED <<phase, mem, all, dirties, done, held, box, docVars>>

(* Mutant: onSaveTimer returns the error without starting the timer. *)
SaveTimerRefusedForGood ==
    /\ phase = "running"
    /\ timer
    /\ timer' = FALSE
    /\ UNCHANGED <<phase, mem, all, dirties, pipeVars, docVars, raced, lost>>

(* onSaveTimer: the snapshot or BD.Add fails, the timer starts again. *)
SaveTimerRefused ==
    /\ phase = "running"
    /\ timer
    /\ timer' = TRUE
    /\ UNCHANGED <<phase, mem, all, dirties, pipeVars, docVars, raced, lost>>

(* A worker of the database library executes the oldest operation; one     *)
(* that reports an error may still have reached the store.                 *)
WorkerExecutes(result, hit) ==
    /\ queue # <<>>
    /\ result = "ok" => hit
    /\ IF hit THEN Store(Head(queue)) ELSE UNCHANGED docVars
    /\ queue' = Tail(queue)
    /\ done' = Append(done, result)
    /\ UNCHANGED <<actorVars, held, box, raced, lost>>

(* opConsumer: one of the goroutines receives from the done channel. *)
ConsumerTakes(c) ==
    /\ held[c] = "none"
    /\ done # <<>>
    /\ held' = [held EXCEPT ![c] = Head(done)]
    /\ done' = Tail(done)
    /\ UNCHANGED <<actorVars, queue, box, docVars, raced, lost>>

(* consumeOp calls the callback, which casts the result to the actor. *)
ConsumerCasts(c) ==
    /\ held[c] # "none"
    /\ box' = Append(box, held[c])
    /\ held' = [held EXCEPT ![c] = "none"]
    /\ UNCHANGED <<actorVars, queue, done, docVars, raced, lost>>

(* The cast fails and is only logged. *)
CastFails(c) ==
    /\ CastFaults
    /\ held[c] # "none"
    /\ held' = [held EXCEPT ![c] = "none"]
    /\ lost' = TRUE
    /\ UNCHANGED <<actorVars, queue, done, box, docVars, raced>>

(* handleActorSaveResult, success: every mark is cleared. *)
HandleSaved ==
    /\ phase = "running"
    /\ box # <<>>
    /\ Head(box) = "ok"
    /\ box' = Tail(box)
    /\ all' = FALSE
    /\ dirties' = {}
    /\ UNCHANGED <<phase, mem, timer, queue, done, held, docVars, raced, lost>>

(* Mutant: a failed save is only logged. *)
HandleSaveFailedLogged ==
    /\ phase = "running"
    /\ box # <<>>
    /\ Head(box) = "err"
    /\ box' = Tail(box)
    /\ UNCHANGED <<phase, mem, all, dirties, timer, queue, done, held,
                   docVars, raced, lost>>

(* handleActorSaveResult, failure: DelaySave starts the save timer. *)
HandleSaveFailed ==
    /\ phase = "running"
    /\ box # <<>>
    /\ Head(box) = "err"
    /\ box' = Tail(box)
    /\ timer' = TRUE
    /\ UNCHANGED <<phase, mem, all, dirties, queue, done, held, docVars, raced, lost>>

-----------------------------------------------------------------------------
(* OnStop and crashes. *)

(* Mutant: the save timer is left running when the actor goes. *)
GoneWithTimer ==
    /\ phase' = "absent"
    /\ all' = FALSE
    /\ dirties' = {}
    /\ timer' = timer
    /\ raced' = {}
    /\ lost' = FALSE

(* The actor object is gone, with its marks and its timer. *)
Gone ==
    /\ phase' = "absent"
    /\ all' = FALSE
    /\ dirties' = {}
    /\ timer' = FALSE
    /\ raced' = {}
    /\ lost' = FALSE

(* Messages left in the box of a stopped actor may be kept or dropped. *)
BoxAtStop == box' = box \/ box' = <<>>

(* OnStop with nothing marked: the model is released unsaved. *)
StopClean ==
    /\ phase \in {"running", "stopping"}
    /\ DirtyParts = {}
    /\ Gone
    /\ BoxAtStop
    /\ UNCHANGED <<mem, queue, done, held, docVars>>

(* OnStop with marks: SaveModel writes the snapshot synchronously. *)
StopSaved ==
    /\ phase \in {"running", "stopping"}
    /\ DirtyParts # {}
    /\ ExecReady
    /\ Store(Snapshot)
    /\ Gone
    /\ BoxAtStop
    /\ UNCHANGED <<mem, queue, done, held>>

(* Every attempt of SaveModel fails and OnStop returns the error; the      *)
(* framework drops the actor, or keeps it and stops it again.              *)
StopFailed ==
    /\ phase \in {"running", "stopping"}
    /\ DirtyParts # {}
    /\ ExecReady
    /\ Store(Snapshot) \/ UNCHANGED docVars
    /\ \/ Gone /\ BoxAtStop
       \/ /\ phase' = "stopping"
          /\ timer' = FALSE
          /\ UNCHANGED <<all, dirties, box, raced, lost>>
    /\ UNCHANGED <<mem, queue, done, held>>

(* The game server process dies: all but the document is lost. *)
Crash ==
    /\ Gone
    /\ queue' = <<>>
    /\ done' = <<>>
    /\ held' = [c \in Consumers |-> "none"]
    /\ box' = <<>>
    /\ UNCHANGED <<mem, docVars>>

-----------------------------------------------------------------------------
Start == StartLoaded \/ StartFresh \/ StartBlind

Stop == StopClean \/ StopSaved \/ StopFailed

HandleSaveResult == HandleSaved \/ HandleSaveFailed

Worker == \E result \in Result, hit \in BOOLEAN : WorkerExecutes(result, hit)

Next ==
    \/ Start
    \/ InitPlayer
    \/ \E m \in Modules : Change(m)
    \/ SaveTimerFires
    \/ SaveTimerRefused
    \/ Worker
    \/ \E c \in Consumers :
          ConsumerTakes(c) \/ ConsumerCasts(c) \/ CastFails(c)
    \/ HandleSaveResult
    \/ Stop
    \/ Crash

Spec == Init /\ [][Next]_vars

(* The scheduler runs every ready goroutine and due timer; the queue has   *)
(* room and the database accepts an operation again and again.             *)
Fairness ==
    /\ SF_vars(SaveTimerFires)
    /\ WF_vars(Worker)
    /\ SF_vars(WorkerExecutes("ok", TRUE))
    /\ \A c \in Consumers : SF_vars(ConsumerTakes(c)) /\ WF_vars(ConsumerCasts(c))
    /\ WF_vars(HandleSaveResult)

FairSpec == Spec /\ Fairness

-----------------------------------------------------------------------------
(* Properties. *)

(* A change is never forgotten outside the one known race: while the actor *)
(* runs, a part the store does not hold in its current form is marked      *)
(* dirty, unless it was changed while a save was outstanding.              *)
NoForgottenChange ==
    phase = "running" =>
        \A p \in Parts \ raced : mem[p] = doc[p] \/ p \in DirtyParts

(* Dirty marks are never left to themselves: the save timer runs or a save *)
(* is outstanding whose result will clear them or start the timer, unless  *)
(* that result was lost on its way to the actor.                           *)
DirtyIsScheduled ==
    phase = "running" /\ DirtyParts # {} => timer \/ Outstanding \/ lost

(* Whatever order saves, results, stops and crashes come in, the actor and *)
(* its document behave like ModuleStore: the document never falls back.    *)
Abs == INSTANCE ModuleStore
         WITH open <- phase # "absent", cur <- mem, saved <- doc
StoreRefined == Abs!StoreSpec

(* A change outside the race reaches the document while the actor runs,    *)
(* unless it is overtaken by a racing change or a result is lost.          *)
ChangeIsStored ==
    \A p \in Parts, v \in 1..MaxChanges :
        (phase = "running" /\ p \notin raced /\ mem[p] = v)
            ~> (doc[p] >= v \/ phase # "running" \/ p \in raced \/ lost)

(* Stopping persists: an actor that stops without an error leaves its last *)
(* state in the store (OnStop, "persist dirty data").                      *)
StopPersists ==
    [][StopClean \/ StopSaved => \A p \in Parts : doc'[p] = mem[p]]_vars
=============================================================================
