------------------------------- MODULE MongoBD -------------------------------
(***************************************************************************)
(* The background database of a game server (internal/infra/mongobd):      *)
(* producers hand operations to the workers of ggskit's mongobd.BD, which  *)
(* send the executed ones into the channel done, from which the consumers  *)
(* run the callbacks.  Both the queues and the channel are bounded.        *)
(* That the core drains its queues before core.Stop returns is read from   *)
(* Stop, which closes done right after it.                                 *)
(***************************************************************************)
EXTENDS Naturals, Sequences

CONSTANTS
  Ops,            \* operations, each added at most once
  None,           \* no operation
  Workers,        \* BDConfig.Wokers
  Consumers,      \* Config.OpConsumers
  MaxWorkerOps,   \* BDConfig.MaxWorkerOps: operations queued per worker
  OpChanSize,     \* Config.OpChanSize: capacity of done
  WorkerOf        \* the worker an operation's hash key selects

ASSUME BDAssumption ==
  /\ None \notin Ops
  /\ {MaxWorkerOps, OpChanSize} \subseteq Nat \ {0}
  /\ WorkerOf \in [Ops -> Workers]

VARIABLES
  life,     \* of the BD: none, up, draining (core.Stop), drained, closed, stopped
  queue,    \* operations queued at each worker
  held,     \* the executed operation each worker wants to send
  done,     \* the channel of executed operations
  taken,    \* the operation whose callback each consumer runs
  called    \* operations whose callback has run

bdVars == <<life, queue, held, done, taken, called>>

BDInit ==
  /\ life = "none" /\ done = <<>> /\ called = {}
  /\ queue = [w \in Workers |-> <<>>] /\ held = [w \in Workers |-> None]
  /\ taken = [c \in Consumers |-> None]

Elements(s) == {s[i] : i \in DOMAIN s}
Queued == UNION {Elements(queue[w]) : w \in Workers}
InFlight == ({held[w] : w \in Workers} \cup Elements(done)
               \cup {taken[c] : c \in Consumers}) \ {None}

\* New: the core and its consumers start.
New ==
  /\ life = "none" /\ life' = "up"
  /\ UNCHANGED <<queue, held, done, taken, called>>

\* Add: the operation joins the queue of its worker.
Add(o) ==
  /\ life = "up" /\ Len(queue[WorkerOf[o]]) < MaxWorkerOps
  /\ o \notin Queued \cup InFlight \cup called
  /\ queue' = [queue EXCEPT ![WorkerOf[o]] = Append(@, o)]
  /\ UNCHANGED <<life, held, done, taken, called>>

\* A worker executes its next operation, against the database.
Execute(w) ==
  /\ life \in {"up", "draining"} /\ held[w] = None /\ queue[w] # <<>>
  /\ held' = [held EXCEPT ![w] = Head(queue[w])]
  /\ queue' = [queue EXCEPT ![w] = Tail(@)]
  /\ UNCHANGED <<life, done, taken, called>>

\* A worker sends the operation; it blocks while done is full.
Report(w) ==
  /\ held[w] # None /\ Len(done) < OpChanSize
  /\ done' = Append(done, held[w])
  /\ held' = [held EXCEPT ![w] = None]
  /\ UNCHANGED <<life, queue, taken, called>>

\* Mutant: a consumer leaves as soon as the BD stops.
TakeWhileUp(c) ==
  /\ life = "up" /\ taken[c] = None /\ done # <<>>
  /\ taken' = [taken EXCEPT ![c] = Head(done)]
  /\ done' = Tail(done)
  /\ UNCHANGED <<life, queue, held, called>>

\* opConsumer: the next operation of done; what a closed channel still holds
\* is received too.
Take(c) ==
  /\ taken[c] = None /\ done # <<>>
  /\ taken' = [taken EXCEPT ![c] = Head(done)]
  /\ done' = Tail(done)
  /\ UNCHANGED <<life, queue, held, called>>

\* consumeOp: the callback; a panic in it is recovered.
Consume(c) ==
  /\ taken[c] # None
  /\ called' = called \cup {taken[c]}
  /\ taken' = [taken EXCEPT ![c] = None]
  /\ UNCHANGED <<life, queue, held, done>>

\* Stop: core.Stop accepts no more operations ...
StopCore ==
  /\ life = "up" /\ life' = "draining"
  /\ UNCHANGED <<queue, held, done, taken, called>>

\* ... and returns when the workers have executed and sent what they had.
CoreStopped ==
  /\ life = "draining"
  /\ \A w \in Workers : queue[w] = <<>> /\ held[w] = None
  /\ life' = "drained"
  /\ UNCHANGED <<queue, held, done, taken, called>>

\* Mutant: done is closed first, in the order the comment of Stop gives.
CloseFirst ==
  /\ life \in {"up", "drained"} /\ life' = "closed"
  /\ UNCHANGED <<queue, held, done, taken, called>>

\* close(bd.done)
CloseDone ==
  /\ life = "drained" /\ life' = "closed"
  /\ UNCHANGED <<queue, held, done, taken, called>>

\* Mutant: Stop does not wait for the consumers.
WaitNot ==
  /\ life = "closed" /\ life' = "stopped"
  /\ UNCHANGED <<queue, held, done, taken, called>>

\* wg.Wait returns: the consumers have emptied done and run their callbacks.
Wait ==
  /\ life = "closed" /\ done = <<>> /\ \A c \in Consumers : taken[c] = None
  /\ life' = "stopped"
  /\ UNCHANGED <<queue, held, done, taken, called>>

BDStop == StopCore \/ CoreStopped \/ CloseDone \/ Wait
=============================================================================
