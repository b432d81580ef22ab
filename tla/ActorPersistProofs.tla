------------------------- MODULE ActorPersistProofs -------------------------
(***************************************************************************)
(* Proofs about ActorPersist, for every set of modules and consumers and   *)
(* every bound.                                                            *)
(***************************************************************************)
EXTENDS ActorPersist, TLAPS

(* A sequence something was appended to is not empty. *)
LEMMA AppendNonEmpty ==
    ASSUME NEW S, NEW s \in Seq(S), NEW e \in S
    PROVE  Append(s, e) # <<>>
<1>1. Len(Append(s, e)) = Len(s) + 1 /\ Len(s) \in Nat /\ Len(<<>>) = 0
  OBVIOUS
<1>2. QED
  BY <1>1

(* The values of Fresh and of a snapshot are well typed. *)
LEMMA FreshType == Fresh \in [Parts -> Nat]
BY DEF Fresh

(* A snapshot is a well typed operation. *)
LEMMA SnapshotType == TypeOK => Snapshot \in Op
BY DEF TypeOK, Snapshot, Op, DirtyParts, Parts

(* Storing a well typed operation leaves a well typed document. *)
LEMMA StoreType ==
    ASSUME NEW op \in Op, exists \in BOOLEAN, doc \in [Parts -> Nat], Store(op)
    PROVE  exists' \in BOOLEAN /\ doc' \in [Parts -> Nat]
BY DEF Store, Op, docVars

(* Starting leaves a well typed state whatever well typed model it starts  *)
(* with.                                                                   *)
LEMMA StartType ==
    ASSUME TypeOK, NEW m \in [Parts -> Nat], NEW fresh \in BOOLEAN,
           StartWith(m, fresh)
    PROVE  TypeOK'
BY DEF TypeOK, StartWith, pipeVars, docVars

(* What is left when the actor object is gone. *)
LEMMA GoneType ==
    ASSUME Gone
    PROVE  /\ phase' = "absent" /\ all' = FALSE /\ dirties' = {}
           /\ timer' = FALSE /\ raced' = {} /\ lost' = FALSE
BY DEF Gone

(* The box stays a sequence of results whether a stop keeps or drops it. *)
LEMMA BoxType ==
    ASSUME box \in Seq(Result), BoxAtStop \/ UNCHANGED box
    PROVE  box' \in Seq(Result)
<1>1. <<>> \in Seq(Result)
  OBVIOUS
<1>2. CASE box' = <<>>
  BY <1>1, <1>2, Zenon
<1>3. CASE box' = box
  BY <1>3, Zenon
<1>4. QED
  BY <1>2, <1>3, Zenon DEF BoxAtStop

(* Types are preserved: every handler, worker and consumer step of the     *)
(* actor's persistence keeps each variable in its range, and no save timer *)
(* survives its actor.                                                     *)
THEOREM TypeCorrect == Spec => []TypeOK
<1>1. Init => TypeOK
  <2> SUFFICES ASSUME Init PROVE TypeOK
    OBVIOUS
  <2>1. queue \in Seq(Op) /\ done \in Seq(Result) /\ box \in Seq(Result)
    BY DEF Init
  <2>2. held \in [Consumers -> Result \cup {"none"}]
    BY DEF Init
  <2>3. mem \in [Parts -> Nat] /\ doc \in [Parts -> Nat]
    BY FreshType DEF Init
  <2>4. QED
    BY <2>1, <2>2, <2>3 DEF Init, TypeOK
<1>2. TypeOK /\ [Next]_vars => TypeOK'
  <2> SUFFICES ASSUME TypeOK, [Next]_vars PROVE TypeOK'
    OBVIOUS
  <2>1. CASE Start
    BY <2>1, FreshType, StartType
       DEF Start, StartLoaded, StartFresh, StartBlind, TypeOK
  <2>2. CASE InitPlayer
    BY <2>2 DEF InitPlayer, Mark, TypeOK, Parts, pipeVars, docVars
  <2>3. ASSUME NEW m \in Modules, Change(m) PROVE TypeOK'
    BY <2>3 DEF Change, Mark, TypeOK, Parts, pipeVars, docVars
  <2>4. CASE SaveTimerFires
    <3>1. queue' \in Seq(Op)
      BY <2>4, SnapshotType DEF SaveTimerFires, TypeOK
    <3>2. QED
      BY <2>4, <3>1 DEF SaveTimerFires, TypeOK, docVars
  <2>5. CASE SaveTimerRefused
    BY <2>5 DEF SaveTimerRefused, TypeOK, pipeVars, docVars
  <2>6. ASSUME NEW result \in Result, NEW hit \in BOOLEAN,
               WorkerExecutes(result, hit)
        PROVE  TypeOK'
    <3>1. Head(queue) \in Op /\ queue' \in Seq(Op) /\ done' \in Seq(Result)
      BY <2>6 DEF WorkerExecutes, TypeOK
    <3>2. exists' \in BOOLEAN /\ doc' \in [Parts -> Nat]
      BY <2>6, <3>1, StoreType DEF WorkerExecutes, TypeOK, docVars
    <3>3. QED
      BY <2>6, <3>1, <3>2 DEF WorkerExecutes, TypeOK, actorVars
  <2>7. ASSUME NEW c \in Consumers, ConsumerTakes(c) PROVE TypeOK'
    BY <2>7 DEF ConsumerTakes, TypeOK, Result, actorVars, docVars
  <2>8. ASSUME NEW c \in Consumers, ConsumerCasts(c) PROVE TypeOK'
    BY <2>8 DEF ConsumerCasts, TypeOK, Result, actorVars, docVars
  <2>9. ASSUME NEW c \in Consumers, CastFails(c) PROVE TypeOK'
    BY <2>9 DEF CastFails, TypeOK, Result, actorVars, docVars
  <2>10. CASE HandleSaved
    <3>1. box' \in Seq(Result)
      BY <2>10 DEF HandleSaved, TypeOK
    <3>2. QED
      BY <2>10, <3>1 DEF HandleSaved, TypeOK, docVars
  <2>11. CASE HandleSaveFailed
    <3>1. box' \in Seq(Result)
      BY <2>11 DEF HandleSaveFailed, TypeOK
    <3>2. QED
      BY <2>11, <3>1 DEF HandleSaveFailed, TypeOK, docVars
  <2>12. CASE StopClean
    <3>1. box' \in Seq(Result)
      BY <2>12, BoxType DEF StopClean, TypeOK
    <3>2. QED
      BY <2>12, <3>1, GoneType DEF StopClean, TypeOK, docVars
  <2>13. CASE StopSaved
    <3>1. exists' \in BOOLEAN /\ doc' \in [Parts -> Nat]
      BY <2>13, SnapshotType, StoreType DEF StopSaved, TypeOK
    <3>2. box' \in Seq(Result)
      BY <2>13, BoxType DEF StopSaved, TypeOK
    <3>3. QED
      BY <2>13, <3>1, <3>2, GoneType DEF StopSaved, TypeOK
  <2>14. CASE StopFailed
    <3>1. exists' \in BOOLEAN /\ doc' \in [Parts -> Nat]
      BY <2>14, SnapshotType, StoreType DEF StopFailed, TypeOK, docVars
    <3>2. box' \in Seq(Result)
      BY <2>14, BoxType DEF StopFailed, TypeOK
    <3>3. CASE Gone
      BY <2>14, <3>1, <3>2, <3>3, GoneType DEF StopFailed, TypeOK
    <3>4. CASE /\ phase' = "stopping"
               /\ timer' = FALSE
               /\ UNCHANGED <<all, dirties, box, raced, lost>>
      BY <2>14, <3>1, <3>2, <3>4 DEF StopFailed, TypeOK
    <3>5. QED
      BY <2>14, <3>3, <3>4 DEF StopFailed
  <2>15. CASE Crash
    <3>1. queue' \in Seq(Op) /\ done' \in Seq(Result) /\ box' \in Seq(Result)
      BY <2>15 DEF Crash
    <3>2. held' \in [Consumers -> Result \cup {"none"}]
      BY <2>15 DEF Crash
    <3>3. QED
      BY <2>15, <3>1, <3>2, GoneType DEF Crash, TypeOK, docVars
  <2>16. CASE UNCHANGED vars
    BY <2>16 DEF TypeOK, vars, actorVars, pipeVars, docVars
  <2>17. QED
    BY <2>1, <2>2, <2>3, <2>4, <2>5, <2>6, <2>7, <2>8, <2>9, <2>10, <2>11,
       <2>12, <2>13, <2>14, <2>15, <2>16
       DEF Next, Worker, HandleSaveResult, Stop
<1>3. QED
  BY <1>1, <1>2, PTL DEF Spec
-----------------------------------------------------------------------------
(***************************************************************************)
(* Dirty marks are always scheduled, until the cast of a result fails.     *)
(***************************************************************************)

(* What a started actor owes: marks only with its save timer running. *)
LEMMA StartScheduled ==
    ASSUME NEW m, NEW fresh \in BOOLEAN, StartWith(m, fresh)
    PROVE  DirtyIsScheduled'
BY DEF StartWith, DirtyIsScheduled, DirtyParts

(* An actor with dirty marks has its save timer running or a save          *)
(* outstanding, whatever loads and saves do, or a cast has failed.         *)
THEOREM DirtyAlwaysScheduled == Spec => []DirtyIsScheduled
<1>1. Init => DirtyIsScheduled
  BY DEF Init, DirtyIsScheduled
<1>2. TypeOK /\ DirtyIsScheduled /\ [Next]_vars => DirtyIsScheduled'
  <2> SUFFICES ASSUME TypeOK, DirtyIsScheduled, [Next]_vars
               PROVE  DirtyIsScheduled'
    OBVIOUS
  <2>1. CASE Start
    BY <2>1, StartScheduled DEF Start, StartLoaded, StartFresh, StartBlind
  <2>2. CASE InitPlayer
    BY <2>2 DEF InitPlayer, DirtyIsScheduled
  <2>3. ASSUME NEW m \in Modules, Change(m) PROVE DirtyIsScheduled'
    BY <2>3 DEF Change, DirtyIsScheduled
  <2>4. CASE SaveTimerFires
    <3>1. queue' # <<>>
      BY <2>4, SnapshotType, AppendNonEmpty DEF SaveTimerFires, TypeOK
    <3>2. QED
      BY <3>1 DEF DirtyIsScheduled, Outstanding
  <2>5. CASE SaveTimerRefused
    BY <2>5 DEF SaveTimerRefused, DirtyIsScheduled
  <2>6. ASSUME NEW result \in Result, NEW hit \in BOOLEAN,
               WorkerExecutes(result, hit)
        PROVE  DirtyIsScheduled'
    <3>1. done' # <<>>
      BY <2>6 DEF WorkerExecutes, TypeOK
    <3>2. QED
      BY <3>1 DEF DirtyIsScheduled, Outstanding
  <2>7. ASSUME NEW c \in Consumers, ConsumerTakes(c) PROVE DirtyIsScheduled'
    <3>1. held \in [Consumers -> Result \cup {"none"}] /\ done \in Seq(Result)
      BY DEF TypeOK
    <3>2. Head(done) \in Result /\ held'[c] = Head(done)
      BY <2>7, <3>1 DEF ConsumerTakes
    <3>3. QED
      BY <3>2 DEF DirtyIsScheduled, Outstanding, Result
  <2>8. ASSUME NEW c \in Consumers, ConsumerCasts(c) PROVE DirtyIsScheduled'
    <3>1. box' # <<>>
      <4>1. held[c] \in Result
        BY <2>8 DEF ConsumerCasts, TypeOK
      <4>2. QED
        BY <2>8, <4>1, AppendNonEmpty DEF ConsumerCasts, TypeOK
    <3>2. QED
      BY <3>1 DEF DirtyIsScheduled, Outstanding
  <2>9. ASSUME NEW c \in Consumers, CastFails(c) PROVE DirtyIsScheduled'
    BY <2>9 DEF CastFails, DirtyIsScheduled
  <2>10. CASE HandleSaved
    BY <2>10 DEF HandleSaved, DirtyIsScheduled, DirtyParts
  <2>11. CASE HandleSaveFailed
    BY <2>11 DEF HandleSaveFailed, DirtyIsScheduled
  <2>12. CASE Stop \/ Crash
    BY <2>12
       DEF Stop, StopClean, StopSaved, StopFailed, Crash, Gone, DirtyIsScheduled
  <2>13. CASE UNCHANGED vars
    BY <2>13 DEF vars, actorVars, pipeVars, docVars, DirtyIsScheduled,
                 Outstanding, DirtyParts
  <2>14. QED
    BY <2>1, <2>2, <2>3, <2>4, <2>5, <2>6, <2>7, <2>8, <2>9, <2>10, <2>11,
       <2>12, <2>13
       DEF Next, Worker, HandleSaveResult
<1>3. QED
  BY <1>1, <1>2, TypeCorrect, PTL DEF Spec
-----------------------------------------------------------------------------
(***************************************************************************)
(* No change is forgotten outside the race, when loads succeed and Exec    *)
(* keeps the order of the queue.                                           *)
(***************************************************************************)

Occurs(x, s) == \E i \in 1..Len(s) : s[i] = x

(* A successful save whose result is not handled yet. *)
OkPending ==
    \/ Occurs("ok", done)
    \/ \E c \in Consumers : held[c] = "ok"
    \/ Occurs("ok", box)

(* What the operations and results still outstanding mean for a part that  *)
(* was not changed while they were: its queued values are current, and     *)
(* once one of them is stored so is the part.                              *)
Tracked(p) ==
    /\ p \notin DirtyParts => mem[p] = doc[p]
    /\ OkPending => mem[p] = doc[p]
    /\ \A i \in 1..Len(queue) :
          /\ p \in DirtyParts => p \in queue[i].parts
          /\ p \in queue[i].parts => queue[i].vals[p] = mem[p]

(* Until the document exists, no save has succeeded, every queued one      *)
(* creates it and a running actor has everything marked.                   *)
NoDocument ==
    ~exists => /\ doc = Fresh
               /\ ~OkPending
               /\ \A i \in 1..Len(queue) : queue[i].upsert
               /\ phase = "running" => all

TrackInv ==
    /\ NoDocument
    /\ phase = "running" => \A p \in Parts \ raced : Tracked(p)

(* What appending adds to the elements of a sequence. *)
LEMMA OccursAppend ==
    ASSUME NEW S, NEW s \in Seq(S), NEW e \in S, NEW x
    PROVE  Occurs(x, Append(s, e)) <=> Occurs(x, s) \/ x = e
<1>1. /\ Len(Append(s, e)) = Len(s) + 1 /\ Len(s) \in Nat
      /\ Append(s, e)[Len(s) + 1] = e
      /\ \A i \in 1..Len(s) : Append(s, e)[i] = s[i]
  OBVIOUS
<1>2. QED
  BY <1>1 DEF Occurs

(* A sequence holds its head and what its tail holds. *)
LEMMA OccursHeadTail ==
    ASSUME NEW S, NEW s \in Seq(S), s # <<>>, NEW x
    PROVE  Occurs(x, s) <=> x = Head(s) \/ Occurs(x, Tail(s))
<1>1. /\ Len(s) \in Nat \ {0} /\ Len(Tail(s)) = Len(s) - 1
      /\ Head(s) = s[1]
      /\ \A i \in 1..Len(s) - 1 : Tail(s)[i] = s[i + 1]
  OBVIOUS
<1>2. ASSUME Occurs(x, s) PROVE x = Head(s) \/ Occurs(x, Tail(s))
  <2>1. PICK i \in 1..Len(s) : s[i] = x
    BY <1>2 DEF Occurs
  <2>2. CASE i = 1
    BY <1>1, <2>1, <2>2
  <2>3. CASE i # 1
    <3>1. i - 1 \in 1..Len(s) - 1 /\ Tail(s)[i - 1] = s[(i - 1) + 1]
      BY <1>1, <2>1, <2>3
    <3>2. QED
      BY <1>1, <2>1, <3>1 DEF Occurs
  <2>4. QED
    BY <2>2, <2>3
<1>3. ASSUME x = Head(s) \/ Occurs(x, Tail(s)) PROVE Occurs(x, s)
  BY <1>1, <1>3 DEF Occurs
<1>4. QED
  BY <1>2, <1>3

(* The empty sequence holds nothing. *)
LEMMA OccursEmpty == \A x : ~Occurs(x, <<>>)
BY DEF Occurs

(* Nothing outstanding: no operation is queued and no success pending. *)
LEMMA NotOutstanding ==
    ASSUME TypeOK, ~Outstanding PROVE queue = <<>> /\ ~OkPending
BY OccursEmpty DEF Outstanding, OkPending, TypeOK

(* Initially nothing is stored, queued or pending. *)
LEMMA TrackInit == Init => TrackInv
BY OccursEmpty DEF Init, TrackInv, NoDocument, OkPending

(* An actor starts with nothing unsaved, or on a new document. *)
LEMMA TrackStart ==
    ASSUME ~LoadFaults, ExecOrdered, TypeOK, TrackInv, Start
    PROVE  TrackInv'
<1>1. queue = <<>> /\ queue' = <<>>
  BY DEF Start, StartLoaded, StartFresh, StartBlind, StartWith, ExecReady,
         pipeVars
<1>2. OkPending' = OkPending /\ exists' = exists /\ doc' = doc
  BY DEF Start, StartLoaded, StartFresh, StartBlind, StartWith, pipeVars,
         docVars, OkPending
<1>3. CASE StartLoaded
  <2>1. exists /\ mem' = doc
    BY <1>3 DEF StartLoaded, StartWith
  <2>2. QED
    BY <1>1, <1>2, <2>1 DEF TrackInv, NoDocument, Tracked
<1>4. CASE StartFresh
  <2>1. ~exists /\ mem' = Fresh /\ all' = TRUE
    BY <1>4 DEF StartFresh, StartWith
  <2>2. doc = Fresh /\ ~OkPending
    BY <2>1 DEF TrackInv, NoDocument
  <2>3. QED
    BY <1>1, <1>2, <2>1, <2>2 DEF TrackInv, NoDocument, Tracked
<1>5. QED
  BY <1>3, <1>4 DEF Start, StartBlind
(* Changing parts keeps the others tracked; with nothing outstanding the   *)
(* changed parts are dirty and tracked too.                                *)
LEMMA TrackChange ==
    ASSUME TypeOK, TrackInv,
           InitPlayer \/ \E m \in Modules : Change(m)
    PROVE  TrackInv'
<1>1. /\ UNCHANGED <<phase, pipeVars, docVars>>
      /\ all => all'
      /\ OkPending' = OkPending
  <2>1. UNCHANGED <<phase, pipeVars, docVars>>
    BY DEF InitPlayer, Change
  <2>2. all => all'
    BY DEF InitPlayer, Change
  <2>3. OkPending' = OkPending
    BY <2>1 DEF pipeVars, OkPending
  <2>4. QED
    BY <2>1, <2>2, <2>3
<1>2. NoDocument'
  BY <1>1 DEF TrackInv, NoDocument, pipeVars, docVars
<1>3. ASSUME NEW p \in Parts, p \notin raced', phase = "running"
      PROVE  Tracked(p)'
  <2>1. CASE Outstanding
    <3>1. p \notin raced /\ mem'[p] = mem[p]
          /\ (p \in DirtyParts' <=> p \in DirtyParts)
      <4>1. CASE InitPlayer
        BY <1>3, <2>1, <4>1 DEF InitPlayer, Mark
      <4>2. ASSUME NEW m \in Modules, Change(m)
            PROVE  p \notin raced /\ mem'[p] = mem[p]
                   /\ (p \in DirtyParts' <=> p \in DirtyParts)
        BY <1>3, <2>1, <4>2 DEF Change, Mark, TypeOK, DirtyParts
      <4>3. QED
        BY <4>1, <4>2
    <3>2. Tracked(p)
      BY <1>3, <3>1 DEF TrackInv
    <3>3. QED
      BY <1>1, <3>1, <3>2 DEF Tracked, pipeVars, docVars
  <2>2. CASE ~Outstanding
    <3>1. queue' = <<>> /\ ~OkPending'
      BY <1>1, <2>2, NotOutstanding DEF pipeVars
    <3>2. p \in DirtyParts' \/ (mem'[p] = mem[p] /\ p \notin DirtyParts
                                /\ p \notin raced)
      <4>1. CASE InitPlayer
        BY <4>1 DEF InitPlayer, DirtyParts, Parts
      <4>2. ASSUME NEW m \in Modules, Change(m)
            PROVE  p \in DirtyParts' \/ (mem'[p] = mem[p] /\ p \notin DirtyParts
                                         /\ p \notin raced)
        BY <1>3, <2>2, <4>2 DEF Change, Mark, TypeOK, DirtyParts, Parts
      <4>3. QED
        BY <4>1, <4>2
    <3>3. p \notin DirtyParts' => mem'[p] = doc'[p]
      BY <1>1, <1>3, <3>2 DEF TrackInv, Tracked, docVars
    <3>4. QED
      BY <3>1, <3>3 DEF Tracked
  <2>3. QED
    BY <2>1, <2>2
<1>4. QED
  BY <1>1, <1>2, <1>3 DEF TrackInv

(* A snapshot holds the current value of every dirty part. *)
LEMMA TrackSnapshot ==
    ASSUME TypeOK, TrackInv, SaveTimerFires
    PROVE  TrackInv'
<1>1. /\ UNCHANGED <<phase, mem, all, dirties, done, held, box, docVars>>
      /\ queue' = Append(queue, Snapshot)
      /\ phase = "running"
      /\ OkPending' = OkPending
      /\ DirtyParts' = DirtyParts
  BY DEF SaveTimerFires, OkPending, DirtyParts
<1>2. /\ Len(queue') = Len(queue) + 1 /\ Len(queue) \in Nat
      /\ queue'[Len(queue) + 1] = Snapshot
      /\ \A i \in 1..Len(queue) : queue'[i] = queue[i]
  BY <1>1, SnapshotType DEF TypeOK
<1>3. NoDocument'
  BY <1>1, <1>2 DEF TrackInv, NoDocument, docVars, Snapshot
<1>4. ASSUME NEW p \in Parts, p \notin raced'
      PROVE  Tracked(p)'
  <2>1. (p \notin DirtyParts' => mem'[p] = doc'[p])
        /\ (OkPending' => mem'[p] = doc'[p])
    <3>1. CASE p \notin raced
      BY <1>1, <3>1 DEF TrackInv, Tracked, docVars
    <3>2. CASE p \in raced
      <4>1. ~Outstanding /\ p \in DirtyParts
        BY <1>4, <3>2 DEF SaveTimerFires
      <4>2. QED
        BY <1>1, <4>1, NotOutstanding
    <3>3. QED
      BY <3>1, <3>2
  <2>2. ASSUME NEW i \in 1..Len(queue)
        PROVE  /\ p \in DirtyParts' => p \in queue'[i].parts
               /\ p \in queue'[i].parts => queue'[i].vals[p] = mem'[p]
    <3>1. Outstanding
      BY <1>2, <2>2 DEF Outstanding
    <3>2. p \notin raced
      BY <1>4, <3>1 DEF SaveTimerFires
    <3>3. QED
      BY <1>1, <1>2, <2>2, <3>2 DEF TrackInv, Tracked
  <2>3. /\ p \in DirtyParts' => p \in Snapshot.parts
        /\ p \in Snapshot.parts => Snapshot.vals[p] = mem'[p]
    BY <1>1 DEF Snapshot
  <2>4. QED
    BY <1>2, <2>1, <2>2, <2>3 DEF Tracked
<1>5. QED
  BY <1>3, <1>4 DEF TrackInv

(* Executing the oldest operation stores current values of dirty parts. *)
LEMMA TrackWorker ==
    ASSUME TypeOK, TrackInv,
           NEW result \in Result, NEW hit \in BOOLEAN,
           WorkerExecutes(result, hit)
    PROVE  TrackInv'
<1> DEFINE op == Head(queue)
<1>1. /\ UNCHANGED <<phase, mem, all, dirties, raced, held, box>>
      /\ DirtyParts' = DirtyParts
      /\ queue' = Tail(queue) /\ queue # <<>>
  BY DEF WorkerExecutes, actorVars, DirtyParts
<1>2. /\ Len(queue) \in Nat \ {0} /\ Len(queue') = Len(queue) - 1
      /\ op = queue[1] /\ op \in Op
      /\ \A i \in 1..Len(queue') : i + 1 \in 1..Len(queue)
                                   /\ queue'[i] = queue[i + 1]
  BY <1>1 DEF TypeOK
<1>3. OkPending' => OkPending \/ result = "ok"
  <2>1. Occurs("ok", done') <=> Occurs("ok", done) \/ "ok" = result
    BY OccursAppend DEF WorkerExecutes, TypeOK
  <2>2. QED
    BY <1>1, <2>1 DEF OkPending
<1>4. ~exists => op.upsert
  BY <1>2 DEF TrackInv, NoDocument
<1>5. CASE hit
  <2>1. /\ exists' = TRUE
        /\ doc' = [p \in Parts |-> IF p \in op.parts THEN op.vals[p] ELSE doc[p]]
    BY <1>4, <1>5 DEF WorkerExecutes, Store
  <2>2. NoDocument'
    BY <2>1 DEF NoDocument
  <2>3. ASSUME NEW p \in Parts, p \notin raced, phase = "running"
        PROVE  Tracked(p)'
    <3>1. Tracked(p)
      BY <2>3 DEF TrackInv
    <3>2. /\ p \in DirtyParts => p \in op.parts
          /\ p \in op.parts => op.vals[p] = mem[p]
      BY <1>2, <3>1 DEF Tracked
    <3>3. mem[p] = doc'[p]
      BY <2>1, <3>1, <3>2 DEF Tracked
    <3>4. QED
      BY <1>1, <1>2, <3>1, <3>3 DEF Tracked
  <2>4. QED
    BY <1>1, <2>2, <2>3 DEF TrackInv
<1>6. CASE ~hit
  <2>1. UNCHANGED docVars /\ result # "ok"
    BY <1>6 DEF WorkerExecutes
  <2>2. NoDocument'
    BY <1>1, <1>2, <1>3, <2>1 DEF TrackInv, NoDocument, docVars
  <2>3. ASSUME NEW p \in Parts, p \notin raced, phase = "running"
        PROVE  Tracked(p)'
    BY <1>1, <1>2, <1>3, <2>1, <2>3 DEF TrackInv, Tracked, docVars
  <2>4. QED
    BY <1>1, <2>2, <2>3 DEF TrackInv
<1>7. QED
  BY <1>5, <1>6
(* A result that moves through a consumer to the box stays the same. *)
LEMMA TrackConsumer ==
    ASSUME TypeOK, TrackInv, NEW c \in Consumers,
           ConsumerTakes(c) \/ ConsumerCasts(c) \/ CastFails(c)
    PROVE  TrackInv'
<1>1. /\ UNCHANGED <<actorVars, queue, docVars, raced>>
      /\ DirtyParts' = DirtyParts
  BY DEF ConsumerTakes, ConsumerCasts, CastFails, actorVars, DirtyParts
<1>2. OkPending' => OkPending
  <2>1. CASE ConsumerTakes(c)
    <3>1. Occurs("ok", done) <=> "ok" = Head(done) \/ Occurs("ok", done')
      BY <2>1, OccursHeadTail DEF ConsumerTakes, TypeOK
    <3>2. \A b \in Consumers : held'[b] = "ok" => held[b] = "ok" \/ Head(done) = "ok"
      BY <2>1 DEF ConsumerTakes, TypeOK
    <3>3. box' = box
      BY <2>1 DEF ConsumerTakes
    <3>4. QED
      BY <3>1, <3>2, <3>3 DEF OkPending
  <2>2. CASE ConsumerCasts(c)
    <3>1. held[c] \in Result
      BY <2>2 DEF ConsumerCasts, TypeOK
    <3>2. Occurs("ok", box') <=> Occurs("ok", box) \/ "ok" = held[c]
      BY <2>2, <3>1, OccursAppend DEF ConsumerCasts, TypeOK
    <3>3. \A b \in Consumers : held'[b] = "ok" => held[b] = "ok"
      BY <2>2 DEF ConsumerCasts, TypeOK
    <3>4. done' = done
      BY <2>2 DEF ConsumerCasts
    <3>5. QED
      BY <3>2, <3>3, <3>4 DEF OkPending
  <2>3. CASE CastFails(c)
    <3>1. \A b \in Consumers : held'[b] = "ok" => held[b] = "ok"
      BY <2>3 DEF CastFails, TypeOK
    <3>2. done' = done /\ box' = box
      BY <2>3 DEF CastFails
    <3>3. QED
      BY <3>1, <3>2 DEF OkPending
  <2>4. QED
    BY <2>1, <2>2, <2>3
<1>3. QED
  BY <1>1, <1>2 DEF TrackInv, NoDocument, Tracked, actorVars, docVars

(* A success clears the marks of parts the store holds already. *)
LEMMA TrackResult ==
    ASSUME TypeOK, TrackInv, HandleSaveResult
    PROVE  TrackInv'
<1>1. /\ UNCHANGED <<phase, mem, queue, done, held, docVars, raced>>
      /\ phase = "running" /\ box # <<>> /\ box' = Tail(box)
  BY DEF HandleSaveResult, HandleSaved, HandleSaveFailed
<1>2. Occurs("ok", box) <=> "ok" = Head(box) \/ Occurs("ok", box')
  BY <1>1, OccursHeadTail DEF TypeOK
<1>3. OkPending' => OkPending
  BY <1>1, <1>2 DEF OkPending
<1>4. CASE HandleSaved
  <2>1. OkPending /\ DirtyParts' = {}
    BY <1>2, <1>4 DEF HandleSaved, OkPending, DirtyParts
  <2>2. exists
    BY <2>1 DEF TrackInv, NoDocument
  <2>3. NoDocument'
    BY <1>1, <2>2 DEF NoDocument, docVars
  <2>4. ASSUME NEW p \in Parts, p \notin raced PROVE Tracked(p)'
    BY <1>1, <2>1, <2>4 DEF TrackInv, Tracked, docVars
  <2>5. QED
    BY <1>1, <2>3, <2>4 DEF TrackInv
<1>5. CASE HandleSaveFailed
  <2>1. all' = all /\ DirtyParts' = DirtyParts
    BY <1>5 DEF HandleSaveFailed, DirtyParts
  <2>2. NoDocument'
    BY <1>1, <1>3, <2>1 DEF TrackInv, NoDocument, docVars
  <2>3. ASSUME NEW p \in Parts, p \notin raced PROVE Tracked(p)'
    BY <1>1, <1>3, <2>1, <2>3 DEF TrackInv, Tracked, docVars
  <2>4. QED
    BY <1>1, <2>2, <2>3 DEF TrackInv
<1>6. QED
  BY <1>4, <1>5 DEF HandleSaveResult

(* A stopped or crashed actor tracks nothing; the document still exists if *)
(* it did, and no success is pending while it does not.                    *)
LEMMA TrackStop ==
    ASSUME TypeOK, TrackInv, Stop \/ Crash
    PROVE  TrackInv'
<1>1. phase' # "running"
  BY DEF Stop, StopClean, StopSaved, StopFailed, Crash, Gone
<1>2. OkPending' => OkPending
  <2>1. CASE Crash
    <3>1. done' = <<>> /\ box' = <<>> /\ \A c \in Consumers : held'[c] = "none"
      BY <2>1 DEF Crash
    <3>2. QED
      BY <3>1, OccursEmpty DEF OkPending
  <2>2. CASE Stop
    <3>1. done' = done /\ held' = held /\ (box' = box \/ box' = <<>>)
      BY <2>2 DEF Stop, StopClean, StopSaved, StopFailed, BoxAtStop
    <3>2. QED
      BY <3>1, OccursEmpty DEF OkPending
  <2>3. QED
    BY <2>1, <2>2
<1>3. (\A i \in 1..Len(queue) : queue[i].upsert)
         => (\A i \in 1..Len(queue') : queue'[i].upsert)
  <2>1. queue' = queue \/ queue' = <<>>
    BY DEF Stop, StopClean, StopSaved, StopFailed, Crash
  <2>2. QED
    BY <2>1
<1>4. exists' \/ (~exists /\ doc' = doc)
  BY DEF Stop, StopClean, StopSaved, StopFailed, Crash, Store, docVars, TypeOK
<1>5. QED
  BY <1>1, <1>2, <1>3, <1>4 DEF TrackInv, NoDocument

(* A change made while no save was outstanding stays marked dirty until    *)
(* the document holds it, whatever operations fail and in whatever order   *)
(* the consumers deliver the results.                                      *)
THEOREM NothingForgotten ==
    ASSUME ~LoadFaults, ExecOrdered PROVE Spec => []NoForgottenChange
<1>1. Init => TrackInv
  BY TrackInit
<1>2. TypeOK /\ TrackInv /\ [Next]_vars => TrackInv'
  <2> SUFFICES ASSUME TypeOK, TrackInv, [Next]_vars PROVE TrackInv'
    OBVIOUS
  <2>1. CASE Start
    BY <2>1, TrackStart
  <2>2. CASE InitPlayer \/ \E m \in Modules : Change(m)
    BY <2>2, TrackChange
  <2>3. CASE SaveTimerFires
    BY <2>3, TrackSnapshot
  <2>4. CASE Worker
    BY <2>4, TrackWorker DEF Worker
  <2>5. CASE \E c \in Consumers :
                ConsumerTakes(c) \/ ConsumerCasts(c) \/ CastFails(c)
    BY <2>5, TrackConsumer
  <2>6. CASE HandleSaveResult
    BY <2>6, TrackResult
  <2>7. CASE Stop \/ Crash
    BY <2>7, TrackStop
  <2>8. CASE SaveTimerRefused \/ UNCHANGED vars
    <3>1. UNCHANGED <<phase, mem, all, dirties, pipeVars, docVars, raced>>
      BY <2>8 DEF SaveTimerRefused, vars, actorVars
    <3>2. OkPending' = OkPending /\ DirtyParts' = DirtyParts
      BY <3>1 DEF OkPending, DirtyParts, pipeVars
    <3>3. QED
      BY <3>1, <3>2 DEF TrackInv, NoDocument, Tracked, pipeVars, docVars
  <2>9. QED
    BY <2>1, <2>2, <2>3, <2>4, <2>5, <2>6, <2>7, <2>8 DEF Next
<1>3. TrackInv => NoForgottenChange
  BY DEF TrackInv, Tracked, NoForgottenChange
<1>4. QED
  BY <1>1, <1>2, <1>3, TypeCorrect, PTL DEF Spec
-----------------------------------------------------------------------------
(***************************************************************************)
(* The document moves forward only: ActorPersist implements ModuleStore,   *)
(* when loads succeed and Exec keeps the order of the queue.               *)
(***************************************************************************)

(* Document, queued snapshots and memory form an increasing chain. *)
Chain ==
    /\ ~exists => doc = Fresh
    /\ \A p \in Parts : doc[p] <= mem[p]
    /\ \A p \in Parts, i \in 1..Len(queue) :
          doc[p] <= queue[i].vals[p] /\ queue[i].vals[p] <= mem[p]
    /\ \A p \in Parts : \A i, j \in 1..Len(queue) :
          i < j => queue[i].vals[p] <= queue[j].vals[p]

(* Storing values between the document and memory is a forward step. *)
LEMMA StoreForward ==
    ASSUME TypeOK, NEW op \in Op, Store(op) \/ UNCHANGED docVars,
           \A p \in Parts : doc[p] <= mem[p],
           \A p \in Parts : doc[p] <= op.vals[p] /\ op.vals[p] <= mem[p]
    PROVE  /\ doc' \in [Parts -> Nat]
           /\ \A p \in Parts : /\ doc[p] <= doc'[p]
                               /\ doc'[p] <= mem[p]
                               /\ doc'[p] <= op.vals[p] \/ doc'[p] = doc[p]
           /\ exists' \/ (~exists /\ doc' = doc)
<1>1. op.vals \in [Parts -> Nat]
  BY DEF Op
<1>2. mem \in [Parts -> Nat] /\ doc \in [Parts -> Nat] /\ exists \in BOOLEAN
  BY DEF TypeOK
<1>3. CASE UNCHANGED docVars
  BY <1>2, <1>3 DEF docVars
<1>4. CASE Store(op)
  BY <1>1, <1>2, <1>4 DEF Store, docVars
<1>5. QED
  BY <1>3, <1>4

(* Every queued value is a number of changes. *)
LEMMA QueueType ==
    ASSUME TypeOK, NEW i \in 1..Len(queue)
    PROVE  queue[i] \in Op /\ queue[i].vals \in [Parts -> Nat]
<1>1. queue[i] \in Op
  BY DEF TypeOK
<1>2. QED
  BY <1>1 DEF Op

(* A snapshot holds the whole memory; its parts say what is written. *)
LEMMA SnapshotVals == Snapshot.vals = mem
BY DEF Snapshot

(* An actor starts from the document with nothing queued. *)
LEMMA ChainStart ==
    ASSUME ~LoadFaults, ExecOrdered, TypeOK, Chain, Start
    PROVE  Chain' /\ Abs!Open
<1>1. phase = "absent" /\ phase' = "running" /\ queue' = <<>> /\ UNCHANGED docVars
  BY DEF Start, StartLoaded, StartFresh, StartBlind, StartWith, ExecReady,
         pipeVars
<1>2. mem' = doc
  BY DEF Start, StartLoaded, StartFresh, StartBlind, StartWith, Chain
<1>3. Chain'
  BY <1>1, <1>2 DEF Chain, docVars, TypeOK
<1>4. QED
  BY <1>1, <1>2, <1>3 DEF Abs!Open, docVars

(* Changes raise memory only. *)
LEMMA ChainChange ==
    ASSUME TypeOK, Chain, InitPlayer \/ \E m \in Modules : Change(m)
    PROVE  Chain' /\ Abs!Modify
<1>1. phase = "running" /\ phase' = phase /\ UNCHANGED <<pipeVars, docVars>>
  BY DEF InitPlayer, Change
<1>2. PICK S \in SUBSET Parts :
         mem' = [p \in Parts |-> IF p \in S THEN mem[p] + 1 ELSE mem[p]]
  <2>1. CASE InitPlayer
    <3>1. mem' = [p \in Parts |-> IF p \in Parts THEN mem[p] + 1 ELSE mem[p]]
      BY <2>1 DEF InitPlayer
    <3>2. QED
      BY <3>1
  <2>2. ASSUME NEW m \in Modules, Change(m)
        PROVE  \E S \in SUBSET Parts :
                 mem' = [p \in Parts |-> IF p \in S THEN mem[p] + 1 ELSE mem[p]]
    <3>1. {m} \in SUBSET Parts
      BY DEF Parts
    <3>2. mem' = [p \in Parts |-> IF p \in {m} THEN mem[p] + 1 ELSE mem[p]]
      BY <2>2 DEF Change, TypeOK
    <3>3. QED
      BY <3>1, <3>2
  <2>3. QED
    BY <2>1, <2>2
<1>3. \A p \in Parts : mem[p] <= mem'[p] /\ mem[p] \in Nat /\ mem'[p] \in Nat
  BY <1>2 DEF TypeOK
<1>4. \A p \in Parts, i \in 1..Len(queue) :
         queue[i].vals[p] \in Nat /\ doc[p] \in Nat
  BY QueueType DEF TypeOK
<1>5. Chain'
  <2>1. queue' = queue /\ exists' = exists /\ doc' = doc
    BY <1>1 DEF pipeVars, docVars
  <2>2. \A p \in Parts : doc[p] <= mem'[p]
    BY <1>3 DEF Chain, TypeOK
  <2>3. \A p \in Parts, i \in 1..Len(queue) :
           doc[p] <= queue[i].vals[p] /\ queue[i].vals[p] <= mem'[p]
    BY <1>3, <1>4 DEF Chain
  <2>4. QED
    BY <2>1, <2>2, <2>3 DEF Chain
<1>6. Abs!Modify
  BY <1>1, <1>2 DEF Abs!Modify, docVars
<1>7. QED
  BY <1>5, <1>6

(* A snapshot continues the chain. *)
LEMMA ChainSnapshot ==
    ASSUME TypeOK, Chain, SaveTimerFires
    PROVE  Chain'
<1>1. /\ UNCHANGED <<mem, docVars>>
      /\ queue' = Append(queue, Snapshot)
  BY DEF SaveTimerFires
<1>2. /\ Len(queue') = Len(queue) + 1 /\ Len(queue) \in Nat
      /\ queue'[Len(queue) + 1] = Snapshot
      /\ \A i \in 1..Len(queue) : queue'[i] = queue[i]
  BY <1>1, SnapshotType DEF TypeOK
<1>3. \A p \in Parts : doc[p] \in Nat /\ mem[p] \in Nat
  BY DEF TypeOK
<1>4. \A p \in Parts, i \in 1..Len(queue') :
         /\ doc[p] <= queue'[i].vals[p]
         /\ queue'[i].vals[p] <= mem[p]
  BY <1>2, <1>3, SnapshotVals DEF Chain
<1>5. \A p \in Parts : \A i, j \in 1..Len(queue') :
         i < j => queue'[i].vals[p] <= queue'[j].vals[p]
  <2> SUFFICES ASSUME NEW p \in Parts,
                      NEW i \in 1..Len(queue'), NEW j \in 1..Len(queue'), i < j
               PROVE  queue'[i].vals[p] <= queue'[j].vals[p]
    OBVIOUS
  <2>1. i \in 1..Len(queue)
    BY <1>2
  <2>2. CASE j \in 1..Len(queue)
    BY <1>2, <2>1, <2>2 DEF Chain
  <2>3. CASE j = Len(queue) + 1
    BY <1>2, <1>4, <2>1, <2>3, SnapshotVals
  <2>4. QED
    BY <1>2, <2>2, <2>3
<1>6. QED
  BY <1>1, <1>4, <1>5 DEF Chain, docVars

(* The oldest snapshot is below the others, so storing it keeps the chain. *)
LEMMA ChainWorker ==
    ASSUME TypeOK, Chain,
           NEW result \in Result, NEW hit \in BOOLEAN,
           WorkerExecutes(result, hit)
    PROVE  Chain' /\ Abs!Persist
<1> DEFINE op == Head(queue)
<1>1. /\ UNCHANGED <<phase, mem>>
      /\ queue' = Tail(queue) /\ queue # <<>>
      /\ Store(op) \/ UNCHANGED docVars
  BY DEF WorkerExecutes, actorVars
<1>2. /\ Len(queue) \in Nat \ {0} /\ Len(queue') = Len(queue) - 1
      /\ op = queue[1] /\ op \in Op
      /\ \A i \in 1..Len(queue') : i + 1 \in 1..Len(queue)
                                   /\ queue'[i] = queue[i + 1]
  BY <1>1 DEF TypeOK
<1>3. /\ \A p \in Parts : doc[p] <= mem[p]
      /\ \A p \in Parts : doc[p] <= op.vals[p] /\ op.vals[p] <= mem[p]
  BY <1>2 DEF Chain
<1>4. /\ doc' \in [Parts -> Nat]
      /\ \A p \in Parts : /\ doc[p] <= doc'[p]
                          /\ doc'[p] <= mem[p]
                          /\ doc'[p] <= op.vals[p] \/ doc'[p] = doc[p]
      /\ exists' \/ (~exists /\ doc' = doc)
  BY <1>1, <1>2, <1>3, StoreForward
<1>5. \A p \in Parts, i \in 1..Len(queue') :
         doc'[p] <= queue'[i].vals[p] /\ queue'[i].vals[p] <= mem[p]
  <2> SUFFICES ASSUME NEW p \in Parts, NEW i \in 1..Len(queue')
               PROVE  doc'[p] <= queue'[i].vals[p] /\ queue'[i].vals[p] <= mem[p]
    OBVIOUS
  <2>1. i + 1 \in 1..Len(queue) /\ 1 \in 1..Len(queue) /\ 1 < i + 1
    BY <1>2
  <2>2. /\ op.vals[p] <= queue[i + 1].vals[p]
        /\ doc[p] <= queue[i + 1].vals[p]
        /\ queue[i + 1].vals[p] <= mem[p]
    BY <1>2, <2>1 DEF Chain
  <2>3. op.vals[p] \in Nat /\ queue[i + 1].vals[p] \in Nat /\ doc'[p] \in Nat
    BY <1>2, <1>4, <2>1, QueueType
  <2>4. QED
    BY <1>2, <1>4, <2>2, <2>3
<1>6. \A p \in Parts : \A i, j \in 1..Len(queue') :
         i < j => queue'[i].vals[p] <= queue'[j].vals[p]
  BY <1>2 DEF Chain
<1>7. Chain'
  BY <1>1, <1>4, <1>5, <1>6 DEF Chain
<1>8. Abs!Persist
  BY <1>1, <1>4 DEF Abs!Persist, Abs!Forward
<1>9. QED
  BY <1>7, <1>8

(* Stopping stores memory, the top of the chain, behind an empty queue. *)
LEMMA ChainStop ==
    ASSUME ExecOrdered, TypeOK, Chain, Stop
    PROVE  Chain' /\ (Abs!Close \/ Abs!Persist)
<1>1. mem' = mem /\ queue' = queue /\ phase # "absent"
  BY DEF Stop, StopClean, StopSaved, StopFailed
<1>2. \A p \in Parts : doc[p] \in Nat /\ mem[p] \in Nat /\ doc[p] <= mem[p]
  BY DEF TypeOK, Chain
<1>3. /\ doc' \in [Parts -> Nat]
      /\ \A p \in Parts : doc[p] <= doc'[p] /\ doc'[p] <= mem[p]
      /\ exists' \/ (~exists /\ doc' = doc)
  <2>1. Store(Snapshot) \/ UNCHANGED docVars
    BY DEF Stop, StopClean, StopSaved, StopFailed
  <2>2. \A p \in Parts : doc[p] <= Snapshot.vals[p] /\ Snapshot.vals[p] <= mem[p]
    BY <1>2, SnapshotVals
  <2>3. QED
    BY <1>2, <2>1, <2>2, SnapshotType, StoreForward
<1>4. queue = <<>> \/ doc' = doc
  BY DEF Stop, StopClean, StopSaved, StopFailed, ExecReady, docVars
<1>5. Chain'
  BY <1>1, <1>3, <1>4 DEF Chain
<1>6. CASE phase' = "absent"
  BY <1>1, <1>3, <1>5, <1>6 DEF Abs!Close, Abs!Forward
<1>7. CASE phase' # "absent"
  BY <1>1, <1>3, <1>5, <1>7 DEF Abs!Persist, Abs!Forward
<1>8. QED
  BY <1>6, <1>7

(* A crash leaves the document, the bottom of the chain. *)
LEMMA ChainCrash ==
    ASSUME TypeOK, Chain, Crash
    PROVE  Chain' /\ (Abs!Close \/ UNCHANGED Abs!storeVars)
<1>1. phase' = "absent" /\ queue' = <<>> /\ UNCHANGED <<mem, docVars>>
  BY DEF Crash, Gone
<1>2. \A p \in Parts : doc[p] \in Nat /\ mem[p] \in Nat /\ doc[p] <= mem[p]
  BY DEF TypeOK, Chain
<1>3. Chain'
  BY <1>1 DEF Chain, docVars
<1>4. CASE phase = "absent"
  BY <1>1, <1>3, <1>4 DEF Abs!storeVars, docVars
<1>5. CASE phase # "absent"
  BY <1>1, <1>2, <1>3, <1>5 DEF Abs!Close, Abs!Forward, docVars, TypeOK
<1>6. QED
  BY <1>4, <1>5

(* The other steps touch neither memory, the queue nor the document. *)
LEMMA ChainStutter ==
    ASSUME Chain, UNCHANGED <<phase, mem, queue, docVars>>
    PROVE  Chain' /\ UNCHANGED Abs!storeVars
BY DEF Chain, docVars, Abs!storeVars

(* The document only moves forward through states the memory held, and an  *)
(* actor always starts from it: ActorPersist implements ModuleStore.       *)
THEOREM StoreIsRefined ==
    ASSUME ~LoadFaults, ExecOrdered PROVE Spec => StoreRefined
<1>1. Init => Chain /\ Abs!StoreInit
  BY FreshType DEF Init, Chain, Fresh, Abs!StoreInit
<1>2. TypeOK /\ Chain /\ [Next]_vars
         => Chain' /\ [Abs!StoreNext]_(Abs!storeVars)
  <2> SUFFICES ASSUME TypeOK, Chain, [Next]_vars
               PROVE  Chain' /\ [Abs!StoreNext]_(Abs!storeVars)
    OBVIOUS
  <2>1. CASE Start
    BY <2>1, ChainStart DEF Abs!StoreNext
  <2>2. CASE InitPlayer \/ \E m \in Modules : Change(m)
    BY <2>2, ChainChange DEF Abs!StoreNext
  <2>3. CASE SaveTimerFires
    <3>1. UNCHANGED Abs!storeVars
      BY <2>3 DEF SaveTimerFires, docVars, Abs!storeVars
    <3>2. QED
      BY <2>3, <3>1, ChainSnapshot
  <2>4. CASE Worker
    BY <2>4, ChainWorker DEF Worker, Abs!StoreNext
  <2>5. CASE Stop
    BY <2>5, ChainStop DEF Abs!StoreNext
  <2>6. CASE Crash
    BY <2>6, ChainCrash DEF Abs!StoreNext
  <2>7. CASE \/ SaveTimerRefused
             \/ HandleSaveResult
             \/ \E c \in Consumers :
                   ConsumerTakes(c) \/ ConsumerCasts(c) \/ CastFails(c)
             \/ UNCHANGED vars
    <3>1. UNCHANGED <<phase, mem, queue, docVars>>
      BY <2>7 DEF SaveTimerRefused, HandleSaveResult, HandleSaved,
                  HandleSaveFailed, ConsumerTakes, ConsumerCasts, CastFails,
                  vars, actorVars, pipeVars
    <3>2. QED
      BY <3>1, ChainStutter
  <2>8. QED
    BY <2>1, <2>2, <2>3, <2>4, <2>5, <2>6, <2>7 DEF Next
<1>3. QED
  BY <1>1, <1>2, TypeCorrect, PTL DEF Spec, StoreRefined, Abs!StoreSpec
=============================================================================
