---------------------------- MODULE AgentSessions ----------------------------
(***************************************************************************)
(* The agents of one gateway process: app/agent/internal (agent.go),       *)
(* app/agent/internal/infra/agent (agent.go, hook_login.go, actor.go) and  *)
(* the callbacks of app/agent/internal/app/actor.go.                       *)
(*                                                                         *)
(* An agent is one accepted connection.  Its reader (readLoop) runs the    *)
(* login, its writer (pendingPacketLoop) forwards what the player actor    *)
(* sends.  The registry maps a player to an agent, the login lock (redis)  *)
(* serialises logins of one account, and the game server remembers the     *)
(* current session of each player.  Any goroutine may stop any agent; the  *)
(* body of stop() runs in the goroutine that won its compare-and-swap and  *)
(* interleaves with everything else.  Calls over the network may fail      *)
(* after they took effect: the lock, the connect, the disconnect.          *)
(***************************************************************************)
EXTENDS Naturals, FiniteSets

CONSTANTS
    Agents,       \* accepted connections
    Players,      \* characters
    Accounts,     \* accounts (TokenInfo.UID), the keys of the login lock
    AccountOf,    \* the account of each character
    Callbacks,    \* goroutines of the actor client that deliver to agents
    None,         \* no agent, no player
    Left,         \* owner of a lock that nobody will release
    Relogin,      \* TRUE: a client may log in again on its connection
    LockExpires,  \* TRUE: a login may outlive the expiry of its lock
    MaxSessions,  \* bound: sessions opened with the game server
    MaxPending    \* capacity of chPendingPackets (maxPendingPackets)

ASSUME AgentAssumption ==
    /\ None \notin Agents \cup Players
    /\ Left \notin Agents \cup {None}
    /\ AccountOf \in [Players -> Accounts]
    /\ Relogin \in BOOLEAN /\ LockExpires \in BOOLEAN
    /\ MaxSessions \in Nat /\ MaxPending \in Nat \ {0}

VARIABLES
    stopFlag,    \* stop() has been won by some goroutine
    stopPc,      \* where the body of stop() is
    chStop,      \* the channel chStop is closed
    wanted,      \* the reason stop() was called with
    stopReason,  \* the field stopReason
    reader,      \* where readLoop, or the login it runs, is
    target,      \* the player of the login request being handled
    another,     \* the agent a login found registered for its player
    newSid,      \* the session id of a login, until the agent has it
    awaits,      \* the agent whose stop body this agent's reader runs
    player,      \* the field playerId
    sid,         \* the field sessionId
    writer,      \* where pendingPacketLoop is
    writerStops, \* this agent's writer runs its stop body
    told,        \* the reason pushed to the client
    pending,     \* packets in chPendingPackets
    callback,    \* the agent each callback found and is about to act on
    registry,    \* internal.agents
    lock,        \* holder of the login lock of each account
    session,     \* the game server's session of each player, 0 for none
    nextSid,     \* GenSessionId
    lost,        \* history: sessions whose disconnect failed, or that a
                 \* connect opened whose answer was lost
    robbed       \* history: agents whose registry entry another agent's stop
                 \* deleted

stopVars   == <<stopFlag, stopPc, chStop, wanted, stopReason>>
readerVars == <<reader, target, another, newSid, awaits, player, sid>>
writerVars == <<writer, writerStops, told, pending>>
gameVars   == <<session, nextSid, lost>>
vars == <<stopVars, readerVars, writerVars, callback, registry, lock, gameVars,
          robbed>>

Reasons == {"Unknown", "SystemError", "AnotherLogin", "LoginTimeout"}
StopPcs == {"idle", "close", "reason", "delete", "disconnect", "done"}
LockedPcs == {"kick", "remove", "stop", "connect", "assign", "sid", "register",
              "forward", "abort", "unlock"}
ReaderPcs == {"loop", "read", "lock", "exited"} \cup LockedPcs
WriterPcs == {"select", "notify", "silent", "exited"}

TypeOK ==
    /\ stopFlag \in [Agents -> BOOLEAN]
    /\ stopPc \in [Agents -> StopPcs]
    /\ chStop \in [Agents -> BOOLEAN]
    /\ wanted \in [Agents -> Reasons]
    /\ stopReason \in [Agents -> Reasons]
    /\ reader \in [Agents -> ReaderPcs]
    /\ target \in [Agents -> Players \cup {None}]
    /\ another \in [Agents -> Agents \cup {None}]
    /\ newSid \in [Agents -> 0..MaxSessions]
    /\ awaits \in [Agents -> Agents \cup {None}]
    /\ player \in [Agents -> Players \cup {None}]
    /\ sid \in [Agents -> 0..MaxSessions]
    /\ writer \in [Agents -> WriterPcs]
    /\ writerStops \in [Agents -> BOOLEAN]
    /\ told \in [Agents -> Reasons]
    /\ pending \in [Agents -> 0..MaxPending]
    /\ callback \in [Callbacks -> Agents \cup {None}]
    /\ registry \in [Players -> Agents \cup {None}]
    /\ lock \in [Accounts -> Agents \cup {None, Left}]
    /\ session \in [Players -> 0..MaxSessions]
    /\ nextSid \in 1..(MaxSessions + 1)
    /\ lost \subseteq 1..MaxSessions
    /\ robbed \subseteq Agents

Init ==
    /\ stopFlag = [a \in Agents |-> FALSE]
    /\ stopPc = [a \in Agents |-> "idle"]
    /\ chStop = [a \in Agents |-> FALSE]
    /\ wanted = [a \in Agents |-> "Unknown"]
    /\ stopReason = [a \in Agents |-> "Unknown"]
    /\ reader = [a \in Agents |-> "loop"]
    /\ target = [a \in Agents |-> None]
    /\ another = [a \in Agents |-> None]
    /\ newSid = [a \in Agents |-> 0]
    /\ awaits = [a \in Agents |-> None]
    /\ player = [a \in Agents |-> None]
    /\ sid = [a \in Agents |-> 0]
    /\ writer = [a \in Agents |-> "select"]
    /\ writerStops = [a \in Agents |-> FALSE]
    /\ told = [a \in Agents |-> "Unknown"]
    /\ pending = [a \in Agents |-> 0]
    /\ callback = [c \in Callbacks |-> None]
    /\ registry = [p \in Players |-> None]
    /\ lock = [u \in Accounts |-> None]
    /\ session = [p \in Players |-> 0]
    /\ nextSid = 1
    /\ lost = {}
    /\ robbed = {}

-----------------------------------------------------------------------------
(* stop(): the compare-and-swap, then the body. *)

isConnected(a) == player[a] # None /\ sid[a] # 0

(* The call: whoever sets the flag runs the body, the others return. *)
CallStop(a, why) ==
    IF stopFlag[a]
    THEN UNCHANGED stopVars
    ELSE /\ stopFlag' = [stopFlag EXCEPT ![a] = TRUE]
         /\ stopPc' = [stopPc EXCEPT ![a] = "close"]
         /\ wanted' = [wanted EXCEPT ![a] = why]
         /\ UNCHANGED <<chStop, stopReason>>

(* Mutant: stop() does not close chStop. *)
StopClosesNothing(a) ==
    /\ stopPc[a] = "close"
    /\ stopPc' = [stopPc EXCEPT ![a] = "reason"]
    /\ UNCHANGED <<stopFlag, chStop, wanted, stopReason, readerVars,
                   writerVars, callback, registry, lock, gameVars, robbed>>

StopCloses(a) ==
    /\ stopPc[a] = "close"
    /\ chStop' = [chStop EXCEPT ![a] = TRUE]
    /\ stopPc' = [stopPc EXCEPT ![a] = "reason"]
    /\ UNCHANGED <<stopFlag, wanted, stopReason, readerVars, writerVars,
                   callback, registry, lock, gameVars, robbed>>

StopSetsReason(a) ==
    /\ stopPc[a] = "reason"
    /\ stopReason' = [stopReason EXCEPT ![a] = wanted[a]]
    /\ stopPc' = [stopPc EXCEPT ![a] =
                     IF isConnected(a) THEN "delete" ELSE "done"]
    /\ UNCHANGED <<stopFlag, chStop, wanted, readerVars, writerVars, callback,
                   registry, lock, gameVars, robbed>>

(* DelAgent removes the entry of a's player, whoever it names. *)
DelAgent(a) ==
    /\ registry' = [registry EXCEPT ![player[a]] = None]
    /\ robbed' = robbed \cup ({registry[player[a]]} \ {a, None})

(* Mutant: the stop keeps the registry entry. *)
StopDeletesNothing(a) ==
    /\ stopPc[a] = "delete"
    /\ stopPc' = [stopPc EXCEPT ![a] = "disconnect"]
    /\ UNCHANGED <<stopFlag, chStop, wanted, stopReason, readerVars,
                   writerVars, callback, registry, lock, gameVars, robbed>>

StopDeletes(a) ==
    /\ stopPc[a] = "delete"
    /\ DelAgent(a)
    /\ stopPc' = [stopPc EXCEPT ![a] = "disconnect"]
    /\ UNCHANGED <<stopFlag, chStop, wanted, stopReason, readerVars,
                   writerVars, callback, lock, gameVars>>

(* disconnectPlayer: the game server drops the session if it is current.   *)
(* Its error is only logged: the session then stays with the game server.  *)
StopDisconnects(a) ==
    /\ stopPc[a] = "disconnect"
    /\ \/ /\ session' = [session EXCEPT ![player[a]] =
                              IF @ = sid[a] THEN 0 ELSE @]
          /\ UNCHANGED lost
       \/ /\ lost' = lost \cup {sid[a]}
          /\ UNCHANGED session
    /\ stopPc' = [stopPc EXCEPT ![a] = "done"]
    /\ UNCHANGED <<stopFlag, chStop, wanted, stopReason, readerVars,
                   writerVars, callback, registry, lock, nextSid, robbed>>

-----------------------------------------------------------------------------
(* readLoop. *)

(* The reader is not inside a stop body it has to finish first. *)
ReaderReady(a) == awaits[a] # None => stopPc[awaits[a]] = "done"

(* The reader of a calls k.Stop(why); it runs the body if it wins. *)
ReaderStops(a, k, why) ==
    /\ CallStop(k, why)
    /\ awaits' = [awaits EXCEPT ![a] = IF stopFlag[k] THEN None ELSE k]

Goes(a, pc) == reader' = [reader EXCEPT ![a] = pc]

(* The select at the head of the loop: end when chStop is closed, else     *)
(* block in the read of the next packet.                                   *)
ReaderSeesStop(a) ==
    /\ reader[a] = "loop" /\ ReaderReady(a)
    /\ chStop[a]
    /\ Goes(a, "exited")
    /\ UNCHANGED <<stopVars, target, another, newSid, awaits, player, sid,
                   writerVars, callback, registry, lock, gameVars, robbed>>

ReaderReads(a) ==
    /\ reader[a] = "loop" /\ ReaderReady(a)
    /\ ~chStop[a]
    /\ Goes(a, "read")
    /\ UNCHANGED <<stopVars, target, another, newSid, awaits, player, sid,
                   writerVars, callback, registry, lock, gameVars, robbed>>

(* Any other request is forwarded to the player actor. *)
ReaderForwards(a) ==
    /\ reader[a] = "read"
    /\ writer[a] # "exited"
    /\ isConnected(a)
    /\ Goes(a, "loop")
    /\ UNCHANGED <<stopVars, target, another, newSid, awaits, player, sid,
                   writerVars, callback, registry, lock, gameVars, robbed>>

(* A bad packet, a read or forward error, or the read timeout: the reader  *)
(* stops its agent and ends.                                               *)
ReaderFails(a) ==
    /\ reader[a] = "read"
    /\ ReaderStops(a, a, "SystemError")
    /\ Goes(a, "exited")
    /\ UNCHANGED <<target, another, newSid, player, sid, writerVars, callback,
                   registry, lock, gameVars, robbed>>

-----------------------------------------------------------------------------
(* handleLoginReq, run by the reader. *)

(* A LoginReq whose token is not valid: the hook stops the agent and       *)
(* returns to the loop.                                                    *)
RejectToken(a) ==
    /\ reader[a] = "read"
    /\ writer[a] # "exited"
    /\ ReaderStops(a, a, "Unknown")
    /\ Goes(a, "loop")
    /\ UNCHANGED <<target, another, newSid, player, sid, writerVars, callback,
                   registry, lock, gameVars, robbed>>

(* A LoginReq with a valid token for p arrives. *)
ReadLoginReq(a, p) ==
    /\ reader[a] = "read"
    /\ writer[a] # "exited"
    /\ Relogin \/ target[a] = None
    /\ target' = [target EXCEPT ![a] = p]
    /\ Goes(a, "lock")
    /\ UNCHANGED <<stopVars, another, newSid, awaits, player, sid, writerVars,
                   callback, registry, lock, gameVars, robbed>>

(* Mutant: logins are not serialised. *)
LockLoginShared(a) ==
    LET u == AccountOf[target[a]] IN
    /\ reader[a] = "lock"
    /\ lock' = [lock EXCEPT ![u] = a]
    /\ Goes(a, "kick")
    /\ UNCHANGED <<stopVars, target, another, newSid, awaits, player, sid,
                   writerVars, callback, registry, gameVars, robbed>>

LockLogin(a) ==
    LET u == AccountOf[target[a]] IN
    /\ reader[a] = "lock"
    /\ lock[u] = None
    /\ lock' = [lock EXCEPT ![u] = a]
    /\ Goes(a, "kick")
    /\ UNCHANGED <<stopVars, target, another, newSid, awaits, player, sid,
                   writerVars, callback, registry, gameVars, robbed>>

(* lock.Lock returns an error: its context expired, or the answer of redis *)
(* was lost, and then the lock may be taken with nobody to release it.     *)
LockTimeout(a) ==
    LET u == AccountOf[target[a]] IN
    /\ reader[a] = "lock"
    /\ lock' \in {lock, [lock EXCEPT ![u] = IF @ = None THEN Left ELSE @]}
    /\ ReaderStops(a, a, "LoginTimeout")
    /\ Goes(a, "loop")
    /\ UNCHANGED <<target, another, newSid, player, sid, writerVars, callback,
                   registry, gameVars, robbed>>

(* GetAgent(playerId). *)
FindAnother(a) ==
    LET found == registry[target[a]] IN
    /\ reader[a] = "kick"
    /\ another' = [another EXCEPT ![a] = found]
    /\ Goes(a, IF found = None THEN "connect" ELSE "remove")
    /\ UNCHANGED <<stopVars, target, newSid, awaits, player, sid, writerVars,
                   callback, registry, lock, gameVars, robbed>>

(* DelAgent(anothor). *)
RemoveAnother(a) ==
    /\ reader[a] = "remove"
    /\ DelAgent(another[a])
    /\ Goes(a, "stop")
    /\ UNCHANGED <<stopVars, target, another, newSid, awaits, player, sid,
                   writerVars, callback, lock, gameVars>>

(* Mutant: the other agent is removed, not stopped. *)
StopAnotherNever(a) ==
    /\ reader[a] = "stop"
    /\ another' = [another EXCEPT ![a] = None]
    /\ Goes(a, "connect")
    /\ UNCHANGED <<stopVars, target, newSid, awaits, player, sid, writerVars,
                   callback, registry, lock, gameVars, robbed>>

(* anothor.Stop(AnotherLogin). *)
StopAnother(a) ==
    /\ reader[a] = "stop"
    /\ ReaderStops(a, another[a], "AnotherLogin")
    /\ another' = [another EXCEPT ![a] = None]
    /\ Goes(a, "connect")
    /\ UNCHANGED <<target, newSid, player, sid, writerVars, callback, registry,
                   lock, gameVars, robbed>>

(* The player's actor opens a session with the next id. *)
SessionOpens(a) ==
    /\ nextSid <= MaxSessions
    /\ session' = [session EXCEPT ![target[a]] = nextSid]
    /\ nextSid' = nextSid + 1

(* The player's node is found or picked and its actor accepts a session. *)
ConnectPlayer(a) ==
    /\ reader[a] = "connect" /\ ReaderReady(a)
    /\ SessionOpens(a)
    /\ newSid' = [newSid EXCEPT ![a] = nextSid]
    /\ Goes(a, "assign")
    /\ UNCHANGED <<stopVars, target, another, awaits, player, sid, writerVars,
                   callback, registry, lock, lost, robbed>>

(* Mutant: the error path returns before Unlock is deferred. *)
ConnectFailsLocked(a) ==
    /\ reader[a] = "connect" /\ ReaderReady(a)
    /\ ReaderStops(a, a, "SystemError")
    /\ Goes(a, "loop")
    /\ UNCHANGED <<target, another, newSid, player, sid, writerVars, callback,
                   registry, lock, gameVars, robbed>>

(* Locating, registering or connecting to the actor fails; a connect whose *)
(* answer is lost leaves a session the agent does not know.                *)
ConnectFails(a) ==
    /\ reader[a] = "connect" /\ ReaderReady(a)
    /\ \/ UNCHANGED gameVars
       \/ SessionOpens(a) /\ lost' = lost \cup {nextSid}
    /\ ReaderStops(a, a, "SystemError")
    /\ Goes(a, "unlock")
    /\ UNCHANGED <<target, another, newSid, player, sid, writerVars, callback,
                   registry, lock, robbed>>

(* a.playerId = playerId. *)
AssignPlayer(a) ==
    /\ reader[a] = "assign"
    /\ player' = [player EXCEPT ![a] = target[a]]
    /\ Goes(a, "sid")
    /\ UNCHANGED <<stopVars, target, another, newSid, awaits, sid, writerVars,
                   callback, registry, lock, gameVars, robbed>>

(* a.sessionId = sessionId. *)
AssignSid(a) ==
    /\ reader[a] = "sid"
    /\ sid' = [sid EXCEPT ![a] = newSid[a]]
    /\ newSid' = [newSid EXCEPT ![a] = 0]
    /\ Goes(a, "register")
    /\ UNCHANGED <<stopVars, target, another, awaits, player, writerVars,
                   callback, registry, lock, gameVars, robbed>>

AddAgent(a) ==
    /\ reader[a] = "register"
    /\ registry' = [registry EXCEPT ![player[a]] = a]
    /\ Goes(a, "forward")
    /\ UNCHANGED <<stopVars, target, another, newSid, awaits, player, sid,
                   writerVars, callback, lock, gameVars, robbed>>

(* LoginCharacterReq is forwarded to the player actor. *)
ForwardLogin(a) ==
    /\ reader[a] = "forward"
    /\ Goes(a, "unlock")
    /\ UNCHANGED <<stopVars, target, another, newSid, awaits, player, sid,
                   writerVars, callback, registry, lock, gameVars, robbed>>

(* It cannot be forwarded: DelAgent(a), and then a.Stop. *)
ForwardFails(a) ==
    /\ reader[a] = "forward"
    /\ DelAgent(a)
    /\ Goes(a, "abort")
    /\ UNCHANGED <<stopVars, target, another, newSid, awaits, player, sid,
                   writerVars, callback, lock, gameVars>>

AbortLogin(a) ==
    /\ reader[a] = "abort"
    /\ ReaderStops(a, a, "SystemError")
    /\ Goes(a, "unlock")
    /\ UNCHANGED <<target, another, newSid, player, sid, writerVars, callback,
                   registry, lock, gameVars, robbed>>

(* The deferred Unlock releases the lock if it is still a's.  Its error is *)
(* ignored (its context runs since before the Lock): nobody releases the   *)
(* lock then, it is left to expire.                                        *)
UnlockLogin(a) ==
    LET u == AccountOf[target[a]] IN
    /\ reader[a] = "unlock" /\ ReaderReady(a)
    /\ IF lock[u] = a
       THEN \E left \in {None, Left} : lock' = [lock EXCEPT ![u] = left]
       ELSE UNCHANGED lock
    /\ Goes(a, "loop")
    /\ UNCHANGED <<stopVars, target, another, newSid, awaits, player, sid,
                   writerVars, callback, registry, gameVars, robbed>>

(* A lock nobody releases expires; one may expire during its login.        *)
LockExpiry(u) ==
    /\ lock[u] = Left \/ (LockExpires /\ lock[u] # None)
    /\ lock' = [lock EXCEPT ![u] = None]
    /\ UNCHANGED <<stopVars, readerVars, writerVars, callback, registry,
                   gameVars, robbed>>

-----------------------------------------------------------------------------
(* pendingPacketLoop. *)

(* The writer is not inside the stop body it has to finish first. *)
WriterReady(a) == writerStops[a] => stopPc[a] = "done"

TakePending(a) ==
    /\ writer[a] = "select" /\ WriterReady(a)
    /\ pending[a] > 0
    /\ pending' = [pending EXCEPT ![a] = @ - 1]

(* The writer calls Stop on its own agent; it runs the body if it wins. *)
WriterStops(a) ==
    /\ CallStop(a, "SystemError")
    /\ writerStops' = [writerStops EXCEPT ![a] = ~stopFlag[a]]

WriterForwards(a) ==
    /\ TakePending(a)
    /\ UNCHANGED <<stopVars, readerVars, writer, writerStops, told, callback,
                   registry, lock, gameVars, robbed>>

(* A packet cannot be decoded ("notify") or written: the writer stops its  *)
(* agent, and after a write error ("silent") it pushes no reason.  When    *)
(* only the LoginResp of a LoginCharacterResp cannot be sent the hook      *)
(* stops the agent and the writer goes on ("select").                      *)
WriterFails(a, pc) ==
    /\ pc \in {"notify", "silent", "select"}
    /\ TakePending(a)
    /\ WriterStops(a)
    /\ writer' = [writer EXCEPT ![a] = pc]
    /\ UNCHANGED <<readerVars, told, callback, registry, lock, gameVars, robbed>>

(* pendingPacketLoopStop: push stopReason unless it is Unknown, close the  *)
(* connection.                                                             *)
WriterEnds(a) ==
    /\ writer[a] = "select" => chStop[a]
    /\ writer[a] # "exited" /\ WriterReady(a)
    /\ told' = [told EXCEPT ![a] =
                   IF writer[a] = "silent" THEN "Unknown" ELSE stopReason[a]]
    /\ writer' = [writer EXCEPT ![a] = "exited"]
    /\ UNCHANGED <<stopVars, readerVars, writerStops, pending, callback,
                   registry, lock, gameVars, robbed>>

-----------------------------------------------------------------------------
(* HandleResponse, HandlePush, HandleDisconnect and StopAllAgents: each    *)
(* finds the registered agent and then acts on it.                         *)

FindAgent(c, p) ==
    /\ callback[c] = None
    /\ registry[p] # None
    /\ callback' = [callback EXCEPT ![c] = registry[p]]
    /\ UNCHANGED <<stopVars, readerVars, writerVars, registry, lock, gameVars,
                   robbed>>

Returns(c) == callback' = [callback EXCEPT ![c] = None]

(* Mutant: the packet is sent without the select on the capacity. *)
EnqueueOver(c) ==
    LET a == callback[c] IN
    /\ a # None
    /\ pending' = [pending EXCEPT ![a] = @ + 1]
    /\ Returns(c)
    /\ UNCHANGED <<stopVars, readerVars, writer, writerStops, told, registry,
                   lock, gameVars, robbed>>

(* ReceivePacket waits until there is room in chPendingPackets ... *)
Enqueue(c) ==
    LET a == callback[c] IN
    /\ a # None
    /\ pending[a] < MaxPending
    /\ pending' = [pending EXCEPT ![a] = @ + 1]
    /\ Returns(c)
    /\ UNCHANGED <<stopVars, readerVars, writer, writerStops, told, registry,
                   lock, gameVars, robbed>>

CallbackCallsStop(c) ==
    /\ CallStop(callback[c], "SystemError")
    /\ Returns(c)
    /\ UNCHANGED <<readerVars, writerVars, registry, lock, gameVars, robbed>>

(* ... or until chStop is closed: ErrStopped, for which the callback calls *)
(* Stop.                                                                   *)
ReceiveStopped(c) ==
    /\ callback[c] # None
    /\ chStop[callback[c]]
    /\ CallbackCallsStop(c)

(* An error response, a malformed packet, a disconnect, StopAllAgents. *)
CallbackStops(c) ==
    /\ callback[c] # None
    /\ CallbackCallsStop(c)

(* The player actor closes its session (logout, heartbeat, actor stop). *)
GameDisconnects(p) ==
    /\ session[p] # 0
    /\ session' = [session EXCEPT ![p] = 0]
    /\ UNCHANGED <<stopVars, readerVars, writerVars, callback, registry, lock,
                   nextSid, lost, robbed>>

-----------------------------------------------------------------------------
StopBody(a) ==
    StopCloses(a) \/ StopSetsReason(a) \/ StopDeletes(a) \/ StopDisconnects(a)

Login(a) ==
    \/ LockLogin(a) \/ LockTimeout(a)
    \/ FindAnother(a) \/ RemoveAnother(a) \/ StopAnother(a)
    \/ ConnectPlayer(a) \/ ConnectFails(a)
    \/ AssignPlayer(a) \/ AssignSid(a) \/ AddAgent(a)
    \/ ForwardLogin(a) \/ ForwardFails(a) \/ AbortLogin(a)
    \/ UnlockLogin(a)

Reader(a) ==
    \/ ReaderReads(a) \/ ReaderSeesStop(a)
    \/ RejectToken(a)
    \/ \E p \in Players : ReadLoginReq(a, p)
    \/ Login(a)
    \/ ReaderForwards(a)
    \/ ReaderFails(a)

Writer(a) ==
    \/ WriterForwards(a)
    \/ \E pc \in WriterPcs : WriterFails(a, pc)
    \/ WriterEnds(a)

Callback(c) ==
    \/ \E p \in Players : FindAgent(c, p)
    \/ Enqueue(c) \/ ReceiveStopped(c) \/ CallbackStops(c)

Next ==
    \/ \E a \in Agents : StopBody(a) \/ Reader(a) \/ Writer(a)
    \/ \E c \in Callbacks : Callback(c)
    \/ \E p \in Players : GameDisconnects(p)
    \/ \E u \in Accounts : LockExpiry(u)

Spec == Init /\ [][Next]_vars

(* Goroutines run; a read ends with a packet, an error or the read timeout *)
(* and a closed connection makes it fail; a login step returns in bounded  *)
(* time; a select with a case that stays ready takes one in the end.       *)
(* Nothing is assumed of the client, of the writes to it, of the game      *)
(* server or of the expiry of a lock.                                      *)
Fairness ==
    /\ \A a \in Agents :
        /\ WF_vars(StopBody(a))
        /\ WF_vars(Login(a))
        /\ WF_vars(ReaderFails(a) \/ ReaderSeesStop(a))
        /\ WF_vars(WriterEnds(a))
    /\ \A c \in Callbacks : WF_vars(Enqueue(c) \/ ReceiveStopped(c))

FairSpec == Spec /\ Fairness

-----------------------------------------------------------------------------
(* Properties. *)

FullyStopped(a) ==
    reader[a] = "exited" /\ ReaderReady(a) /\ writer[a] = "exited"
    /\ stopPc[a] = "done"

(* A login finds no entry left for its player when it registers: the lock  *)
(* spans the removal of the previous agent and the new registration.       *)
AddNeverOverwrites ==
    [][\A a \in Agents : AddAgent(a) => registry[player[a]] = None]_registry

(* A login has removed a from the registry and calls its Stop next. *)
BeingStopped(a) ==
    \/ reader[a] = "abort"
    \/ \E b \in Agents : reader[b] = "stop" /\ another[b] = a

(* The connections of a player are never served twice: a logged-in agent   *)
(* nobody has stopped or is about to stop is the registered one, unless    *)
(* another agent's stop took its entry away.                               *)
LiveIsRegistered ==
    \A a \in Agents \ robbed :
        /\ isConnected(a) /\ reader[a] \notin {"sid", "register"}
        /\ ~stopFlag[a] /\ ~BeingStopped(a)
        => registry[player[a]] = a

(* s is the session of a, or of the login it runs, with the actor of p. *)
Owns(a, p, s) ==
    \/ player[a] = p /\ sid[a] = s
    \/ reader[a] \in {"assign", "sid"} /\ target[a] = p /\ newSid[a] = s

(* Nothing of a stopped agent is left behind: what is registered has not   *)
(* ended, and a session the game server holds belongs to an agent that has *)
(* not ended, unless the game server could not be told of its end.         *)
StoppedLeavesNothing ==
    \A p \in Players :
        /\ registry[p] # None => ~FullyStopped(registry[p])
        /\ session[p] \notin lost \cup {0} =>
              \E a \in Agents : Owns(a, p, session[p]) /\ ~FullyStopped(a)

(* Whatever stops an agent, both its loops end and its stop completes      *)
(* (agent.go: "when readLoop and pendingPacketLoop have stopped").         *)
StopCompletes == \A a \in Agents : stopFlag[a] ~> FullyStopped(a)

(* A goroutine that delivers to an agent is not held by it for good once   *)
(* the agent is stopped, even when its queue is full and its writer hangs  *)
(* in a write to the client: ReceivePacket gives up when chStop closes.    *)
CallbackReturns ==
    \A c \in Callbacks, a \in Agents :
        callback[c] = a /\ stopFlag[a] ~> callback[c] # a

(* No path through a login keeps the account locked: a lock is held by a   *)
(* login of its account that is between taking and releasing it, or its    *)
(* Unlock failed or the answer to its Lock was lost (Left), and then it    *)
(* only waits for its expiry.                                              *)
LockHeldInLogin ==
    \A u \in Accounts, a \in Agents :
        lock[u] = a => reader[a] \in LockedPcs /\ AccountOf[target[a]] = u

(* DelAgent deletes the agent it is called for ("DelAgent deletes Agent"). *)
DeletesOwnEntry == robbed = {}

(* A client whose agent was stopped for another login or for a login       *)
(* timeout is told so before its connection closes.                        *)
KickedIsTold ==
    \A a \in Agents :
        writer[a] = "exited" /\ wanted[a] \in {"AnotherLogin", "LoginTimeout"}
            => told[a] = wanted[a]
=============================================================================
