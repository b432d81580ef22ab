---------------------------- MODULE PlayerSession ----------------------------
(***************************************************************************)
(* The login state of a player actor and its heartbeat timer               *)
(* (internal/infra/actor/actors/player.go and the login handlers under     *)
(* app/game/internal/handler/player), with the clients that log in one     *)
(* after the other as the same character.                                  *)
(*                                                                         *)
(* An actor handles the messages of its box one by one; a login keeps it   *)
(* busy while it asks the server actor for its name.  A timer that fires   *)
(* puts a message into the box, which is handled later: the timer may have *)
(* been replaced by then.  Time is discrete: a Tick lets one unit pass.    *)
(***************************************************************************)
EXTENDS Naturals, Sequences

CONSTANTS
  Clients,    \* connections that log in as this character
  None,       \* no client
  Interval,   \* consts.HeartbeatInterval
  Timeout,    \* consts.HeartbeatTimeout
  Reply,      \* longest answer to the request of the server's name
  Delay       \* longest wait of a message in the box

ASSUME SessionAssumption ==
  /\ None \notin Clients
  /\ {Interval, Timeout} \subseteq Nat \ {0} /\ {Reply, Delay} \subseteq Nat

VARIABLES
  client,     \* what each client does
  due,        \* time to the next tick of each client's heartbeat ticker
  conn,       \* the connected client
  box,        \* the box of the actor
  busy,       \* the client whose login is being handled
  wait,       \* time the request of the server's name may still take
  isLogin,
  timerId,    \* heartbeatTimerId, 0: TimerIdNone
  started,    \* timers started so far
  running,    \* the running timer, 0: none
  rest,       \* time until it fires
  idle        \* time since lastHeartbeatTime, at most Timeout

vars == <<client, due, conn, box, busy, wait, isLogin, timerId, started, running, rest, idle>>
timers == <<timerId, started, running, rest>>
clients == <<client, due, conn>>

Message == [kind : {"login", "beat"}, from : Clients, age : 0 .. Delay]
             \cup [kind : {"timer"}, tid : Nat, age : 0 .. Delay]

Init ==
  /\ client = [c \in Clients |-> "out"] /\ due = [c \in Clients |-> 0]
  /\ conn = None /\ box = <<>> /\ busy = None /\ wait = 0
  /\ isLogin = FALSE /\ timerId = 0 /\ started = 0 /\ running = 0 /\ rest = 0
  /\ idle = Timeout

Send(m) == box' = Append(box, m)

\* The actor takes the first message of its box.
Take(kind) ==
  /\ busy = None /\ box # <<>> /\ Head(box).kind = kind
  /\ box' = Tail(box)

\* The connected client loses its connection.
Drop(as) == IF conn = None THEN client ELSE [client EXCEPT ![conn] = as]

-----------------------------------------------------------------------------
(* The clients and their agents *)

\* An agent connects the client, which replaces the one that is connected, and
\* forwards its login.  OnConnected changes nothing.
Connect(c) ==
  /\ client[c] = "out"
  /\ client' = [Drop("gone") EXCEPT ![c] = "login"]
  /\ conn' = c
  /\ Send([kind |-> "login", from |-> c, age |-> 0])
  /\ UNCHANGED <<due, busy, wait, isLogin, timers, idle>>

\* The ticker of a client that plays ticks.
Beat(c) ==
  /\ client[c] \in {"fresh", "beating"} /\ due[c] = 0
  /\ client' = [client EXCEPT ![c] = "beating"]
  /\ due' = [due EXCEPT ![c] = Interval]
  /\ Send([kind |-> "beat", from |-> c, age |-> 0])
  /\ UNCHANGED <<conn, busy, wait, isLogin, timers, idle>>

\* A client falls silent while its connection stays: mute, when it has never
\* sent a heartbeat.
Silence(c) ==
  /\ \/ client[c] = "fresh" /\ client' = [client EXCEPT ![c] = "mute"]
     \/ client[c] = "beating" /\ client' = [client EXCEPT ![c] = "silent"]
  /\ UNCHANGED <<due, conn, box, busy, wait, isLogin, timers, idle>>

\* The connection ends.  OnDisconnected changes nothing.
Leave(c) ==
  /\ conn = c
  /\ client' = Drop("gone") /\ conn' = None
  /\ UNCHANGED <<due, box, busy, wait, isLogin, timers, idle>>

-----------------------------------------------------------------------------
(* The handlers of the actor *)

\* Mutant: the id of the new timer is not stored.
StartTimerUnnamed ==
  /\ started' = started + 1 /\ timerId' = timerId /\ running' = started'
  /\ rest' = Timeout

\* startHeartbeatTimer: one-shot; the one it replaces is stopped.
StartHeartbeatTimer ==
  /\ started' = started + 1 /\ timerId' = started' /\ running' = started'
  /\ rest' = Timeout

\* handleLoginCharacter up to its request: SetLogin, when InitPlayer succeeds.
HandleLogin ==
  /\ Take("login")
  /\ LET c == Head(box).from IN
       /\ conn = c
       /\ \/ /\ isLogin' = TRUE /\ StartHeartbeatTimer
             /\ busy' = c /\ wait' = Reply
             /\ UNCHANGED client
          \/ /\ client' = [client EXCEPT ![c] = "refused"]
             /\ UNCHANGED <<busy, wait, isLogin, timers>>
  /\ UNCHANGED <<due, conn, idle>>

\* The rest of handleLoginCharacter: without the name the client gets an
\* error, but stays logged in.  Its ticker starts with the response.
FinishLogin ==
  /\ busy # None
  /\ busy' = None
  /\ IF client[busy] = "login"
       THEN \E answer \in {"fresh", "refused"} : client' = [client EXCEPT ![busy] = answer]
       ELSE UNCHANGED client
  /\ due' = [due EXCEPT ![busy] = Interval]
  /\ wait' = 0
  /\ UNCHANGED <<conn, box, isLogin, timers, idle>>

\* handleHeartbeat behind mdCheckLogin.
HandleBeat ==
  /\ Take("beat")
  /\ conn = Head(box).from
  /\ idle' = IF isLogin THEN 0 ELSE idle
  /\ UNCHANGED <<clients, busy, wait, isLogin, timers>>

\* A message of a client that is not connected any more does not reach a
\* handler.
DropMessage ==
  /\ \E kind \in {"login", "beat"} : Take(kind)
  /\ conn # Head(box).from
  /\ UNCHANGED <<clients, busy, wait, isLogin, timers, idle>>

\* The running timer fires: it leaves a message, heartbeatTimerId stays.
TimerFires ==
  /\ running # 0 /\ rest = 0
  /\ Send([kind |-> "timer", tid |-> running, age |-> 0])
  /\ running' = 0
  /\ UNCHANGED <<clients, busy, wait, isLogin, timerId, started, rest, idle>>

\* onHeartbeatTimer of another timer than the current one.
HandleStaleTimer ==
  /\ Take("timer")
  /\ Head(box).tid # timerId
  /\ UNCHANGED <<clients, busy, wait, isLogin, timers, idle>>

\* onHeartbeatTimer after a heartbeat: nothing starts the timer again.
HandleTimer ==
  /\ Take("timer")
  /\ Head(box).tid = timerId /\ idle < Timeout
  /\ UNCHANGED <<clients, busy, wait, isLogin, timers, idle>>

\* Mutant: onHeartbeatTimer does not ask which timer has fired.
LogOutAnyTimer ==
  /\ Take("timer")
  /\ idle >= Timeout
  /\ isLogin' = FALSE /\ timerId' = 0 /\ running' = 0
  /\ client' = Drop("gone") /\ conn' = None
  /\ UNCHANGED <<due, busy, wait, started, rest, idle>>

\* Mutant: SetLogout does not disconnect.
LogOutConnected ==
  /\ Take("timer")
  /\ Head(box).tid = timerId /\ idle >= Timeout
  /\ isLogin' = FALSE /\ timerId' = 0 /\ running' = 0
  /\ UNCHANGED <<clients, busy, wait, started, rest, idle>>

\* onHeartbeatTimer without a heartbeat: SetLogout, which disconnects whoever
\* is connected.
LogOut ==
  /\ Take("timer")
  /\ Head(box).tid = timerId /\ idle >= Timeout
  /\ isLogin' = FALSE /\ timerId' = 0 /\ running' = 0
  /\ client' = Drop("gone") /\ conn' = None
  /\ UNCHANGED <<due, busy, wait, started, rest, idle>>

Less(n) == IF n = 0 THEN 0 ELSE n - 1

\* A unit of time passes.  Nothing is late: tickers, timers, answers and the
\* messages in the box.
Tick ==
  /\ \A c \in Clients : client[c] \in {"fresh", "beating"} => due[c] > 0
  /\ running # 0 => rest > 0
  /\ busy # None => wait > 0
  /\ \A i \in 1 .. Len(box) : box[i].age < Delay
  /\ due' = [c \in Clients |-> Less(due[c])]
  /\ rest' = Less(rest) /\ wait' = Less(wait)
  /\ box' = [i \in 1 .. Len(box) |-> [box[i] EXCEPT !.age = @ + 1]]
  /\ idle' = IF idle < Timeout THEN idle + 1 ELSE Timeout
  /\ UNCHANGED <<client, conn, busy, isLogin, timerId, started, running>>

Player == HandleLogin \/ FinishLogin \/ HandleBeat \/ DropMessage \/ TimerFires
            \/ HandleStaleTimer \/ HandleTimer \/ LogOut

Next == Player \/ Tick
          \/ \E c \in Clients : Connect(c) \/ Beat(c) \/ Silence(c) \/ Leave(c)

\* The actor and the clock go on, and so does the ticker of a client that plays.
Fairness == WF_vars(Player) /\ WF_vars(Tick) /\ \A c \in Clients : WF_vars(Beat(c))

Spec == Init /\ [][Next]_vars /\ Fairness

-----------------------------------------------------------------------------
(* Properties *)

\* Types, and: the timer that runs is the one heartbeatTimerId names.
TypeOK ==
  /\ client \in [Clients -> {"out", "login", "fresh", "beating", "mute", "silent", "refused", "gone"}]
  /\ due \in [Clients -> 0 .. Interval] /\ conn \in Clients \cup {None}
  /\ box \in Seq(Message) /\ busy \in Clients \cup {None} /\ wait \in 0 .. Reply
  /\ isLogin \in BOOLEAN /\ idle \in 0 .. Timeout /\ rest \in 0 .. Timeout
  /\ {timerId, started, running} \subseteq Nat /\ running \in {0, timerId}

\* A client that sends its heartbeats in time is never logged out: neither by
\* its own timer, which starts before its ticker, nor by that of an earlier
\* login that has fired and waits in the box (SetLogin, onHeartbeatTimer).
PunctualStays ==
  [][\A c \in Clients : conn = c /\ client[c] \in {"fresh", "beating"} => ~ LogOut]_vars

\* A client that never sends a heartbeat after its login loses its session,
\* whatever earlier clients of the character have left behind
\* (startHeartbeatTimer, onHeartbeatTimer, SetLogout).
MuteIsLoggedOut == \A c \in Clients : client[c] = "mute" ~> client[c] # "mute"
=============================================================================
