-------------------------- MODULE PlayerSessionProofs --------------------------
(***************************************************************************)
(* Proofs about PlayerSession, for every set of clients and all times; for *)
(* PunctualStays the times have to leave room for a heartbeat (InTime).    *)
(***************************************************************************)
EXTENDS PlayerSession, Integers, TLAPS

-----------------------------------------------------------------------------
(* The box *)

Size == Len(box)

(* A message is taken from the front ... *)
LEMMA TakeEffect ==
  ASSUME TypeOK, NEW kind, Take(kind)
  PROVE  /\ Size \in Nat \ {0} /\ Size' = Size - 1 /\ box' \in Seq(Message)
         /\ Head(box) = box[1] /\ box[1] \in Message /\ box[1].kind = kind
         /\ \A i \in 1 .. Size - 1 : box'[i] = box[i + 1]
  BY DEF TypeOK, Take, Size

(* ... sent to the back ... *)
LEMMA SendEffect ==
  ASSUME TypeOK, NEW m \in Message, Send(m)
  PROVE  /\ Size \in Nat /\ Size' = Size + 1 /\ box' \in Seq(Message)
         /\ box'[Size + 1] = m
         /\ \A i \in 1 .. Size : box'[i] = box[i]
  BY DEF TypeOK, Send, Size

LEMMA Older ==
  ASSUME NEW m \in Message, m.age < Delay
  PROVE  LET n == [m EXCEPT !.age = @ + 1] IN
           /\ n \in Message /\ n.kind = m.kind /\ n.age = m.age + 1
           /\ m.kind = "timer" => n.tid = m.tid
           /\ m.kind # "timer" => n.from = m.from
<1> USE SessionAssumption
<1>1. CASE m \in [kind : {"login", "beat"}, from : Clients, age : 0 .. Delay]
  BY <1>1 DEF Message
<1>2. CASE m \in [kind : {"timer"}, tid : Nat, age : 0 .. Delay]
  BY <1>2 DEF Message
<1>3. QED
  BY <1>1, <1>2 DEF Message

(* ... and gets older as time passes. *)
LEMMA TickEffect ==
  ASSUME TypeOK, Tick
  PROVE  /\ Size \in Nat /\ Size' = Size /\ box' \in Seq(Message)
         /\ \A i \in 1 .. Size :
              /\ box'[i].kind = box[i].kind /\ box'[i].age = box[i].age + 1
              /\ box[i].kind = "timer" => box'[i].tid = box[i].tid
              /\ box[i].kind # "timer" => box'[i].from = box[i].from
<1>1. /\ Size \in Nat /\ \A i \in 1 .. Size : box[i] \in Message /\ box[i].age < Delay
      /\ box' = [i \in 1 .. Size |-> [box[i] EXCEPT !.age = @ + 1]]
  BY DEF TypeOK, Tick, Size
<1>2. \A i \in 1 .. Size : box'[i] = [box[i] EXCEPT !.age = @ + 1] /\ box'[i] \in Message
  BY <1>1, Older
<1>3. box' \in Seq(Message) /\ Size' = Size
  BY <1>1, <1>2 DEF Size
<1>4. QED
  BY <1>1, <1>2, <1>3, Older

-----------------------------------------------------------------------------
(* Types *)

LEMMA TypeInit == Init => TypeOK
<1> SUFFICES ASSUME Init PROVE TypeOK
  OBVIOUS
<1> USE SessionAssumption DEF Init
<1>1. box \in Seq(Message) /\ {timerId, started, running} \subseteq Nat /\ running \in {0, timerId}
  OBVIOUS
<1>2. /\ wait \in 0 .. Reply /\ idle \in 0 .. Timeout /\ rest \in 0 .. Timeout
      /\ due \in [Clients -> 0 .. Interval]
  OBVIOUS
<1>3. QED
  BY <1>1, <1>2 DEF TypeOK

LEMMA TypeNext == TypeOK /\ [Next]_vars => TypeOK'
<1> SUFFICES ASSUME TypeOK, [Next]_vars PROVE TypeOK'
  OBVIOUS
<1> USE SessionAssumption
<1>1. ASSUME NEW c \in Clients, Connect(c) PROVE TypeOK'
  <2>1. box' \in Seq(Message)
    <3>1. [kind |-> "login", from |-> c, age |-> 0] \in Message
      BY DEF Message
    <3>2. QED
      BY <1>1, <3>1, SendEffect DEF Connect
  <2>2. QED
    BY <1>1, <2>1 DEF Connect, Drop, TypeOK, timers
<1>2. ASSUME NEW c \in Clients, Beat(c) PROVE TypeOK'
  <2>1. box' \in Seq(Message)
    <3>1. [kind |-> "beat", from |-> c, age |-> 0] \in Message
      BY DEF Message
    <3>2. QED
      BY <1>2, <3>1, SendEffect DEF Beat
  <2>2. QED
    BY <1>2, <2>1 DEF Beat, TypeOK, timers
<1>3. ASSUME NEW c \in Clients, Silence(c) \/ Leave(c) PROVE TypeOK'
  BY <1>3 DEF Silence, Leave, Drop, TypeOK, timers
<1>4. ASSUME NEW kind, Take(kind), kind # "timer" PROVE box[1].from \in Clients
  BY <1>4, TakeEffect DEF Message
<1>5. CASE HandleLogin
  <2>1. box' \in Seq(Message) /\ Head(box) = box[1] /\ box[1].from \in Clients
    BY <1>4, <1>5, TakeEffect DEF HandleLogin
  <2>2. CASE UNCHANGED <<busy, wait, isLogin, timers>> /\ client' = [client EXCEPT ![Head(box).from] = "refused"]
    BY <1>5, <2>1, <2>2 DEF HandleLogin, TypeOK, timers
  <2>3. CASE /\ isLogin' = TRUE /\ StartHeartbeatTimer
             /\ busy' = Head(box).from /\ wait' = Reply /\ UNCHANGED client
    <3>1. {timerId', started', running'} \subseteq Nat /\ running' = timerId' /\ rest' = Timeout
      BY <2>3 DEF StartHeartbeatTimer, TypeOK
    <3>2. UNCHANGED <<due, conn, idle, client>> /\ busy' \in Clients /\ isLogin' = TRUE
      BY <1>5, <2>1, <2>3 DEF HandleLogin
    <3>3. wait' \in 0 .. Reply /\ rest' \in 0 .. Timeout
      BY <2>3, <3>1
    <3>4. QED
      BY <2>1, <3>1, <3>2, <3>3 DEF TypeOK
  <2>4. QED
    BY <1>5, <2>2, <2>3 DEF HandleLogin
<1>6. CASE FinishLogin
  <2>1. client' \in [Clients -> {"out", "login", "fresh", "beating", "mute", "silent", "refused", "gone"}]
    BY <1>6 DEF FinishLogin, TypeOK
  <2>2. due' \in [Clients -> 0 .. Interval]
    <3>1. Interval \in 0 .. Interval
      OBVIOUS
    <3>2. QED
      BY <1>6, <3>1 DEF FinishLogin, TypeOK
  <2>3. wait' \in 0 .. Reply
    BY <1>6 DEF FinishLogin
  <2>4. QED
    BY <1>6, <2>1, <2>2, <2>3 DEF FinishLogin, TypeOK, timers
<1>7. ASSUME NEW kind, Take(kind), UNCHANGED <<clients, busy, wait, isLogin, timers>>,
             idle' \in {0, idle}
      PROVE  TypeOK'
  <2>1. box' \in Seq(Message)
    BY <1>7, TakeEffect
  <2>2. UNCHANGED <<client, due, conn, busy, wait, isLogin, timerId, started, running, rest>>
    BY <1>7 DEF timers, clients
  <2>3. idle' \in 0 .. Timeout
    BY <1>7 DEF TypeOK
  <2>4. QED
    BY <2>1, <2>2, <2>3 DEF TypeOK
<1>8. CASE HandleBeat \/ DropMessage \/ HandleStaleTimer \/ HandleTimer
  BY <1>7, <1>8 DEF HandleBeat, DropMessage, HandleStaleTimer, HandleTimer
<1>9. CASE TimerFires
  <2>1. box' \in Seq(Message)
    <3>1. [kind |-> "timer", tid |-> running, age |-> 0] \in Message
      BY DEF Message, TypeOK
    <3>2. QED
      BY <1>9, <3>1, SendEffect DEF TimerFires
  <2>2. QED
    BY <1>9, <2>1 DEF TimerFires, TypeOK, clients
<1>10. CASE LogOut
  <2>1. box' \in Seq(Message)
    BY <1>10, TakeEffect DEF LogOut
  <2>2. client' \in [Clients -> {"out", "login", "fresh", "beating", "mute", "silent", "refused", "gone"}]
    BY <1>10 DEF LogOut, Drop, TypeOK
  <2>3. {timerId', started', running'} \subseteq Nat /\ running' = timerId'
    BY <1>10 DEF LogOut, TypeOK
  <2>4. QED
    BY <1>10, <2>1, <2>2, <2>3 DEF LogOut, TypeOK
<1>11. CASE Tick
  <2>1. box' \in Seq(Message)
    BY <1>11, TickEffect
  <2>2. \A n \in Nat : \A k \in 0 .. n : Less(k) \in 0 .. n
    BY DEF Less
  <2>3. due' \in [Clients -> 0 .. Interval]
    BY <1>11, <2>2 DEF Tick, TypeOK
  <2>4. wait' \in 0 .. Reply /\ rest' \in 0 .. Timeout
    BY <1>11, <2>2 DEF Tick, TypeOK
  <2>5. idle' \in 0 .. Timeout
    BY <1>11 DEF Tick, TypeOK
  <2>6. QED
    BY <1>11, <2>1, <2>3, <2>4, <2>5 DEF Tick, TypeOK
<1>12. CASE UNCHANGED vars
  BY <1>12 DEF vars, TypeOK
<1>13. QED
  BY <1>1, <1>2, <1>3, <1>5, <1>6, <1>8, <1>9, <1>10, <1>11, <1>12 DEF Next, Player

(* Types, and: the timer that runs is the one heartbeatTimerId names.      *)
THEOREM SessionTypeCorrect == Spec => []TypeOK
  BY TypeInit, TypeNext, PTL DEF Spec

-----------------------------------------------------------------------------
(* Punctual clients *)

From(kind, c) == {i \in 1 .. Size : box[i].kind = kind /\ box[i].from = c}
Timers(t) == {i \in 1 .. Size : box[i].kind = "timer" /\ box[i].tid = t}

(* The timers in the box have been started and do not run any more.        *)
TimerInv ==
  /\ timerId <= started
  /\ \A i \in 1 .. Size : box[i].kind = "timer" =>
       box[i].tid \in 1 .. started /\ box[i].tid # running

(* A character has one client at a time that logs in or plays: the         *)
(* connected one, whose login is in the box or in work, or done.           *)
ClientInv ==
  \A c \in Clients :
    /\ client[c] \in {"login", "fresh", "beating"} => conn = c
    /\ client[c] = "out" => From("login", c) = {} /\ From("beat", c) = {} /\ busy # c
    /\ From("login", c) # {} => client[c] \in {"login", "gone"} /\ busy # c
    /\ \A i, j \in From("login", c) : i = j
    /\ busy = c => client[c] \in {"login", "gone"}
    /\ client[c] \in {"fresh", "beating"} \/ (client[c] = "login" /\ busy = c) => isLogin

(* The times of the connected client: its timer has started with its       *)
(* login, before its ticker; until its first heartbeat is in the box the   *)
(* timer runs, and from the first that is handled the last one is recent.  *)
BeatenBy(c) ==
  \/ idle + due[c] <= Interval
  \/ From("beat", c) # {} /\ idle + due[c] <= Interval + Interval
  \/ \E i \in From("beat", c) : running # 0 \/ \A j \in Timers(timerId) : i < j

TimeOf(c) ==
  /\ client[c] = "login" /\ busy = c => running # 0 /\ rest + Reply >= Timeout + wait
  /\ client[c] \in {"login", "fresh"} => From("beat", c) = {}
  /\ client[c] = "fresh" => running # 0 /\ rest + Reply + Interval >= Timeout + due[c]
  /\ client[c] = "beating" =>
       BeatenBy(c) /\ \A i \in From("beat", c) : box[i].age + due[c] = Interval

TimeInv == \A c \in Clients : TimeOf(c)

(* The sets of positions as messages come and go. *)
LEMMA TakeMoves ==
  ASSUME TypeOK, NEW k, Take(k)
  PROVE  /\ \A kind \in {"login", "beat"}, c \in Clients :
              /\ \A i \in From(kind, c)' : i \in 1 .. Size' /\ i + 1 \in From(kind, c)
              /\ \A i \in From(kind, c) : i \in 1 .. Size /\ (i # 1 => i - 1 \in From(kind, c)')
              /\ 1 \in From(kind, c) <=> k = kind /\ box[1].from = c
         /\ \A t :
              /\ \A i \in Timers(t)' : i \in 1 .. Size' /\ i + 1 \in Timers(t)
              /\ 1 \in Timers(t) <=> k = "timer" /\ box[1].tid = t
  BY TakeEffect DEF From, Timers

LEMMA SendMoves ==
  ASSUME TypeOK, NEW m \in Message, Send(m)
  PROVE  /\ \A kind \in {"login", "beat"}, c \in Clients :
              IF m.kind = kind /\ m.from = c
                THEN From(kind, c)' = From(kind, c) \cup {Size + 1}
                ELSE From(kind, c)' = From(kind, c)
         /\ \A t : IF m.kind = "timer" /\ m.tid = t
                     THEN Timers(t)' = Timers(t) \cup {Size + 1}
                     ELSE Timers(t)' = Timers(t)
         /\ Size \in Nat
<1>1. /\ Size \in Nat /\ Size' = Size + 1 /\ box'[Size + 1] = m
      /\ \A i \in 1 .. Size : box'[i] = box[i]
      /\ 1 .. Size + 1 = 1 .. Size \cup {Size + 1}
  BY SendEffect
<1>2. QED
  BY <1>1 DEF From, Timers

LEMMA TickMoves ==
  ASSUME TypeOK, Tick
  PROVE  /\ \A kind \in {"login", "beat"}, c \in Clients : From(kind, c)' = From(kind, c)
         /\ \A t : Timers(t)' = Timers(t)
  BY TickEffect DEF From, Timers

LEMMA KeepMoves ==
  ASSUME UNCHANGED box
  PROVE  /\ \A kind, c : From(kind, c)' = From(kind, c)
         /\ \A t : Timers(t)' = Timers(t)
         /\ Size' = Size
  BY DEF From, Timers, Size

LEMMA PunctualInit == Init => TimerInv /\ ClientInv /\ TimeInv
<1> SUFFICES ASSUME Init PROVE TimerInv /\ ClientInv /\ TimeInv
  OBVIOUS
<1>1. Size = 0 /\ 1 .. Size = {}
  BY DEF Init, Size
<1>2. \A kind, c : From(kind, c) = {}
  BY <1>1 DEF From
<1>3. QED
  BY <1>1, <1>2, SessionAssumption DEF Init, TimerInv, ClientInv, TimeInv, TimeOf

LEMMA TimerNext == TypeOK /\ TimerInv /\ [Next]_vars => TimerInv'
<1> SUFFICES ASSUME TypeOK, TimerInv, [Next]_vars PROVE TimerInv'
  OBVIOUS
<1>1. /\ timerId \in Nat /\ started \in Nat /\ running \in Nat /\ running \in {0, timerId}
  BY DEF TypeOK
<1>2. CASE UNCHANGED <<timerId, started, running, box>>
  BY <1>2 DEF TimerInv, Size
<1>3. ASSUME NEW c \in Clients, Connect(c) PROVE TimerInv'
  <2>1. [kind |-> "login", from |-> c, age |-> 0] \in Message
    BY SessionAssumption DEF Message
  <2>2. QED
    BY <1>1, <1>3, <2>1, SendEffect DEF Connect, timers, TimerInv
<1>4. ASSUME NEW c \in Clients, Beat(c) PROVE TimerInv'
  <2>1. [kind |-> "beat", from |-> c, age |-> 0] \in Message
    BY SessionAssumption DEF Message
  <2>2. QED
    BY <1>1, <1>4, <2>1, SendEffect DEF Beat, timers, TimerInv
<1>5. CASE TimerFires
  <2>1. [kind |-> "timer", tid |-> running, age |-> 0] \in Message
    BY <1>1, SessionAssumption DEF Message
  <2>2. /\ UNCHANGED <<timerId, started>> /\ running # 0 /\ running' = 0
        /\ Send([kind |-> "timer", tid |-> running, age |-> 0])
    BY <1>5 DEF TimerFires
  <2>3. QED
    BY <1>1, <2>1, <2>2, SendEffect DEF TimerInv
<1>6. ASSUME NEW kind, Take(kind), UNCHANGED timers PROVE TimerInv'
  BY <1>1, <1>6, TakeEffect DEF timers, TimerInv
<1>7. ASSUME NEW kind, Take(kind), StartHeartbeatTimer PROVE TimerInv'
  <2>1. timerId' = started + 1 /\ started' = started + 1 /\ running' = started + 1
    BY <1>7 DEF StartHeartbeatTimer
  <2>2. QED
    BY <1>1, <1>7, <2>1, TakeEffect DEF TimerInv
<1>8. CASE LogOut
  <2>1. Take("timer") /\ timerId' = 0 /\ running' = 0 /\ started' = started
    BY <1>8 DEF LogOut
  <2>2. QED
    BY <1>1, <2>1, TakeEffect DEF TimerInv
<1>9. CASE Tick
  <2>1. UNCHANGED <<timerId, started, running>>
    BY <1>9 DEF Tick
  <2>2. QED
    BY <1>1, <1>9, <2>1, TickEffect DEF TimerInv
<1>10. QED
  BY <1>2, <1>3, <1>4, <1>5, <1>6, <1>7, <1>8, <1>9
     DEF Next, Player, vars, timers, Silence, Leave, HandleLogin, FinishLogin, HandleBeat,
         DropMessage, HandleStaleTimer, HandleTimer

LEMMA ClientNext == TypeOK /\ ClientInv /\ [Next]_vars => ClientInv'
<1> SUFFICES ASSUME TypeOK, ClientInv, [Next]_vars PROVE ClientInv'
  OBVIOUS
<1> USE SessionAssumption
<1>1. /\ client \in [Clients -> {"out", "login", "fresh", "beating", "mute", "silent", "refused", "gone"}]
      /\ conn \in Clients \cup {None} /\ busy \in Clients \cup {None}
  BY DEF TypeOK
<1>2. ASSUME UNCHANGED <<client, conn, isLogin, box, busy>> PROVE ClientInv'
  BY <1>2, KeepMoves DEF ClientInv
<1>3. ASSUME NEW c \in Clients, Connect(c) PROVE ClientInv'
  <2>1. PICK m \in Message : Send(m) /\ m.kind = "login" /\ m.from = c
    <3>1. [kind |-> "login", from |-> c, age |-> 0] \in Message
      BY DEF Message
    <3>2. QED
      BY <1>3, <3>1 DEF Connect
  <2>2. /\ \A d \in Clients : From("beat", d)' = From("beat", d)
        /\ \A d \in Clients \ {c} : From("login", d)' = From("login", d)
        /\ From("login", c)' = From("login", c) \cup {Size + 1}
    BY <2>1, SendMoves
  <2>3. /\ client[c] = "out" /\ conn' = c /\ UNCHANGED <<busy, isLogin>>
        /\ client'[c] = "login"
        /\ \A d \in Clients \ {c} : client'[d] = IF d = conn THEN "gone" ELSE client[d]
    BY <1>1, <1>3 DEF Connect, Drop
  <2>4. QED
    BY <2>2, <2>3 DEF ClientInv
<1>4. ASSUME NEW c \in Clients, Beat(c) PROVE ClientInv'
  <2>1. PICK m \in Message : Send(m) /\ m.kind = "beat" /\ m.from = c
    <3>1. [kind |-> "beat", from |-> c, age |-> 0] \in Message
      BY DEF Message
    <3>2. QED
      BY <1>4, <3>1 DEF Beat
  <2>2. /\ \A d \in Clients : From("login", d)' = From("login", d)
        /\ \A d \in Clients \ {c} : From("beat", d)' = From("beat", d)
    BY <2>1, SendMoves
  <2>3. /\ client[c] \in {"fresh", "beating"} /\ UNCHANGED <<conn, busy, isLogin>>
        /\ client' = [client EXCEPT ![c] = "beating"]
    BY <1>4 DEF Beat
  <2>4. QED
    BY <1>1, <2>2, <2>3 DEF ClientInv
<1>5. ASSUME NEW c \in Clients, Silence(c) \/ Leave(c) PROVE ClientInv'
  <2>1. /\ UNCHANGED <<box, busy, isLogin>>
        /\ \/ /\ UNCHANGED conn /\ client[c] \in {"fresh", "beating"}
              /\ client'[c] \in {"mute", "silent"}
           \/ conn = c /\ conn' = None /\ client'[c] = "gone"
        /\ \A d \in Clients \ {c} : client'[d] = client[d]
    BY <1>1, <1>5 DEF Silence, Leave, Drop
  <2>2. UNCHANGED box
    BY <2>1
  <2>3. \A kind, d : From(kind, d)' = From(kind, d)
    BY <2>2, KeepMoves
  <2>4. QED
    BY <2>1, <2>3 DEF ClientInv
<1>6. ASSUME NEW k, Take(k), UNCHANGED <<clients, busy, isLogin>> PROVE ClientInv'
  <2>1. /\ \A kind \in {"login", "beat"}, d \in Clients :
             \A i \in From(kind, d)' : i + 1 \in From(kind, d) /\ i \in 1 .. Size'
        /\ Size' \in Nat
    BY <1>6, TakeMoves, TakeEffect
  <2>2. \A d \in Clients : \A i, j \in From("login", d)' : i = j
    BY <2>1 DEF ClientInv
  <2>3. QED
    BY <1>6, <2>1, <2>2 DEF ClientInv, clients
<1>7. CASE HandleLogin
  <2>1. Take("login") /\ conn = Head(box).from /\ busy = None
    BY <1>7 DEF HandleLogin, Take
  <2>2. PICK c \in Clients : c = Head(box).from /\ 1 \in From("login", c) /\ c # None
    BY <2>1, TakeEffect, TakeMoves DEF Message
  <2>3. /\ \A kind \in {"login", "beat"}, d \in Clients :
             \A i \in From(kind, d)' : i + 1 \in From(kind, d) /\ i \in 1 .. Size'
        /\ Size' \in Nat
    BY <2>1, TakeMoves, TakeEffect
  <2>4. /\ \A d \in Clients : \A i, j \in From("login", d)' : i = j
        /\ From("login", c)' = {}
    <3>1. \A d \in Clients : \A i, j \in From("login", d)' : i = j
      BY <2>3 DEF ClientInv
    <3>2. ASSUME NEW i \in From("login", c)' PROVE FALSE
      <4>1. i + 1 \in From("login", c) /\ i \in 1 .. Size'
        BY <2>2, <2>3
      <4>2. i + 1 = 1
        BY <2>2, <4>1 DEF ClientInv
      <4>3. QED
        BY <2>3, <4>1, <4>2
    <3>3. QED
      BY <3>1, <3>2
  <2>5. client[c] \in {"login", "gone"} /\ UNCHANGED conn
    BY <1>7, <2>1, <2>2 DEF ClientInv, HandleLogin
  <2>6. \/ isLogin' = TRUE /\ busy' = c /\ client' = client
        \/ client' = [client EXCEPT ![c] = "refused"] /\ UNCHANGED <<busy, isLogin>>
    BY <1>7, <2>2 DEF HandleLogin
  <2>7. QED
    BY <1>1, <2>1, <2>2, <2>3, <2>4, <2>5, <2>6 DEF ClientInv
<1>8. CASE FinishLogin
  <2>1. UNCHANGED box /\ \A kind, d : From(kind, d)' = From(kind, d)
    BY <1>8, KeepMoves DEF FinishLogin
  <2>2. /\ busy \in Clients /\ busy' = None /\ UNCHANGED <<conn, isLogin>>
        /\ \A d \in Clients \ {busy} : client'[d] = client[d]
        /\ \/ client[busy] = "login" /\ client'[busy] \in {"fresh", "refused"}
           \/ client'[busy] = client[busy]
    BY <1>1, <1>8 DEF FinishLogin
  <2>3. client[busy] = "login" => isLogin
    BY <2>2 DEF ClientInv
  <2>4. QED
    BY <2>1, <2>2, <2>3 DEF ClientInv
<1>9. CASE HandleBeat \/ DropMessage \/ HandleStaleTimer \/ HandleTimer
  BY <1>6, <1>9 DEF HandleBeat, DropMessage, HandleStaleTimer, HandleTimer
<1>10. CASE TimerFires
  <2>1. PICK m \in Message : Send(m) /\ m.kind = "timer"
    <3>1. [kind |-> "timer", tid |-> running, age |-> 0] \in Message
      BY DEF Message, TypeOK
    <3>2. QED
      BY <1>10, <3>1 DEF TimerFires
  <2>2. \A kind \in {"login", "beat"}, d \in Clients : From(kind, d)' = From(kind, d)
    BY <2>1, SendMoves
  <2>3. QED
    BY <1>10, <2>2 DEF ClientInv, TimerFires, clients
<1>11. CASE LogOut
  <2>1. /\ Take("timer") /\ UNCHANGED busy /\ isLogin' = FALSE /\ conn' = None
        /\ \A d \in Clients : client'[d] = IF d = conn THEN "gone" ELSE client[d]
    BY <1>1, <1>11 DEF LogOut, Drop
  <2>2. /\ \A kind \in {"login", "beat"}, d \in Clients :
             \A i \in From(kind, d)' : i + 1 \in From(kind, d) /\ i \in 1 .. Size'
        /\ Size' \in Nat
    BY <2>1, TakeMoves, TakeEffect
  <2>3. \A d \in Clients : \A i, j \in From("login", d)' : i = j
    BY <2>2 DEF ClientInv
  <2>4. QED
    BY <2>1, <2>2, <2>3 DEF ClientInv
<1>12. CASE Tick
  BY <1>12, TickMoves DEF ClientInv, Tick
<1>13. CASE UNCHANGED vars
  BY <1>2, <1>13 DEF vars
<1>14. QED
  BY <1>3, <1>4, <1>5, <1>7, <1>8, <1>9, <1>10, <1>11, <1>12, <1>13 DEF Next, Player

(* The times leave room for the heartbeats: the first one is on its way    *)
(* before the timer fires, each one is handled before the next is sent and *)
(* before the timeout.                                                     *)
InTime == Reply + Interval < Timeout /\ Interval + Delay < Timeout /\ Delay < Interval

PunctualInv == TypeOK /\ TimerInv /\ ClientInv /\ TimeInv

LEMMA Numerals ==
  ASSUME TypeOK
  PROVE  /\ \A c \in Clients : due[c] \in Nat /\ due[c] <= Interval
         /\ idle \in Nat /\ rest \in Nat /\ wait \in Nat /\ running \in Nat /\ idle <= Timeout
         /\ wait <= Reply /\ rest <= Timeout
         /\ Interval \in Nat /\ Timeout \in Nat /\ Reply \in Nat /\ Delay \in Nat
         /\ Size \in Nat
  BY SessionAssumption DEF TypeOK, Size

(* Steps after which the timer, the ticker and the box of a client say at  *)
(* least what they said before.                                            *)
LEMMA TimeKept ==
  ASSUME PunctualInv, NEW c \in Clients, UNCHANGED <<running, rest, wait, timerId, idle>>,
         due'[c] = due[c], UNCHANGED box,
         client'[c] = client[c] \/ client'[c] \notin {"login", "fresh", "beating"},
         busy' = c => busy = c
  PROVE  TimeOf(c)'
<1>1. From("beat", c)' = From("beat", c) /\ Timers(timerId)' = Timers(timerId)
  BY DEF From, Timers, Size
<1>2. BeatenBy(c) => BeatenBy(c)'
  BY <1>1 DEF BeatenBy
<1>3. QED
  BY <1>1, <1>2 DEF PunctualInv, TimeInv, TimeOf

(* A client that does not log in or play has no times to keep. *)
LEMMA NotPlaying ==
  ASSUME NEW c \in Clients, client'[c] \notin {"login", "fresh", "beating"}
  PROVE  TimeOf(c)'
  BY DEF TimeOf

(* Nobody plays but the connected client. *)
LEMMA OnePlays ==
  ASSUME PunctualInv, NEW c \in Clients, conn # c
  PROVE  client[c] \notin {"login", "fresh", "beating"}
  BY DEF PunctualInv, ClientInv

(* The actor takes a message that is no heartbeat of the client. *)
LEMMA TimeAfterTake ==
  ASSUME PunctualInv, NEW k, Take(k), NEW c \in Clients, 1 \notin From("beat", c),
         UNCHANGED <<clients, busy, wait, timers, idle>>
  PROVE  TimeOf(c)'
<1>1. /\ \A i \in From("beat", c)' : i \in 1 .. Size' /\ i + 1 \in From("beat", c)
      /\ \A i \in From("beat", c) : i \in 1 .. Size /\ i - 1 \in From("beat", c)'
      /\ \A i \in Timers(timerId)' : i \in 1 .. Size' /\ i + 1 \in Timers(timerId)
      /\ Size \in Nat \ {0} /\ Size' = Size - 1
      /\ \A i \in 1 .. Size - 1 : box'[i] = box[i + 1]
  BY TakeMoves, TakeEffect DEF PunctualInv, timers
<1>2. \A i \in From("beat", c)' : box'[i] = box[i + 1]
  BY <1>1
<1>3. From("beat", c) = {} => From("beat", c)' = {}
  BY <1>1
<1>4. From("beat", c) # {} => From("beat", c)' # {}
  BY <1>1
<1>5. ASSUME NEW i \in From("beat", c), \A j \in Timers(timerId) : i < j
      PROVE  \A j \in Timers(timerId)' : i - 1 < j
  <2>1. ASSUME NEW j \in Timers(timerId)' PROVE i - 1 < j
    <3>1. i < j + 1 /\ i \in Int /\ j \in Int
      BY <1>1, <1>5, <2>1
    <3>2. QED
      BY <3>1
  <2>2. QED
    BY <2>1
<1>6. BeatenBy(c) => BeatenBy(c)'
  BY <1>1, <1>4, <1>5 DEF BeatenBy, clients, timers
<1>7. QED
  BY <1>2, <1>1, <1>3, <1>6 DEF PunctualInv, TimeInv, TimeOf, clients, timers

LEMMA TimeOfTick == ASSUME PunctualInv, Tick, NEW c \in Clients PROVE TimeOf(c)'
<1> USE DEF PunctualInv, TimeInv
<1>1. CASE client[c] \notin {"login", "fresh", "beating"}
  BY <1>1, NotPlaying DEF Tick
<1>2. CASE client[c] \in {"login", "fresh", "beating"}
  <2>1. /\ From("beat", c)' = From("beat", c) /\ Timers(timerId)' = Timers(timerId)
        /\ \A i \in From("beat", c) : box'[i].age = box[i].age + 1 /\ box[i].age \in Nat
    <3>1. \A i \in From("beat", c) : i \in 1 .. Size /\ box[i] \in Message
      BY TickEffect DEF From, TypeOK, Size
    <3>2. \A m \in Message : m.age \in Nat
      BY SessionAssumption DEF Message
    <3>3. Timers(timerId)' = Timers(timerId)
      BY TickEffect DEF Timers, Tick
    <3>4. QED
      BY <3>1, <3>2, <3>3, TickEffect, TickMoves
  <2>2. /\ UNCHANGED <<client, busy, running, timerId>>
        /\ busy = c => wait' = wait - 1
        /\ running # 0 => rest' = rest - 1
        /\ client[c] \in {"fresh", "beating"} => due'[c] = due[c] - 1
        /\ idle' <= idle + 1 /\ idle' \in Nat
    <3>1. c # None /\ \A n \in Nat \ {0} : Less(n) = n - 1
      BY SessionAssumption DEF Less
    <3>2. /\ busy = c => wait > 0 /\ wait' = Less(wait)
          /\ running # 0 => rest > 0 /\ rest' = Less(rest)
          /\ client[c] \in {"fresh", "beating"} => due[c] > 0 /\ due'[c] = Less(due[c])
      BY <3>1 DEF Tick
    <3>3. idle' <= idle + 1 /\ idle' \in Nat /\ UNCHANGED <<client, busy, running, timerId>>
      BY Numerals DEF Tick
    <3>4. wait \in Nat /\ rest \in Nat /\ due[c] \in Nat
      BY Numerals
    <3>5. QED
      BY <3>1, <3>2, <3>3, <3>4
  <2>3. due[c] \in Nat /\ idle \in Nat /\ rest \in Nat /\ wait \in Nat
        /\ Interval \in Nat /\ Timeout \in Nat /\ Reply \in Nat
    BY Numerals
  <2>4. client[c] = "beating" /\ BeatenBy(c) => BeatenBy(c)'
    BY <2>1, <2>2, <2>3 DEF BeatenBy
  <2>5. TimeOf(c)
    OBVIOUS
  <2>6. client[c] = "beating" => \A i \in From("beat", c)' : box'[i].age + due'[c] = Interval
    BY <2>1, <2>2, <2>3, <2>5 DEF TimeOf
  <2>7. QED
    BY <2>1, <2>2, <2>3, <2>4, <2>5, <2>6 DEF TimeOf
<1>3. QED
  BY <1>1, <1>2

LEMMA TimeOfBeat == ASSUME InTime, PunctualInv, NEW c \in Clients, Beat(c) PROVE TimeOf(c)'
<1> USE DEF PunctualInv, TimeInv
<1>1. PICK m \in Message : Send(m) /\ m.kind = "beat" /\ m.from = c /\ m.age = 0
  <2>1. [kind |-> "beat", from |-> c, age |-> 0] \in Message
    BY SessionAssumption DEF Message
  <2>2. QED
    BY <2>1 DEF Beat
<1>2. /\ From("beat", c)' = From("beat", c) \cup {Size + 1}
      /\ Timers(timerId)' = Timers(timerId)
      /\ box'[Size + 1] = m /\ Size \in Nat
  <2>1. UNCHANGED timerId
    BY DEF Beat, timers
  <2>2. QED
    BY <1>1, <2>1, SendMoves, SendEffect
<1>3. /\ client[c] \in {"fresh", "beating"} /\ due[c] = 0
      /\ client'[c] = "beating" /\ due'[c] = Interval
      /\ UNCHANGED <<busy, running, rest, timerId, idle>>
  BY DEF Beat, TypeOK, timers
<1>4. /\ Interval \in Nat /\ Delay \in Nat /\ idle \in Nat /\ Delay < Interval
      /\ rest \in Nat /\ Reply \in Nat /\ Timeout \in Nat
  BY Numerals DEF InTime
<1>5. From("beat", c) = {}
  <2>1. CASE client[c] = "fresh"
    BY <2>1 DEF TimeOf
  <2>2. CASE client[c] = "beating"
    <3>1. ASSUME NEW i \in From("beat", c) PROVE FALSE
      <4>1. box[i] \in Message /\ box[i].age + 0 = Interval
        BY <1>3, <2>2, <3>1 DEF TimeOf, From, TypeOK, Size
      <4>2. box[i].age \in 0 .. Delay
        BY <4>1 DEF Message
      <4>3. QED
        BY <1>4, <4>1, <4>2
    <3>2. QED
      BY <3>1
  <2>3. QED
    BY <1>3, <2>1, <2>2
<1>6. From("beat", c)' = {Size + 1}
  BY <1>2, <1>5
<1>7. \A i \in From("beat", c)' : box'[i].age + due'[c] = Interval
  BY <1>1, <1>2, <1>3, <1>4, <1>6
<1>8. BeatenBy(c)'
  <2>1. CASE client[c] = "fresh"
    BY <1>3, <1>6, <2>1 DEF BeatenBy, TimeOf
  <2>2. CASE client[c] = "beating"
    <3>1. idle + 0 <= Interval
      BY <1>3, <1>5, <2>2 DEF BeatenBy, TimeOf
    <3>2. QED
      BY <1>3, <1>4, <1>6, <3>1 DEF BeatenBy
  <2>3. QED
    BY <1>3, <2>1, <2>2
<1>9. QED
  BY <1>3, <1>7, <1>8 DEF TimeOf

LEMMA TimeOfFiring == ASSUME InTime, PunctualInv, TimerFires, NEW c \in Clients PROVE TimeOf(c)'
<1> USE DEF PunctualInv, TimeInv
<1>1. PICK m \in Message : Send(m) /\ m.kind = "timer" /\ m.tid = running
  <2>1. [kind |-> "timer", tid |-> running, age |-> 0] \in Message
    BY SessionAssumption DEF Message, TypeOK
  <2>2. QED
    BY <2>1 DEF TimerFires
<1>2. /\ running = timerId /\ rest = 0 /\ running # 0
      /\ UNCHANGED <<client, due, busy, wait, timerId, rest, idle>>
  BY DEF TimerFires, TypeOK, clients
<1>3. /\ From("beat", c)' = From("beat", c)
      /\ Timers(timerId)' = Timers(timerId) \cup {Size + 1}
      /\ Size \in Nat /\ \A i \in 1 .. Size : box'[i] = box[i]
  BY <1>1, <1>2, SendMoves, SendEffect
<1>4. Timers(timerId)' = {Size + 1}
  BY <1>2, <1>3 DEF TimerInv, Timers
<1>5. /\ Interval \in Nat /\ Timeout \in Nat /\ Reply \in Nat /\ wait \in Nat /\ due[c] \in Nat
      /\ Reply + Interval < Timeout
  BY Numerals DEF InTime
<1>6. \A i \in From("beat", c) : i \in 1 .. Size
  BY DEF From
<1>7. client[c] = "beating" => BeatenBy(c)'
  <2>1. BeatenBy(c) => BeatenBy(c)'
    BY <1>2, <1>3, <1>4, <1>6 DEF BeatenBy
  <2>2. QED
    BY <2>1 DEF TimeOf
<1>8. TimeOf(c)
  OBVIOUS
<1>9. ~ (client[c] = "login" /\ busy = c) /\ client[c] # "fresh"
  BY <1>2, <1>5, <1>8 DEF TimeOf
<1>10. \A i \in From("beat", c)' : box'[i] = box[i]
  BY <1>3, <1>6
<1>11. QED
  BY <1>2, <1>3, <1>7, <1>8, <1>9, <1>10 DEF TimeOf

LEMMA TimeOfHandledBeat ==
  ASSUME PunctualInv, HandleBeat, NEW c \in Clients, client[c] \in {"login", "fresh", "beating"}
  PROVE  TimeOf(c)'
<1> USE DEF PunctualInv, TimeInv
<1>1. /\ Take("beat") /\ conn = Head(box).from /\ conn = c
      /\ UNCHANGED <<client, due, busy, running, rest, wait, timerId>>
      /\ isLogin => idle' = 0
  BY DEF HandleBeat, ClientInv, clients, timers
<1>2. 1 \in From("beat", c)
  BY <1>1, TakeEffect, TakeMoves
<1>3. client[c] = "beating" /\ isLogin /\ TimeOf(c)
  BY <1>2 DEF TimeOf, ClientInv
<1>4. /\ \A j \in From("beat", c)' : j \in 1 .. Size' /\ j + 1 \in From("beat", c)
      /\ Size \in Nat \ {0} /\ Size' = Size - 1
      /\ \A j \in 1 .. Size - 1 : box'[j] = box[j + 1]
  BY <1>1, TakeMoves, TakeEffect
<1>5. \A j \in From("beat", c)' : box'[j].age + due'[c] = Interval
  BY <1>1, <1>3, <1>4 DEF TimeOf
<1>6. BeatenBy(c)'
  BY <1>1, <1>3, Numerals DEF BeatenBy
<1>7. QED
  BY <1>1, <1>3, <1>5, <1>6 DEF TimeOf

LEMMA TimeNext == InTime /\ PunctualInv /\ [Next]_vars => TimeInv'
<1> SUFFICES ASSUME InTime, PunctualInv, [Next]_vars, NEW d \in Clients PROVE TimeOf(d)'
  BY DEF TimeInv
<1>1. CASE UNCHANGED vars
  BY <1>1, TimeKept DEF vars, timers
<1>2. ASSUME NEW c \in Clients, Connect(c) PROVE TimeOf(d)'
  <2>1. CASE d = c
    <3>1. PICK m \in Message : Send(m) /\ m.kind = "login"
      <4>1. [kind |-> "login", from |-> c, age |-> 0] \in Message
        BY SessionAssumption DEF Message
      <4>2. QED
        BY <1>2, <4>1 DEF Connect
    <3>2. From("beat", c)' = From("beat", c)
      BY <3>1, SendMoves DEF PunctualInv
    <3>3. client[c] = "out" /\ client'[c] = "login" /\ busy' = busy
      BY <1>2 DEF Connect, Drop, PunctualInv, TypeOK
    <3>4. QED
      BY <2>1, <3>2, <3>3 DEF PunctualInv, ClientInv, TimeOf
  <2>2. CASE d # c
    <3>1. client'[d] = IF d = conn THEN "gone" ELSE client[d]
      BY <1>2, <2>2, SessionAssumption DEF Connect, Drop, PunctualInv, TypeOK
    <3>2. QED
      BY <3>1, OnePlays, NotPlaying
  <2>3. QED
    BY <2>1, <2>2
<1>3. ASSUME NEW c \in Clients, Beat(c) PROVE TimeOf(d)'
  <2>1. CASE d = c
    BY <1>3, <2>1, TimeOfBeat
  <2>2. CASE d # c
    <3>1. client'[d] = client[d] /\ conn # d
      BY <1>3, <2>2 DEF Beat, PunctualInv, ClientInv, TypeOK
    <3>2. QED
      BY <3>1, OnePlays, NotPlaying
  <2>3. QED
    BY <2>1, <2>2
<1>4. ASSUME NEW c \in Clients, Silence(c) \/ Leave(c) PROVE TimeOf(d)'
  <2>1. /\ UNCHANGED <<running, rest, wait, timerId, idle, due, box, busy>>
        /\ client'[d] = client[d] \/ client'[d] \notin {"login", "fresh", "beating"}
    BY <1>4 DEF Silence, Leave, Drop, timers, PunctualInv, TypeOK
  <2>2. QED
    BY <2>1, TimeKept
<1>5. CASE HandleLogin
  <2>1. Take("login") /\ conn = Head(box).from /\ UNCHANGED <<due, conn, idle>>
    BY <1>5 DEF HandleLogin
  <2>2. CASE d = conn
    <3>1. client[d] \in {"login", "gone"}
      <4>1. 1 \in From("login", d)
        BY <2>1, <2>2, TakeEffect, TakeMoves DEF PunctualInv
      <4>2. QED
        BY <4>1 DEF PunctualInv, ClientInv
    <3>2. CASE /\ isLogin' = TRUE /\ StartHeartbeatTimer
               /\ busy' = Head(box).from /\ wait' = Reply /\ UNCHANGED client
      <4>1. running' # 0 /\ rest' + Reply >= Timeout + wait'
        BY <3>2, SessionAssumption DEF StartHeartbeatTimer, PunctualInv, TypeOK
      <4>2. From("beat", d) = {} => From("beat", d)' = {}
        BY <2>1, TakeMoves DEF PunctualInv
      <4>3. QED
        BY <3>1, <3>2, <4>1, <4>2 DEF TimeOf, PunctualInv, TimeInv
    <3>3. CASE client' = [client EXCEPT ![Head(box).from] = "refused"]
      <4>1. client'[d] = "refused"
        BY <2>1, <2>2, <3>3 DEF PunctualInv, TypeOK
      <4>2. QED
        BY <4>1, NotPlaying
    <3>4. QED
      BY <1>5, <3>2, <3>3 DEF HandleLogin
  <2>3. CASE d # conn
    <3>1. client'[d] = client[d]
      BY <1>5, <2>1, <2>3 DEF HandleLogin, PunctualInv, TypeOK
    <3>2. QED
      BY <2>3, <3>1, OnePlays, NotPlaying
  <2>4. QED
    BY <2>2, <2>3
<1>6. CASE FinishLogin
  <2>1. /\ UNCHANGED <<conn, box, running, rest, timerId, idle>> /\ wait' = 0 /\ busy' = None
        /\ busy \in Clients /\ d # None
        /\ \A c \in Clients \ {busy} : client'[c] = client[c] /\ due'[c] = due[c]
        /\ due'[busy] = Interval
        /\ \/ client[busy] = "login" /\ client'[busy] \in {"fresh", "refused"}
           \/ client[busy] # "login" /\ client'[busy] = client[busy]
    BY <1>6, SessionAssumption DEF FinishLogin, timers, PunctualInv, TypeOK
  <2>2. From("beat", d)' = From("beat", d) /\ Timers(timerId)' = Timers(timerId)
    BY <2>1 DEF From, Timers, Size
  <2>3. CASE d = busy
    <3>1. CASE client[d] = "login"
      BY <2>1, <2>2, <2>3, <3>1, Numerals DEF TimeOf, PunctualInv, TimeInv
    <3>2. CASE client[d] # "login"
      BY <2>1, <2>3, <3>2, NotPlaying DEF PunctualInv, ClientInv
    <3>3. QED
      BY <3>1, <3>2
  <2>4. CASE d # busy
    <3>1. BeatenBy(d) => BeatenBy(d)'
      BY <2>1, <2>2, <2>4 DEF BeatenBy
    <3>2. QED
      BY <2>1, <2>2, <2>4, <3>1 DEF TimeOf, PunctualInv, TimeInv
  <2>5. QED
    BY <2>3, <2>4
<1>7. CASE HandleBeat
  <2>1. CASE client[d] \in {"login", "fresh", "beating"}
    BY <1>7, <2>1, TimeOfHandledBeat
  <2>2. CASE client[d] \notin {"login", "fresh", "beating"}
    BY <1>7, <2>2, NotPlaying DEF HandleBeat, clients
  <2>3. QED
    BY <2>1, <2>2
<1>8. CASE DropMessage \/ HandleStaleTimer \/ HandleTimer
  <2>1. UNCHANGED <<clients, busy, wait, timers, idle>>
    BY <1>8 DEF DropMessage, HandleStaleTimer, HandleTimer
  <2>2. PICK k : Take(k) /\ (k = "beat" => conn # Head(box).from)
    BY <1>8 DEF DropMessage, HandleStaleTimer, HandleTimer
  <2>3. CASE client[d] \in {"login", "fresh", "beating"}
    <3>1. conn = d
      BY <2>3, OnePlays
    <3>2. 1 \notin From("beat", d)
      BY <2>2, <3>1, TakeEffect, TakeMoves DEF PunctualInv
    <3>3. QED
      BY <2>1, <2>2, <3>2, TimeAfterTake
  <2>4. CASE client[d] \notin {"login", "fresh", "beating"}
    BY <2>1, <2>4, NotPlaying DEF clients
  <2>5. QED
    BY <2>3, <2>4
<1>9. CASE TimerFires
  BY <1>9, TimeOfFiring
<1>10. CASE LogOut
  <2>1. client'[d] = IF d = conn THEN "gone" ELSE client[d]
    BY <1>10, SessionAssumption DEF LogOut, Drop, PunctualInv, TypeOK
  <2>2. QED
    BY <2>1, OnePlays, NotPlaying
<1>11. CASE Tick
  BY <1>11, TimeOfTick
<1>12. QED
  BY <1>1, <1>2, <1>3, <1>4, <1>5, <1>6, <1>7, <1>8, <1>9, <1>10, <1>11 DEF Next, Player

LEMMA PunctualNext == InTime /\ PunctualInv /\ [Next]_vars => PunctualInv'
  BY TypeNext, TimerNext, ClientNext, TimeNext DEF PunctualInv

(* A client that sends its heartbeats in time is never logged out          *)
(* (PunctualStays), for all times that leave room for them.                *)
THEOREM PunctualClientsStay == InTime /\ Spec => PunctualStays
<1>1. InTime /\ PunctualInv => ~ \E c \in Clients : conn = c /\ client[c] \in {"fresh", "beating"} /\ LogOut
  <2> SUFFICES ASSUME InTime, PunctualInv, NEW c \in Clients, conn = c,
                      client[c] \in {"fresh", "beating"}, LogOut
               PROVE  FALSE
    OBVIOUS
  <2> USE DEF PunctualInv, TimeInv
  <2>1. Take("timer") /\ Head(box).tid = timerId /\ idle >= Timeout
    BY DEF LogOut
  <2>2. /\ box[1].kind = "timer" /\ box[1].tid = timerId /\ Size \in Nat \ {0}
        /\ 1 \in Timers(timerId)
    BY <2>1, TakeEffect, TakeMoves
  <2>3. running = 0
    BY <2>2 DEF TimerInv, TypeOK
  <2>4. client[c] = "beating" /\ BeatenBy(c) /\ TimeOf(c)
    BY <2>3 DEF TimeOf
  <2>5. /\ Interval \in Nat /\ Timeout \in Nat /\ Delay \in Nat /\ idle \in Nat /\ due[c] \in Nat
        /\ Interval + Delay < Timeout /\ Interval < Timeout
    BY Numerals DEF InTime
  <2>6. CASE idle + due[c] <= Interval
    BY <2>1, <2>5, <2>6
  <2>7. ASSUME NEW i \in From("beat", c), idle + due[c] <= Interval + Interval PROVE FALSE
    <3>1. box[i] \in Message /\ box[i].age + due[c] = Interval
      BY <2>4, <2>7 DEF TimeOf, From, TypeOK, Size
    <3>2. box[i].age \in 0 .. Delay
      BY <3>1 DEF Message
    <3>3. QED
      BY <2>1, <2>5, <2>7, <3>1, <3>2
  <2>8. ASSUME NEW i \in From("beat", c), \A j \in Timers(timerId) : i < j PROVE FALSE
    <3>1. i < 1 /\ i \in 1 .. Size
      BY <2>2, <2>8 DEF From
    <3>2. QED
      BY <2>2, <3>1
  <2>9. QED
    BY <2>3, <2>4, <2>6, <2>7, <2>8 DEF BeatenBy
<1>2. InTime /\ PunctualInv =>
        [\A c \in Clients : conn = c /\ client[c] \in {"fresh", "beating"} => ~ LogOut]_vars
  BY <1>1
<1>3. CASE InTime
  <2>1. PunctualInv /\ [Next]_vars => PunctualInv'
    BY <1>3, PunctualNext
  <2>2. PunctualInv => [\A c \in Clients : conn = c /\ client[c] \in {"fresh", "beating"} => ~ LogOut]_vars
    BY <1>2, <1>3
  <2>3. Init => PunctualInv
    BY TypeInit, PunctualInit DEF PunctualInv
  <2>4. QED
    BY <2>1, <2>2, <2>3, PTL DEF Spec, PunctualStays
<1>4. CASE ~ InTime
  BY <1>4, PTL
<1>5. QED
  BY <1>3, <1>4

=============================================================================
