-------------------------- MODULE AgentSessionsProofs --------------------------
(***************************************************************************)
(* Proofs about AgentSessions, for every set of agents, players, accounts  *)
(* and callbacks and every capacity.  The types and the holder of the lock *)
(* need no assumption.  Of the other theorems each has what it needs: one  *)
(* login per connection (~Relogin), locks that outlive the login they are  *)
(* held by (~LockExpires), or both.                                        *)
(***************************************************************************)
EXTENDS AgentSessions, TLAPS

-----------------------------------------------------------------------------
(* Types *)

(* Types, and why they hold: a login has a target and, when it has opened  *)
(* a session, its id; only agents with a player are registered, removed by *)
(* a login, or deleted by their stop.                                      *)
TypeInv ==
  /\ TypeOK
  /\ \A a \in Agents :
       /\ reader[a] \in LockedPcs \cup {"lock"} => target[a] \in Players
       /\ reader[a] \in {"assign", "sid"} => newSid[a] # 0
       /\ reader[a] \in {"remove", "stop"} =>
            another[a] \in Agents /\ player[another[a]] # None
       /\ reader[a] \in {"sid", "register", "forward", "abort"} => player[a] # None
       /\ sid[a] # 0 => player[a] # None
       /\ player[a] # None /\ reader[a] # "sid" => sid[a] # 0
       /\ stopPc[a] \in {"delete", "disconnect"} => player[a] # None /\ sid[a] # 0
  /\ \A p \in Players : registry[p] # None => player[registry[p]] # None

LEMMA TypeInit == Init => TypeInv
  BY AgentAssumption DEF Init, TypeInv, TypeOK, StopPcs, ReaderPcs, LockedPcs, WriterPcs, Reasons

(* What a call of stop does, whether it wins or not. *)
StopEffect(k) ==
  /\ stopFlag' = [stopFlag EXCEPT ![k] = TRUE]
  /\ stopPc' = [stopPc EXCEPT ![k] = IF stopFlag[k] THEN @ ELSE "close"]
  /\ wanted' \in [Agents -> Reasons]
  /\ UNCHANGED <<chStop, stopReason>>

LEMMA StopCalled ==
  ASSUME TypeOK, NEW k \in Agents, NEW why \in Reasons, CallStop(k, why)
  PROVE  StopEffect(k)
<1> USE DEF CallStop, TypeOK, stopVars, StopEffect
<1>1. CASE stopFlag[k]
  BY <1>1
<1>2. CASE ~stopFlag[k]
  BY <1>2
<1>3. QED
  BY <1>1, <1>2

(* The same for a reader, which waits for the body it has to run. *)
LEMMA ReaderStopped ==
  ASSUME TypeOK, NEW a \in Agents, NEW k \in Agents, NEW why \in Reasons, ReaderStops(a, k, why)
  PROVE  /\ StopEffect(k) /\ awaits' \in [Agents -> Agents \cup {None}]
         /\ awaits' = [awaits EXCEPT ![a] = IF stopFlag[k] THEN None ELSE k]
<1>1. CallStop(k, why)
  BY DEF ReaderStops
<1>2. awaits' \in [Agents -> Agents \cup {None}]
  BY DEF ReaderStops, TypeOK
<1>3. QED
  BY <1>1, <1>2, StopCalled DEF ReaderStops

(* The steps of a reader that stop its own agent. *)
StopsItself(a) ==
  \/ ReaderFails(a) \/ RejectToken(a) \/ LockTimeout(a) \/ ConnectFails(a) \/ AbortLogin(a)

LEMMA StoppedItself ==
  ASSUME TypeOK, NEW a \in Agents, StopsItself(a)
  PROVE  /\ StopEffect(a) /\ awaits' \in [Agents -> Agents \cup {None}]
         /\ awaits' = [awaits EXCEPT ![a] = IF stopFlag[a] THEN None ELSE a]
<1>1. \E why \in Reasons : ReaderStops(a, a, why)
  BY DEF StopsItself, ReaderFails, RejectToken, LockTimeout, ConnectFails, AbortLogin, Reasons
<1>2. QED
  BY <1>1, ReaderStopped

(* What a callback does that calls Stop. *)
LEMMA CallbackStopped ==
  ASSUME TypeOK, NEW c \in Callbacks, ReceiveStopped(c) \/ CallbackStops(c)
  PROVE  /\ callback[c] \in Agents /\ StopEffect(callback[c])
         /\ callback' = [callback EXCEPT ![c] = None]
         /\ UNCHANGED <<readerVars, writerVars, registry, lock, gameVars, robbed>>
  BY StopCalled, AgentAssumption
     DEF ReceiveStopped, CallbackStops, CallbackCallsStop, Returns, TypeOK, Reasons

(* What fails after it took effect, or before it had any. *)
LEMMA DisconnectTypes ==
  ASSUME TypeInv, NEW a \in Agents, StopDisconnects(a)
  PROVE  session' \in [Players -> 0..MaxSessions] /\ lost' \subseteq 1..MaxSessions
<1>1. /\ sid[a] \in 1..MaxSessions /\ session \in [Players -> 0..MaxSessions]
      /\ MaxSessions \in Nat /\ lost \subseteq 1..MaxSessions
  BY AgentAssumption DEF StopDisconnects, TypeInv, TypeOK
<1>2. CASE lost' = lost
           /\ session' = [session EXCEPT ![player[a]] = IF @ = sid[a] THEN 0 ELSE @]
  <2>1. \A n \in 0..MaxSessions : (IF n = sid[a] THEN 0 ELSE n) \in 0..MaxSessions
    BY <1>1
  <2>2. QED
    BY <1>1, <1>2, <2>1
<1>3. CASE session' = session /\ lost' = lost \cup {sid[a]}
  BY <1>1, <1>3
<1>4. QED
  BY <1>2, <1>3 DEF StopDisconnects

LEMMA ConnectTypes ==
  ASSUME TypeInv, NEW a \in Agents, ConnectFails(a)
  PROVE  /\ session' \in [Players -> 0..MaxSessions]
         /\ nextSid' \in 1..(MaxSessions + 1) /\ lost' \subseteq 1..MaxSessions
<1>1. /\ nextSid \in 1..(MaxSessions + 1) /\ session \in [Players -> 0..MaxSessions]
      /\ MaxSessions \in Nat /\ lost \subseteq 1..MaxSessions
  BY AgentAssumption DEF TypeInv, TypeOK
<1>2. CASE UNCHANGED gameVars
  BY <1>1, <1>2 DEF gameVars
<1>3. CASE SessionOpens(a) /\ lost' = lost \cup {nextSid}
  <2>1. /\ nextSid \in 1..MaxSessions /\ nextSid + 1 \in 1..(MaxSessions + 1)
        /\ nextSid \in 0..MaxSessions
    BY <1>1, <1>3 DEF SessionOpens
  <2>2. session' = [session EXCEPT ![target[a]] = nextSid] /\ nextSid' = nextSid + 1
    BY <1>3 DEF SessionOpens
  <2>3. QED
    BY <1>1, <1>3, <2>1, <2>2
<1>4. QED
  BY <1>2, <1>3 DEF ConnectFails

LEMMA TypeNext == TypeInv /\ [Next]_vars => TypeInv'
<1> SUFFICES ASSUME TypeInv, [Next]_vars PROVE TypeInv'
  OBVIOUS
<1> USE AgentAssumption DEF TypeInv, TypeOK, StopPcs, ReaderPcs, LockedPcs, WriterPcs,
        stopVars, readerVars, writerVars, gameVars, isConnected, DelAgent, Goes, TakePending,
        SessionOpens, Returns
<1>1. ASSUME NEW a \in Agents, StopCloses(a) PROVE TypeInv'
  BY <1>1 DEF StopCloses
<1>2. ASSUME NEW a \in Agents, StopSetsReason(a) PROVE TypeInv'
  BY <1>2 DEF StopSetsReason
<1>3. ASSUME NEW a \in Agents, StopDeletes(a) PROVE TypeInv'
  BY <1>3 DEF StopDeletes
<1>4. ASSUME NEW a \in Agents, StopDisconnects(a) PROVE TypeInv'
  <2>1. session' \in [Players -> 0..MaxSessions] /\ lost' \subseteq 1..MaxSessions
    BY <1>4, DisconnectTypes
  <2>2. QED
    BY <1>4, <2>1 DEF StopDisconnects
<1>5. ASSUME NEW a \in Agents, ReaderSeesStop(a) PROVE TypeInv'
  BY <1>5 DEF ReaderSeesStop
<1>6. ASSUME NEW a \in Agents, ReaderReads(a) PROVE TypeInv'
  BY <1>6 DEF ReaderReads
<1>7. ASSUME NEW a \in Agents, ReaderForwards(a) PROVE TypeInv'
  BY <1>7 DEF ReaderForwards
<1>8. ASSUME NEW a \in Agents, ReaderFails(a) PROVE TypeInv'
  <2>1. StopEffect(a) /\ awaits' \in [Agents -> Agents \cup {None}]
    BY <1>8, StoppedItself DEF StopsItself
  <2>2. QED
    BY <1>8, <2>1 DEF ReaderFails, StopEffect
<1>9. ASSUME NEW a \in Agents, RejectToken(a) PROVE TypeInv'
  <2>1. StopEffect(a) /\ awaits' \in [Agents -> Agents \cup {None}]
    BY <1>9, StoppedItself DEF StopsItself
  <2>2. QED
    BY <1>9, <2>1 DEF RejectToken, StopEffect
<1>10. ASSUME NEW a \in Agents, NEW p \in Players, ReadLoginReq(a, p) PROVE TypeInv'
  BY <1>10 DEF ReadLoginReq
<1>11. ASSUME NEW a \in Agents, LockLogin(a) PROVE TypeInv'
  BY <1>11 DEF LockLogin
<1>12. ASSUME NEW a \in Agents, LockTimeout(a) PROVE TypeInv'
  <2>1. lock' \in [Accounts -> Agents \cup {None, Left}]
    BY <1>12 DEF LockTimeout
  <2>2. StopEffect(a) /\ awaits' \in [Agents -> Agents \cup {None}]
    BY <1>12, StoppedItself DEF StopsItself
  <2>3. QED
    BY <1>12, <2>1, <2>2 DEF LockTimeout, StopEffect
<1>13. ASSUME NEW a \in Agents, FindAnother(a) PROVE TypeInv'
  BY <1>13 DEF FindAnother
<1>14. ASSUME NEW a \in Agents, RemoveAnother(a) PROVE TypeInv'
  BY <1>14 DEF RemoveAnother
<1>15. ASSUME NEW a \in Agents, StopAnother(a) PROVE TypeInv'
  <2>1. another[a] \in Agents /\ ReaderStops(a, another[a], "AnotherLogin")
    BY <1>15 DEF StopAnother
  <2>2. StopEffect(another[a]) /\ awaits' \in [Agents -> Agents \cup {None}]
    BY <2>1, ReaderStopped DEF Reasons
  <2>3. QED
    BY <1>15, <2>1, <2>2 DEF StopAnother, StopEffect
<1>16. ASSUME NEW a \in Agents, ConnectPlayer(a) PROVE TypeInv'
  BY <1>16 DEF ConnectPlayer
<1>17. ASSUME NEW a \in Agents, ConnectFails(a) PROVE TypeInv'
  <2>1. /\ session' \in [Players -> 0..MaxSessions]
        /\ nextSid' \in 1..(MaxSessions + 1) /\ lost' \subseteq 1..MaxSessions
    BY <1>17, ConnectTypes
  <2>2. StopEffect(a) /\ awaits' \in [Agents -> Agents \cup {None}]
    BY <1>17, StoppedItself DEF StopsItself
  <2>3. QED
    BY <1>17, <2>1, <2>2 DEF ConnectFails, StopEffect
<1>18. ASSUME NEW a \in Agents, AssignPlayer(a) PROVE TypeInv'
  BY <1>18 DEF AssignPlayer
<1>19. ASSUME NEW a \in Agents, AssignSid(a) PROVE TypeInv'
  BY <1>19 DEF AssignSid
<1>20. ASSUME NEW a \in Agents, AddAgent(a) PROVE TypeInv'
  BY <1>20 DEF AddAgent
<1>21. ASSUME NEW a \in Agents, ForwardLogin(a) PROVE TypeInv'
  BY <1>21 DEF ForwardLogin
<1>22. ASSUME NEW a \in Agents, ForwardFails(a) PROVE TypeInv'
  BY <1>22 DEF ForwardFails
<1>23. ASSUME NEW a \in Agents, AbortLogin(a) PROVE TypeInv'
  <2>1. StopEffect(a) /\ awaits' \in [Agents -> Agents \cup {None}]
    BY <1>23, StoppedItself DEF StopsItself
  <2>2. QED
    BY <1>23, <2>1 DEF AbortLogin, StopEffect
<1>24. ASSUME NEW a \in Agents, UnlockLogin(a) PROVE TypeInv'
  BY <1>24 DEF UnlockLogin
<1>25. ASSUME NEW a \in Agents, WriterForwards(a) PROVE TypeInv'
  BY <1>25 DEF WriterForwards
<1>26. ASSUME NEW a \in Agents, NEW pc \in WriterPcs, WriterFails(a, pc) PROVE TypeInv'
  <2>1. CallStop(a, "SystemError") /\ writerStops' \in [Agents -> BOOLEAN]
    BY <1>26 DEF WriterFails, WriterStops
  <2>2. StopEffect(a)
    BY <2>1, StopCalled DEF Reasons
  <2>3. QED
    BY <1>26, <2>1, <2>2 DEF WriterFails, StopEffect
<1>27. ASSUME NEW a \in Agents, WriterEnds(a) PROVE TypeInv'
  <2>1. told' \in [Agents -> Reasons]
    BY <1>27 DEF WriterEnds, Reasons
  <2>2. QED
    BY <1>27, <2>1 DEF WriterEnds
<1>28. ASSUME NEW c \in Callbacks, NEW p \in Players, FindAgent(c, p) PROVE TypeInv'
  BY <1>28 DEF FindAgent
<1>29. ASSUME NEW c \in Callbacks, Enqueue(c) PROVE TypeInv'
  BY <1>29 DEF Enqueue
<1>30. ASSUME NEW c \in Callbacks, ReceiveStopped(c) \/ CallbackStops(c) PROVE TypeInv'
  <2>1. callback[c] \in Agents /\ StopEffect(callback[c])
    BY <1>30, CallbackStopped
  <2>2. /\ callback' = [callback EXCEPT ![c] = None]
        /\ UNCHANGED <<readerVars, writerVars, registry, lock, gameVars, robbed>>
    BY <1>30, CallbackStopped
  <2>3. QED
    BY <2>1, <2>2 DEF StopEffect
<1>31. ASSUME NEW p \in Players, GameDisconnects(p) PROVE TypeInv'
  BY <1>31 DEF GameDisconnects
<1>32. ASSUME NEW u \in Accounts, LockExpiry(u) PROVE TypeInv'
  BY <1>32 DEF LockExpiry
<1>33. CASE UNCHANGED vars
  BY <1>33 DEF vars
<1> HIDE DEF TypeInv
<1>34. ASSUME NEW a \in Agents, Login(a) PROVE TypeInv'
  BY <1>11, <1>12, <1>13, <1>14, <1>15, <1>16, <1>17, <1>18, <1>19, <1>20, <1>21, <1>22,
     <1>23, <1>24, <1>34 DEF Login
<1>35. ASSUME NEW a \in Agents, StopBody(a) \/ Reader(a) \/ Writer(a) PROVE TypeInv'
  BY <1>1, <1>2, <1>3, <1>4, <1>5, <1>6, <1>7, <1>8, <1>9, <1>10, <1>25, <1>26, <1>27, <1>34,
     <1>35 DEF StopBody, Reader, Writer
<1>36. QED
  BY <1>28, <1>29, <1>30, <1>31, <1>32, <1>33, <1>35 DEF Next, Callback

(* TypeOK: every field keeps to its values, whatever agents, the game      *)
(* server and the expiry of locks do.                                      *)
THEOREM SessionsTypeCorrect == Spec => []TypeOK
<1>1. TypeInv => TypeOK
  BY DEF TypeInv
<1>2. QED
  BY <1>1, TypeInit, TypeNext, PTL DEF Spec

-----------------------------------------------------------------------------
(* The login lock *)

Held(a) == reader[a] \in LockedPcs

(* The steps of a reader outside and inside the part that holds the lock.  *)
OutsideLock(a) ==
  \/ ReaderSeesStop(a) \/ ReaderReads(a) \/ ReaderForwards(a) \/ ReaderFails(a)
  \/ RejectToken(a) \/ LockTimeout(a) \/ \E p \in Players : ReadLoginReq(a, p)

UnderLock(a) ==
  \/ FindAnother(a) \/ RemoveAnother(a) \/ StopAnother(a) \/ ConnectPlayer(a) \/ ConnectFails(a)
  \/ AssignPlayer(a) \/ AssignSid(a) \/ AddAgent(a) \/ ForwardLogin(a) \/ ForwardFails(a)
  \/ AbortLogin(a)

LEMMA LockSteps ==
  ASSUME [Next]_vars
  PROVE  \/ UNCHANGED <<reader, target, lock>>
         \/ \E a \in Agents : OutsideLock(a) \/ UnderLock(a) \/ LockLogin(a) \/ UnlockLogin(a)
         \/ \E u \in Accounts : LockExpiry(u)
  BY DEF Next, vars, readerVars, OutsideLock, UnderLock, StopBody, StopCloses, StopSetsReason,
         StopDeletes, StopDisconnects, Reader, Login, Writer, WriterForwards, WriterFails,
         WriterEnds, Callback, FindAgent, Enqueue, ReceiveStopped, CallbackStops,
         CallbackCallsStop, GameDisconnects

(* OutsideLock changes no lock but for one whose Lock answer was lost. *)
LEMMA OutsideEffect ==
  ASSUME TypeInv, NEW a \in Agents, OutsideLock(a)
  PROVE  /\ ~Held(a) /\ ~Held(a)' /\ lock' \in [Accounts -> Agents \cup {None, Left}]
         /\ \A u \in Accounts : lock'[u] = lock[u] \/ (lock[u] = None /\ lock'[u] = Left)
         /\ \A b \in Agents \ {a} : reader'[b] = reader[b] /\ target'[b] = target[b]
<1> USE DEF TypeInv, TypeOK, ReaderPcs, LockedPcs, Held, Goes
<1>1. CASE LockTimeout(a)
  BY <1>1 DEF LockTimeout
<1>2. CASE ~LockTimeout(a)
  BY <1>2 DEF OutsideLock, ReaderSeesStop, ReaderReads, ReaderForwards, ReaderFails, RejectToken,
              ReadLoginReq
<1>3. QED
  BY <1>1, <1>2

LEMMA UnderEffect ==
  ASSUME TypeInv, NEW a \in Agents, UnderLock(a)
  PROVE  /\ UNCHANGED <<lock, target>> /\ Held(a) /\ Held(a)'
         /\ \A b \in Agents \ {a} : reader'[b] = reader[b]
  BY DEF TypeInv, TypeOK, ReaderPcs, LockedPcs, Held, Goes, UnderLock, FindAnother, RemoveAnother,
         StopAnother, ConnectPlayer, ConnectFails, AssignPlayer, AssignSid, AddAgent, ForwardLogin,
         ForwardFails, AbortLogin

LEMMA HolderNext == TypeInv /\ LockHeldInLogin /\ [Next]_vars => LockHeldInLogin'
<1> SUFFICES ASSUME TypeInv, LockHeldInLogin, [Next]_vars PROVE LockHeldInLogin'
  OBVIOUS
<1> USE AgentAssumption DEF TypeInv, TypeOK, ReaderPcs, LockedPcs
<1>1. CASE UNCHANGED <<reader, target, lock>>
  BY <1>1 DEF LockHeldInLogin
<1>2. ASSUME NEW a \in Agents, OutsideLock(a) PROVE LockHeldInLogin'
  BY <1>2, OutsideEffect DEF LockHeldInLogin, Held
<1>3. ASSUME NEW a \in Agents, UnderLock(a) PROVE LockHeldInLogin'
  BY <1>3, UnderEffect DEF LockHeldInLogin, Held
<1>4. ASSUME NEW a \in Agents, LockLogin(a) PROVE LockHeldInLogin'
  BY <1>4 DEF LockLogin, Goes, LockHeldInLogin
<1>5. ASSUME NEW a \in Agents, UnlockLogin(a) PROVE LockHeldInLogin'
  BY <1>5 DEF UnlockLogin, Goes, LockHeldInLogin
<1>6. ASSUME NEW u \in Accounts, LockExpiry(u) PROVE LockHeldInLogin'
  BY <1>6 DEF LockExpiry, LockHeldInLogin, readerVars
<1>7. QED
  BY <1>1, <1>2, <1>3, <1>4, <1>5, <1>6, LockSteps

(* Whoever holds the login lock of an account is in a login of it: no path *)
(* through the login keeps the lock, whatever fails and whatever expires   *)
(* (LockHeldInLogin).                                                      *)
THEOREM LockIsForLogins == Spec => []LockHeldInLogin
<1>1. Init => LockHeldInLogin
  BY AgentAssumption DEF Init, LockHeldInLogin
<1>2. QED
  BY <1>1, HolderNext, TypeInit, TypeNext, PTL DEF Spec

(* Locks that outlive their logins: a login under the lock still holds it, *)
(* so two logins of one account are never under it together.               *)
LockInv ==
  \A a \in Agents : Held(a) => lock[AccountOf[target[a]]] = a

LEMMA LockNext == ~LockExpires /\ TypeInv /\ LockInv /\ [Next]_vars => LockInv'
<1> SUFFICES ASSUME ~LockExpires, TypeInv, LockInv, [Next]_vars PROVE LockInv'
  OBVIOUS
<1> USE AgentAssumption DEF TypeInv, TypeOK, ReaderPcs, LockedPcs
<1>1. CASE UNCHANGED <<reader, target, lock>>
  BY <1>1 DEF LockInv, Held
<1>2. ASSUME NEW a \in Agents, OutsideLock(a) PROVE LockInv'
  BY <1>2, OutsideEffect DEF LockInv, Held
<1>3. ASSUME NEW a \in Agents, UnderLock(a) PROVE LockInv'
  BY <1>3, UnderEffect DEF LockInv, Held
<1>4. ASSUME NEW a \in Agents, LockLogin(a) PROVE LockInv'
  BY <1>4 DEF LockLogin, Goes, LockInv, Held
<1>5. ASSUME NEW a \in Agents, UnlockLogin(a) PROVE LockInv'
  BY <1>5 DEF UnlockLogin, Goes, LockInv, Held
<1>6. ASSUME NEW u \in Accounts, LockExpiry(u) PROVE LockInv'
  BY <1>6 DEF LockExpiry, LockInv, Held, readerVars
<1>7. QED
  BY <1>1, <1>2, <1>3, <1>4, <1>5, <1>6, LockSteps

-----------------------------------------------------------------------------
(* One login per connection *)

(* An agent whose login has got past AddAgent. *)
Settled(a) == player[a] # None /\ reader[a] \notin {"sid", "register"}

(* With one login a connection plays one character, and only settled       *)
(* agents are registered, found by a login of their player, or found by a  *)
(* callback.                                                               *)
OnceInv ==
  /\ \A a \in Agents :
       /\ \/ target[a] = None
          \/ reader[a] \in {"lock", "kick", "remove", "stop", "connect", "assign"}
          => player[a] = None
       /\ player[a] # None => player[a] = target[a]
       /\ reader[a] = "sid" => sid[a] = 0
       /\ reader[a] \in {"remove", "stop"} =>
            Settled(another[a]) /\ player[another[a]] = target[a]
  /\ \A p \in Players : registry[p] # None =>
       Settled(registry[p]) /\ player[registry[p]] = p
  /\ \A c \in Callbacks : callback[c] # None => Settled(callback[c])

(* What an agent keeps in a step that neither finds, registers nor assigns *)
(* anything: settled agents stay so, and entries only go.                  *)
OnceKept ==
  /\ UNCHANGED <<player, sid, target>>
  /\ \A b \in Agents :
       /\ reader'[b] \in {"sid", "register"} => reader[b] = reader'[b]
       /\ reader'[b] \in {"lock", "kick", "remove", "stop", "connect", "assign"} =>
            reader[b] \in {"lock", "kick", "remove", "stop", "connect", "assign"}
       /\ reader'[b] \in {"remove", "stop"} =>
            reader[b] \in {"remove", "stop"} /\ another'[b] = another[b]
  /\ \A p \in Players : registry'[p] \in {registry[p], None}
  /\ \A c \in Callbacks : callback'[c] \in {callback[c], None}

LEMMA OnceKeeps == TypeInv /\ OnceInv /\ OnceKept => OnceInv'
  BY AgentAssumption DEF TypeInv, TypeOK, OnceInv, OnceKept, Settled

(* The steps of which this is not enough to know. *)
OnceSteps ==
  \/ \E a \in Agents : \/ FindAnother(a) \/ AssignPlayer(a) \/ AssignSid(a) \/ AddAgent(a)
                       \/ \E p \in Players : ReadLoginReq(a, p)
  \/ \E c \in Callbacks, p \in Players : FindAgent(c, p)

LEMMA OnceKeepers == TypeInv /\ [Next]_vars => OnceKept \/ OnceSteps
<1> SUFFICES ASSUME TypeInv, [Next]_vars PROVE OnceKept \/ OnceSteps
  OBVIOUS
<1> USE AgentAssumption DEF TypeInv, TypeOK, ReaderPcs, LockedPcs
<1>1. CASE UNCHANGED <<reader, target, another, player, sid, callback, registry>>
  BY <1>1 DEF OnceKept
<1>2. ASSUME NEW a \in Agents,
             \/ ReaderSeesStop(a) \/ ReaderReads(a) \/ ReaderForwards(a) \/ StopsItself(a)
             \/ LockLogin(a) \/ RemoveAnother(a) \/ StopAnother(a) \/ ConnectPlayer(a)
             \/ ForwardLogin(a) \/ ForwardFails(a) \/ UnlockLogin(a)
      PROVE  OnceKept
  <2>1. /\ UNCHANGED <<player, sid, target, callback>>
        /\ \A p \in Players : registry'[p] \in {registry[p], None}
        /\ \A b \in Agents \ {a} : reader'[b] = reader[b] /\ another'[b] = another[b]
    BY <1>2 DEF ReaderSeesStop, ReaderReads, ReaderForwards, StopsItself, ReaderFails, RejectToken,
                LockTimeout, ConnectFails, AbortLogin, LockLogin, RemoveAnother, StopAnother,
                ConnectPlayer, ForwardLogin, ForwardFails, UnlockLogin, Goes, DelAgent, readerVars
  <2>2. \/ reader'[a] \in {"loop", "read", "exited", "unlock", "abort"}
        \/ reader[a] = "lock" /\ reader'[a] = "kick"
        \/ reader[a] = "remove" /\ reader'[a] = "stop" /\ another' = another
        \/ reader[a] = "stop" /\ reader'[a] = "connect"
        \/ reader[a] = "connect" /\ reader'[a] = "assign"
    BY <1>2 DEF ReaderSeesStop, ReaderReads, ReaderForwards, StopsItself, ReaderFails, RejectToken,
                LockTimeout, ConnectFails, AbortLogin, LockLogin, RemoveAnother, StopAnother,
                ConnectPlayer, ForwardLogin, ForwardFails, UnlockLogin, Goes, readerVars
  <2>3. QED
    BY <2>1, <2>2 DEF OnceKept
<1>3. ASSUME NEW a \in Agents, StopDeletes(a) PROVE OnceKept
  BY <1>3 DEF StopDeletes, DelAgent, OnceKept, readerVars
<1>4. ASSUME NEW c \in Callbacks, Enqueue(c) PROVE OnceKept
  BY <1>4 DEF Enqueue, Returns, OnceKept, readerVars
<1>5. ASSUME NEW c \in Callbacks, ReceiveStopped(c) \/ CallbackStops(c) PROVE OnceKept
  BY <1>5 DEF ReceiveStopped, CallbackStops, CallbackCallsStop, Returns, OnceKept, readerVars
<1>6. QED
  BY <1>1, <1>2, <1>3, <1>4, <1>5
     DEF Next, vars, readerVars, OnceSteps, StopsItself, StopBody, StopCloses, StopSetsReason,
         StopDisconnects, Reader, Login, Writer, WriterForwards, WriterFails, WriterEnds, Callback,
         GameDisconnects, LockExpiry

LEMMA OnceNext == ~Relogin /\ TypeInv /\ OnceInv /\ [Next]_vars => OnceInv'
<1> SUFFICES ASSUME ~Relogin, TypeInv, OnceInv, [Next]_vars PROVE OnceInv'
  OBVIOUS
<1>1. CASE OnceKept
  BY <1>1, OnceKeeps
<1> USE AgentAssumption DEF TypeInv, TypeOK, ReaderPcs, LockedPcs
<1>2. ASSUME NEW a \in Agents, FindAnother(a) PROVE OnceInv'
  BY <1>2 DEF FindAnother, Goes, OnceInv, Settled
<1>3. ASSUME NEW a \in Agents, AssignPlayer(a) PROVE OnceInv'
  BY <1>3 DEF AssignPlayer, Goes, OnceInv, Settled
<1>4. ASSUME NEW a \in Agents, AssignSid(a) PROVE OnceInv'
  BY <1>4 DEF AssignSid, Goes, OnceInv, Settled
<1>5. ASSUME NEW a \in Agents, AddAgent(a) PROVE OnceInv'
  BY <1>5 DEF AddAgent, Goes, OnceInv, Settled
<1>6. ASSUME NEW a \in Agents, NEW p \in Players, ReadLoginReq(a, p) PROVE OnceInv'
  BY <1>6 DEF ReadLoginReq, Goes, OnceInv, Settled
<1>7. ASSUME NEW c \in Callbacks, NEW p \in Players, FindAgent(c, p) PROVE OnceInv'
  BY <1>7 DEF FindAgent, OnceInv, Settled, readerVars
<1> HIDE DEF TypeInv
<1>8. QED
  BY <1>1, <1>2, <1>3, <1>4, <1>5, <1>6, <1>7, OnceKeepers DEF OnceSteps

(* From the kick to the registration the registry holds nobody for the     *)
(* player, because every registration of the player needs its lock.        *)
EmptyPcs == {"stop", "connect", "assign", "sid", "register"}

EmptyInv ==
  \A a \in Agents : reader[a] \in EmptyPcs => registry[target[a]] = None

LEMMA EmptyNext == TypeInv /\ LockInv /\ OnceInv /\ EmptyInv /\ [Next]_vars => EmptyInv'
<1> SUFFICES ASSUME TypeInv, LockInv, OnceInv, EmptyInv, [Next]_vars PROVE EmptyInv'
  OBVIOUS
<1> USE AgentAssumption DEF TypeInv, TypeOK, ReaderPcs, LockedPcs, EmptyPcs
<1>1. ASSUME \A p \in Players : registry'[p] \in {registry[p], None},
             \A a \in Agents : reader'[a] \in EmptyPcs =>
                                 reader[a] \in EmptyPcs /\ target'[a] = target[a]
      PROVE  EmptyInv'
  BY <1>1 DEF EmptyInv
<1>2. CASE UNCHANGED <<reader, target, registry>>
  BY <1>1, <1>2
<1>3. ASSUME NEW a \in Agents,
             \/ ReaderSeesStop(a) \/ ReaderReads(a) \/ ReaderForwards(a) \/ StopsItself(a)
             \/ LockLogin(a) \/ StopAnother(a) \/ ConnectPlayer(a) \/ AssignPlayer(a)
             \/ AssignSid(a) \/ ForwardLogin(a) \/ ForwardFails(a) \/ UnlockLogin(a)
             \/ \E p \in Players : ReadLoginReq(a, p)
      PROVE  EmptyInv'
  <2>1. /\ \A p \in Players : registry'[p] \in {registry[p], None}
        /\ \A b \in Agents \ {a} : reader'[b] = reader[b] /\ target'[b] = target[b]
    BY <1>3 DEF ReaderSeesStop, ReaderReads, ReaderForwards, StopsItself, ReaderFails, RejectToken,
                LockTimeout, ConnectFails, AbortLogin, LockLogin, StopAnother, ConnectPlayer,
                AssignPlayer, AssignSid, ForwardLogin, ForwardFails, UnlockLogin, ReadLoginReq,
                Goes, DelAgent, readerVars
  <2>2. reader'[a] \in EmptyPcs => reader[a] \in EmptyPcs /\ target'[a] = target[a]
    BY <1>3 DEF ReaderSeesStop, ReaderReads, ReaderForwards, StopsItself, ReaderFails, RejectToken,
                LockTimeout, ConnectFails, AbortLogin, LockLogin, StopAnother, ConnectPlayer,
                AssignPlayer, AssignSid, ForwardLogin, ForwardFails, UnlockLogin, ReadLoginReq,
                Goes, readerVars
  <2>3. QED
    BY <1>1, <2>1, <2>2
<1>4. ASSUME NEW a \in Agents, FindAnother(a) PROVE EmptyInv'
  BY <1>4 DEF FindAnother, Goes, EmptyInv
<1>5. ASSUME NEW a \in Agents, RemoveAnother(a) PROVE EmptyInv'
  <2>1. /\ target' = target /\ reader' = [reader EXCEPT ![a] = "stop"]
        /\ registry' = [registry EXCEPT ![target[a]] = None]
    BY <1>5 DEF RemoveAnother, Goes, DelAgent, OnceInv
  <2>2. registry'[target[a]] = None /\ \A p \in Players : registry'[p] \in {registry[p], None}
    BY <1>5, <2>1 DEF RemoveAnother
  <2>3. QED
    BY <2>1, <2>2 DEF EmptyInv
<1>6. ASSUME NEW a \in Agents, AddAgent(a) PROVE EmptyInv'
  <2>1. /\ target' = target /\ reader' = [reader EXCEPT ![a] = "forward"]
        /\ registry' = [registry EXCEPT ![target[a]] = a] /\ Held(a)
    BY <1>6 DEF AddAgent, Goes, OnceInv, Held
  <2>2. \A b \in Agents \ {a} : Held(b) => target[b] # target[a]
    BY <2>1 DEF LockInv
  <2>3. QED
    BY <2>1, <2>2 DEF EmptyInv, Held
<1>7. ASSUME NEW a \in Agents, StopDeletes(a) PROVE EmptyInv'
  BY <1>1, <1>7 DEF StopDeletes, DelAgent, readerVars
<1>8. QED
  BY <1>2, <1>3, <1>4, <1>5, <1>6, <1>7
     DEF Next, vars, readerVars, StopsItself, StopBody, StopCloses, StopSetsReason,
         StopDisconnects, Reader, Login, Writer, WriterForwards, WriterFails, WriterEnds, Callback,
         FindAgent, Enqueue, ReceiveStopped, CallbackStops, CallbackCallsStop, GameDisconnects,
         LockExpiry

LoginInv == TypeInv /\ LockInv /\ OnceInv /\ EmptyInv

LEMMA LoginInit == Init => LoginInv
  BY TypeInit, AgentAssumption
     DEF Init, LoginInv, LockInv, OnceInv, EmptyInv, EmptyPcs, Held, LockedPcs

OneLogin == ~Relogin /\ ~LockExpires

LEMMA LoginNext == OneLogin /\ LoginInv /\ [Next]_vars => LoginInv'
  BY TypeNext, LockNext, OnceNext, EmptyNext DEF LoginInv, OneLogin

(* A login finds no entry for its player when it registers                 *)
(* (AddNeverOverwrites): the lock spans the kick and the registration.     *)
THEOREM AddsNeverOverwrite == OneLogin /\ Spec => AddNeverOverwrites
<1>1. LoginInv /\ [Next]_vars =>
        [\A a \in Agents : AddAgent(a) => registry[player[a]] = None]_registry
  BY DEF LoginInv, OnceInv, EmptyInv, EmptyPcs, AddAgent, TypeInv
<1>2. CASE OneLogin
  <2>1. LoginInv /\ [Next]_vars => LoginInv'
    BY <1>2, LoginNext
  <2>2. QED
    BY <1>1, <2>1, LoginInit, PTL DEF Spec, AddNeverOverwrites
<1>3. CASE ~OneLogin
  BY <1>3, PTL
<1>4. QED
  BY <1>2, <1>3

-----------------------------------------------------------------------------
(* Stops of agents with one login *)

QuietPcs == {"lock", "kick", "remove", "stop", "connect", "assign", "sid", "register"}

(* Nobody stops an agent before its login has registered it, but its own   *)
(* reader, which does not log in after that: packets and callbacks only    *)
(* reach settled agents.                                                   *)
QuietInv ==
  \A a \in Agents :
    /\ stopFlag[a] <=> stopPc[a] # "idle"
    /\ stopPc[a] \notin {"idle", "close"} => chStop[a]
    /\ reader[a] \in QuietPcs => ~stopFlag[a]
    /\ target[a] = None /\ stopFlag[a] =>
         reader[a] = "exited" \/ (reader[a] = "loop" /\ awaits[a] = a)
    /\ ~Settled(a) => pending[a] = 0

LEMMA QuietNext == ~Relogin /\ TypeInv /\ OnceInv /\ QuietInv /\ [Next]_vars => QuietInv'
<1> SUFFICES ASSUME ~Relogin, TypeInv, OnceInv, QuietInv, [Next]_vars PROVE QuietInv'
  OBVIOUS
<1> USE AgentAssumption DEF TypeInv, TypeOK, ReaderPcs, LockedPcs, StopPcs, QuietPcs
<1>1. CASE UNCHANGED <<stopFlag, stopPc, chStop, reader, target, awaits, player, pending>>
  BY <1>1 DEF QuietInv, Settled
<1>2. ASSUME NEW a \in Agents, StopBody(a) PROVE QuietInv'
  <2>1. /\ UNCHANGED <<stopFlag, reader, target, awaits, player, pending>>
        /\ stopPc[a] # "idle"
        /\ stopPc[a] = "close" => chStop'[a]
        /\ \A b \in Agents : chStop[b] => chStop'[b]
        /\ \E pc \in StopPcs \ {"idle", "close"} : stopPc' = [stopPc EXCEPT ![a] = pc]
    BY <1>2 DEF StopBody, StopCloses, StopSetsReason, StopDeletes, StopDisconnects, readerVars,
                writerVars
  <2>2. QED
    BY <2>1 DEF QuietInv, Settled
<1>3. ASSUME NEW a \in Agents,
             \/ ReaderSeesStop(a) \/ ReaderReads(a) \/ ReaderForwards(a)
             \/ ForwardLogin(a) \/ ForwardFails(a) \/ UnlockLogin(a)
      PROVE  QuietInv'
  <2>1. /\ UNCHANGED <<stopFlag, stopPc, chStop, target, awaits, player, pending>>
        /\ \E pc \in ReaderPcs \ QuietPcs : reader' = [reader EXCEPT ![a] = pc]
        /\ reader[a] \notin {"sid", "register"}
    BY <1>3 DEF ReaderSeesStop, ReaderReads, ReaderForwards, ForwardLogin, ForwardFails,
                UnlockLogin, Goes, readerVars, stopVars, writerVars
  <2>2. target[a] = None /\ stopFlag[a] => reader'[a] = "exited"
    BY <1>3 DEF ReaderSeesStop, ReaderReads, ReaderForwards, ForwardLogin, ForwardFails,
                UnlockLogin, Goes, ReaderReady, QuietInv
  <2>3. QED
    BY <2>1, <2>2 DEF QuietInv, Settled
<1>4. ASSUME NEW a \in Agents,
             \/ LockLogin(a) \/ FindAnother(a) \/ RemoveAnother(a) \/ ConnectPlayer(a)
             \/ AssignPlayer(a) \/ AssignSid(a) \/ AddAgent(a)
      PROVE  QuietInv'
  <2>1. /\ UNCHANGED <<stopFlag, stopPc, chStop, target, awaits, pending>>
        /\ \A b \in Agents \ {a} : reader'[b] = reader[b] /\ player'[b] = player[b]
        /\ reader[a] \in QuietPcs /\ target[a] # None /\ ~Settled(a)
    BY <1>4 DEF LockLogin, FindAnother, RemoveAnother, ConnectPlayer, AssignPlayer, AssignSid,
                AddAgent, Goes, stopVars, writerVars, OnceInv, Settled
  <2>2. QED
    BY <2>1 DEF QuietInv, Settled
<1>5. ASSUME NEW a \in Agents, NEW p \in Players, ReadLoginReq(a, p) PROVE QuietInv'
  BY <1>5 DEF ReadLoginReq, Goes, OnceInv, QuietInv, Settled, stopVars, writerVars
<1>6. ASSUME NEW a \in Agents, StopAnother(a) PROVE QuietInv'
  <2> DEFINE k == another[a]
  <2>1. /\ UNCHANGED <<target, player, pending>> /\ reader' = [reader EXCEPT ![a] = "connect"]
        /\ reader[a] = "stop" /\ player[a] = None /\ target[a] # None
        /\ k \in Agents /\ Settled(k) /\ player[k] = target[a]
        /\ ReaderStops(a, k, "AnotherLogin")
    BY <1>6 DEF StopAnother, Goes, OnceInv, writerVars
  <2>2. /\ StopEffect(k)
        /\ awaits' = [awaits EXCEPT ![a] = IF stopFlag[k] THEN None ELSE k]
    BY <2>1, ReaderStopped DEF Reasons
  <2>3. reader[k] \notin QuietPcs /\ target[k] # None /\ k # a
    BY <2>1 DEF OnceInv, Settled
  <2> HIDE DEF k
  <2>4. QED
    BY <2>1, <2>2, <2>3 DEF QuietInv, StopEffect, Settled
<1>7. ASSUME NEW a \in Agents, StopsItself(a) PROVE QuietInv'
  <2>1. /\ UNCHANGED <<target, player, pending>>
        /\ \E pc \in {"loop", "unlock", "exited"} : reader' = [reader EXCEPT ![a] = pc]
        /\ reader[a] \notin {"sid", "register"}
    BY <1>7 DEF StopsItself, ReaderFails, RejectToken, LockTimeout, ConnectFails, AbortLogin, Goes,
                writerVars
  <2>2. /\ StopEffect(a)
        /\ awaits' = [awaits EXCEPT ![a] = IF stopFlag[a] THEN None ELSE a]
    BY <1>7, StoppedItself
  <2>3. target[a] = None => /\ reader[a] = "read" /\ ~stopFlag[a]
                            /\ reader'[a] \in {"exited", "loop"}
    BY <1>7 DEF StopsItself, ReaderFails, RejectToken, LockTimeout, ConnectFails, AbortLogin, Goes,
                QuietInv
  <2>4. QED
    BY <2>1, <2>2, <2>3 DEF QuietInv, StopEffect, Settled
<1>8. ASSUME NEW k \in Agents, Settled(k), StopEffect(k), UNCHANGED <<reader, target, awaits, player>>,
             pending' \in [Agents -> Nat], \A b \in Agents : pending[b] = 0 => pending'[b] = 0
      PROVE  QuietInv'
  <2>1. reader[k] \notin QuietPcs /\ target[k] # None
    BY <1>8 DEF OnceInv, Settled
  <2>2. QED
    BY <1>8, <2>1 DEF QuietInv, StopEffect, Settled
<1>9. ASSUME NEW a \in Agents, WriterForwards(a) PROVE QuietInv'
  BY <1>9 DEF WriterForwards, TakePending, QuietInv, Settled, stopVars, readerVars
<1>10. ASSUME NEW a \in Agents, NEW pc \in WriterPcs, WriterFails(a, pc) PROVE QuietInv'
  <2>1. /\ UNCHANGED <<reader, target, awaits, player>> /\ pending[a] > 0
        /\ pending' = [pending EXCEPT ![a] = @ - 1] /\ CallStop(a, "SystemError")
    BY <1>10 DEF WriterFails, WriterStops, TakePending, readerVars
  <2>2. StopEffect(a)
    BY <2>1, StopCalled DEF Reasons
  <2>3. Settled(a)
    BY <2>1 DEF QuietInv
  <2>4. pending' \in [Agents -> Nat] /\ \A b \in Agents : pending[b] = 0 => pending'[b] = 0
    BY <2>1
  <2>5. QED
    BY <1>8, <2>1, <2>2, <2>3, <2>4
<1>11. ASSUME NEW c \in Callbacks, Enqueue(c) PROVE QuietInv'
  BY <1>11 DEF Enqueue, OnceInv, QuietInv, Settled, stopVars, readerVars
<1>12. ASSUME NEW c \in Callbacks, ReceiveStopped(c) \/ CallbackStops(c) PROVE QuietInv'
  <2>1. /\ callback[c] \in Agents /\ StopEffect(callback[c])
        /\ UNCHANGED <<reader, target, awaits, player, pending>>
    BY <1>12, CallbackStopped DEF readerVars, writerVars
  <2>2. Settled(callback[c])
    BY <2>1 DEF OnceInv
  <2>3. QED
    BY <1>8, <2>1, <2>2
<1> HIDE DEF TypeInv
<1>13. QED
  BY <1>1, <1>2, <1>3, <1>4, <1>5, <1>6, <1>7, <1>9, <1>10, <1>11, <1>12
     DEF Next, vars, stopVars, readerVars, writerVars, StopsItself, Reader, Login, Writer,
         WriterEnds, Callback, FindAgent, GameDisconnects, LockExpiry

SessionInv == TypeInv /\ OnceInv /\ QuietInv

LEMMA SessionInit == Init => SessionInv
  BY LoginInit, AgentAssumption DEF Init, LoginInv, SessionInv, QuietInv, QuietPcs

LEMMA SessionNext == ~Relogin /\ SessionInv /\ [Next]_vars => SessionInv'
  BY TypeNext, OnceNext, QuietNext DEF SessionInv

-----------------------------------------------------------------------------
(* Agents that nobody has stopped *)

(* What DelAgent(x) takes from another agent is noted in robbed. *)
LEMMA EntriesTaken ==
  ASSUME TypeInv, NEW x \in Agents, player[x] # None, DelAgent(x)
  PROVE  /\ robbed \subseteq robbed'
         /\ \A p \in Players : registry'[p] \in {registry[p], None}
         /\ \A c \in Agents \ robbed', p \in Players :
              c # x /\ registry[p] = c => registry'[p] = c
  BY AgentAssumption DEF TypeInv, TypeOK, DelAgent

(* A reader about to stop an agent does that and nothing else. *)
LEMMA ReaderMoves ==
  ASSUME TypeInv, [Next]_vars, NEW a \in Agents
  PROVE  /\ reader[a] = "abort" /\ ~AbortLogin(a) => reader'[a] = reader[a]
         /\ reader[a] = "stop" /\ ~StopAnother(a) =>
              reader'[a] = reader[a] /\ another'[a] = another[a]
<1>1. CASE UNCHANGED <<reader, another>>
  BY <1>1
<1>2. ASSUME NEW b \in Agents, Reader(b)
      PROVE  /\ \A c \in Agents \ {b} : reader'[c] = reader[c] /\ another'[c] = another[c]
             /\ reader[b] = "abort" => AbortLogin(b)
             /\ reader[b] = "stop" => StopAnother(b)
  <2>1. CASE Login(b)
    BY <2>1 DEF Login, LockLogin, LockTimeout, FindAnother, RemoveAnother, StopAnother,
                ConnectPlayer, ConnectFails, AssignPlayer, AssignSid, AddAgent, ForwardLogin,
                ForwardFails, AbortLogin, UnlockLogin, Goes, TypeInv, TypeOK
  <2>2. CASE ~Login(b)
    BY <1>2, <2>2 DEF Reader, ReaderReads, ReaderSeesStop, RejectToken, ReadLoginReq,
                      ReaderForwards, ReaderFails, Goes, TypeInv, TypeOK
  <2>3. QED
    BY <2>1, <2>2
<1>3. QED
  BY <1>1, <1>2
     DEF Next, vars, readerVars, StopBody, StopCloses, StopSetsReason, StopDeletes,
         StopDisconnects, Writer, WriterForwards, WriterFails, WriterEnds, Callback, FindAgent,
         Enqueue, ReceiveStopped, CallbackStops, CallbackCallsStop, GameDisconnects, LockExpiry

(* An agent that is stopped, or that a login is about to stop, stays so.   *)
Doomed(a) == stopFlag[a] \/ BeingStopped(a)

LEMMA DoomedStays ==
  ASSUME TypeInv, [Next]_vars, NEW b \in Agents, Doomed(b)
  PROVE  Doomed(b)'
<1> USE DEF TypeInv, TypeOK
<1>1. stopFlag[b] => stopFlag'[b]
  <2>1. CASE UNCHANGED stopFlag
    BY <2>1
  <2>2. ASSUME NEW k \in Agents, NEW why \in Reasons, CallStop(k, why)
        PROVE  stopFlag[b] => stopFlag'[b]
    BY <2>2, StopCalled DEF StopEffect
  <2>3. UNCHANGED stopFlag \/ \E k \in Agents, why \in Reasons : CallStop(k, why)
    <3>1. ASSUME NEW a \in Agents, StopAnother(a)
          PROVE  \E k \in Agents, why \in Reasons : CallStop(k, why)
      BY <3>1 DEF StopAnother, ReaderStops, Reasons
    <3>2. ASSUME NEW a \in Agents, StopsItself(a) \/ \E pc \in WriterPcs : WriterFails(a, pc)
          PROVE  \E k \in Agents, why \in Reasons : CallStop(k, why)
      BY <3>2 DEF StopsItself, ReaderFails, RejectToken, LockTimeout, ConnectFails, AbortLogin,
                  WriterFails, WriterStops, ReaderStops, Reasons
    <3>3. ASSUME NEW c \in Callbacks, ReceiveStopped(c) \/ CallbackStops(c)
          PROVE  \E k \in Agents, why \in Reasons : CallStop(k, why)
      BY <3>3, AgentAssumption DEF ReceiveStopped, CallbackStops, CallbackCallsStop, Reasons
    <3> HIDE DEF TypeInv, TypeOK
    <3>4. QED
      BY <3>1, <3>2, <3>3
         DEF Next, vars, stopVars, StopBody, StopCloses, StopSetsReason, StopDeletes,
             StopDisconnects, StopsItself, Reader, Login, ReaderReads, ReaderSeesStop,
             ReadLoginReq, ReaderForwards, LockLogin, FindAnother, RemoveAnother, ConnectPlayer,
             AssignPlayer, AssignSid, AddAgent, ForwardLogin, ForwardFails, UnlockLogin, Writer,
             WriterForwards, WriterEnds, Callback, FindAgent, Enqueue, GameDisconnects, LockExpiry
  <2>4. QED
    BY <2>1, <2>2, <2>3
<1>2. ASSUME NEW a \in Agents, reader[a] = "abort"
      PROVE  reader'[a] = "abort" \/ stopFlag'[a]
  <2>1. CASE AbortLogin(a)
    <3>1. StopEffect(a)
      BY <2>1, StoppedItself DEF StopsItself
    <3>2. QED
      BY <3>1 DEF StopEffect
  <2>2. CASE ~AbortLogin(a)
    <3>1. reader'[a] = reader[a]
      BY <1>2, <2>2, ReaderMoves
    <3>2. QED
      BY <1>2, <3>1
  <2>3. QED
    BY <2>1, <2>2
<1>3. ASSUME NEW a \in Agents, reader[a] = "stop"
      PROVE  (reader'[a] = "stop" /\ another'[a] = another[a]) \/ stopFlag'[another[a]]
  <2>1. CASE StopAnother(a)
    <3>1. another[a] \in Agents /\ ReaderStops(a, another[a], "AnotherLogin")
      BY <2>1, <1>3 DEF StopAnother
    <3>2. StopEffect(another[a])
      BY <3>1, ReaderStopped DEF Reasons
    <3>3. QED
      BY <3>1, <3>2 DEF StopEffect
  <2>2. CASE ~StopAnother(a)
    <3>1. reader'[a] = reader[a] /\ another'[a] = another[a]
      BY <1>3, <2>2, ReaderMoves
    <3>2. QED
      BY <1>3, <3>1
  <2>3. QED
    BY <2>1, <2>2
<1> HIDE DEF TypeInv, TypeOK
<1>4. QED
  BY <1>1, <1>2, <1>3 DEF Doomed, BeingStopped

(* A stop that has begun is marked, and a login registers its target.      *)
CallInv ==
  \A a \in Agents :
    /\ stopPc[a] # "idle" => stopFlag[a]
    /\ reader[a] \in {"sid", "register", "forward", "abort"} => player[a] = target[a]

(* From the kick to the registration every other agent of the player is    *)
(* stopped or about to be: this one holds the lock that others would need. *)
KickPcs == {"remove", "stop", "connect", "assign", "sid", "register"}

KickedInv ==
  \A a, b \in Agents :
    /\ reader[a] \in KickPcs /\ player[b] = target[a]
    /\ b # a /\ b \notin robbed /\ reader[b] \notin {"sid", "register"}
    => Doomed(b) \/ (reader[a] = "remove" /\ another[a] = b)

ServedInv == TypeInv /\ LockInv /\ CallInv /\ KickedInv /\ LiveIsRegistered

(* What every other step than those of LoginStep keeps: no agent changes   *)
(* its player, no login gets to know another agent, none is registered.    *)
Bystander ==
  /\ player' = player /\ robbed \subseteq robbed'
  /\ \A a \in Agents :
       /\ reader[a] \in {"sid", "register"} <=> reader'[a] \in {"sid", "register"}
       /\ reader'[a] \in KickPcs => reader[a] \in KickPcs /\ target'[a] = target[a]
       /\ reader'[a] \in KickPcs /\ reader[a] = "remove" =>
            reader'[a] = "remove" /\ another'[a] = another[a]
       /\ reader'[a] \in {"sid", "register", "forward", "abort"} =>
            reader[a] \in {"sid", "register", "forward", "abort"} /\ target'[a] = target[a]

LoginStep(a) == FindAnother(a) \/ RemoveAnother(a) \/ AssignPlayer(a) \/ AddAgent(a)

LEMMA Bystanders == TypeInv /\ [Next]_vars => Bystander \/ \E a \in Agents : LoginStep(a)
<1> SUFFICES ASSUME TypeInv, [Next]_vars PROVE Bystander \/ \E a \in Agents : LoginStep(a)
  OBVIOUS
<1> USE AgentAssumption DEF TypeInv, TypeOK, ReaderPcs, LockedPcs, KickPcs
<1>1. CASE UNCHANGED <<player, robbed, reader, target, another>>
  BY <1>1 DEF Bystander
<1>2. ASSUME NEW a \in Agents, StopDeletes(a) PROVE Bystander
  BY <1>2 DEF StopDeletes, DelAgent, Bystander, readerVars
<1>3. ASSUME NEW a \in Agents,
             \/ ReaderSeesStop(a) \/ ReaderReads(a) \/ ReaderForwards(a) \/ StopsItself(a)
             \/ LockLogin(a) \/ StopAnother(a) \/ ConnectPlayer(a) \/ AssignSid(a)
             \/ ForwardLogin(a) \/ ForwardFails(a) \/ UnlockLogin(a)
             \/ \E p \in Players : ReadLoginReq(a, p)
      PROVE  Bystander
  <2>1. /\ player' = player /\ robbed \subseteq robbed'
        /\ \A b \in Agents \ {a} :
             reader'[b] = reader[b] /\ target'[b] = target[b] /\ another'[b] = another[b]
    BY <1>3 DEF ReaderSeesStop, ReaderReads, ReaderForwards, StopsItself, ReaderFails, RejectToken,
                LockTimeout, ConnectFails, AbortLogin, LockLogin, StopAnother, ConnectPlayer,
                AssignSid, ForwardLogin, ForwardFails, UnlockLogin, ReadLoginReq, Goes, DelAgent
  <2>2. \/ /\ reader[a] \notin {"sid", "register", "remove"}
           /\ reader'[a] \in {"loop", "read", "lock", "kick", "unlock", "exited"}
        \/ /\ target' = target
           /\ \/ reader[a] = "stop" /\ reader'[a] = "connect"
              \/ reader[a] = "connect" /\ reader'[a] = "assign"
              \/ reader[a] = "sid" /\ reader'[a] = "register"
              \/ reader[a] = "forward" /\ reader'[a] = "abort"
    BY <1>3 DEF ReaderSeesStop, ReaderReads, ReaderForwards, StopsItself, ReaderFails, RejectToken,
                LockTimeout, ConnectFails, AbortLogin, LockLogin, StopAnother, ConnectPlayer,
                AssignSid, ForwardLogin, ForwardFails, UnlockLogin, ReadLoginReq, Goes
  <2>3. QED
    BY <2>1, <2>2 DEF Bystander
<1> HIDE DEF TypeInv
<1>4. QED
  BY <1>1, <1>2, <1>3
     DEF Next, vars, readerVars, StopsItself, StopBody, StopCloses, StopSetsReason,
         StopDisconnects, Reader, Login, LoginStep, Writer, WriterForwards, WriterFails,
         WriterEnds, Callback, FindAgent, Enqueue, ReceiveStopped, CallbackStops,
         CallbackCallsStop, GameDisconnects, LockExpiry

LEMMA CallNext == TypeInv /\ CallInv /\ [Next]_vars => CallInv'
<1> SUFFICES ASSUME TypeInv, CallInv, [Next]_vars PROVE CallInv'
  OBVIOUS
<1>1. \A a \in Agents : stopPc'[a] # "idle" => stopFlag'[a]
  <2> USE DEF TypeInv, TypeOK, CallInv
  <2>1. CASE UNCHANGED <<stopFlag, stopPc>>
    BY <2>1
  <2>2. ASSUME NEW a \in Agents, StopBody(a) PROVE \A b \in Agents : stopPc'[b] # "idle" => stopFlag'[b]
    BY <2>2 DEF StopBody, StopCloses, StopSetsReason, StopDeletes, StopDisconnects
  <2>3. ASSUME NEW k \in Agents, StopEffect(k) PROVE \A b \in Agents : stopPc'[b] # "idle" => stopFlag'[b]
    BY <2>3 DEF StopEffect
  <2>4. ASSUME NEW a \in Agents, StopAnother(a) PROVE \E k \in Agents : StopEffect(k)
    BY <2>4, ReaderStopped DEF StopAnother, Reasons
  <2>5. ASSUME NEW a \in Agents, NEW pc \in WriterPcs, WriterFails(a, pc) PROVE StopEffect(a)
    BY <2>5, StopCalled DEF WriterFails, WriterStops, Reasons
  <2> HIDE DEF TypeInv, CallInv
  <2>6. QED
    BY <2>1, <2>2, <2>3, <2>4, <2>5, StoppedItself, CallbackStopped
       DEF Next, vars, stopVars, StopsItself, TypeInv, Reader, Login, ReaderReads,
           ReaderSeesStop, ReadLoginReq, ReaderForwards, LockLogin, FindAnother, RemoveAnother,
           ConnectPlayer, AssignPlayer, AssignSid, AddAgent, ForwardLogin, ForwardFails,
           UnlockLogin, Writer, WriterForwards, WriterEnds, Callback, FindAgent, Enqueue,
           GameDisconnects, LockExpiry
<1>2. \A a \in Agents :
        reader'[a] \in {"sid", "register", "forward", "abort"} => player'[a] = target'[a]
  <2>1. CASE Bystander
    BY <2>1 DEF Bystander, CallInv
  <2>2. ASSUME NEW a \in Agents, LoginStep(a)
        PROVE  \A b \in Agents :
                 reader'[b] \in {"sid", "register", "forward", "abort"} => player'[b] = target'[b]
    BY <2>2 DEF LoginStep, FindAnother, RemoveAnother, AssignPlayer, AddAgent, Goes, CallInv,
                TypeInv, TypeOK
  <2>3. QED
    BY <2>1, <2>2, Bystanders
<1>3. QED
  BY <1>1, <1>2 DEF CallInv

LEMMA KickedNext == ServedInv /\ [Next]_vars => KickedInv'
<1> SUFFICES ASSUME ServedInv, [Next]_vars PROVE KickedInv'
  OBVIOUS
<1>1. \A b \in Agents : Doomed(b) => Doomed(b)'
  BY DoomedStays DEF ServedInv
<1> USE AgentAssumption DEF ServedInv, TypeInv, TypeOK, ReaderPcs, LockedPcs, KickPcs
<1>2. CASE Bystander
  BY <1>1, <1>2 DEF Bystander, KickedInv
<1>3. ASSUME NEW a \in Agents, FindAnother(a) PROVE KickedInv'
  <2>1. /\ UNCHANGED <<player, sid, target, robbed>> /\ reader[a] = "kick" /\ target[a] \in Players
        /\ another' = [another EXCEPT ![a] = registry[target[a]]]
        /\ reader' = [reader EXCEPT ![a] = IF registry[target[a]] = None THEN "connect" ELSE "remove"]
    BY <1>3 DEF FindAnother, Goes
  <2>2. ASSUME NEW b \in Agents, b # a, b \notin robbed, player[b] = target[a],
               reader[b] \notin {"sid", "register"}
        PROVE  Doomed(b) \/ registry[target[a]] = b
    BY <2>1, <2>2 DEF LiveIsRegistered, isConnected, Doomed
  <2>3. QED
    BY <1>1, <2>1, <2>2 DEF KickedInv
<1>4. ASSUME NEW a \in Agents, RemoveAnother(a) PROVE KickedInv'
  <2>1. /\ UNCHANGED <<player, target, another>> /\ robbed \subseteq robbed'
        /\ reader[a] = "remove" /\ reader' = [reader EXCEPT ![a] = "stop"]
    BY <1>4 DEF RemoveAnother, Goes, DelAgent
  <2>2. another[a] \in Agents /\ Doomed(another[a])'
    BY <2>1 DEF Doomed, BeingStopped
  <2>3. QED
    BY <1>1, <2>1, <2>2 DEF KickedInv
<1>5. ASSUME NEW a \in Agents, AssignPlayer(a) PROVE KickedInv'
  <2>1. /\ UNCHANGED <<target, another, robbed>> /\ reader[a] = "assign"
        /\ player' = [player EXCEPT ![a] = target[a]] /\ reader' = [reader EXCEPT ![a] = "sid"]
    BY <1>5 DEF AssignPlayer, Goes
  <2>2. QED
    BY <1>1, <2>1 DEF KickedInv
<1>6. ASSUME NEW a \in Agents, AddAgent(a) PROVE KickedInv'
  <2>1. /\ UNCHANGED <<player, target, another, robbed>> /\ player[a] = target[a] /\ Held(a)
        /\ reader' = [reader EXCEPT ![a] = "forward"]
    BY <1>6 DEF AddAgent, Goes, CallInv, Held
  <2>2. \A b \in Agents \ {a} : Held(b) => target[b] # target[a]
    BY <2>1 DEF LockInv, Held
  <2>3. QED
    BY <1>1, <2>1, <2>2 DEF KickedInv, Held
<1> HIDE DEF ServedInv
<1>7. QED
  BY <1>2, <1>3, <1>4, <1>5, <1>6, Bystanders DEF LoginStep, ServedInv

(* Every step but RemoveAnother, StopDeletes, ForwardFails and AddAgent    *)
(* leaves the registry as it is, and a login past AddAgent has its session.*)
LEMMA LiveNext == ServedInv /\ [Next]_vars => LiveIsRegistered'
<1> SUFFICES ASSUME ServedInv, [Next]_vars PROVE LiveIsRegistered'
  OBVIOUS
<1>1. \A b \in Agents : Doomed(b) => Doomed(b)'
  BY DoomedStays DEF ServedInv
<1> USE AgentAssumption DEF ServedInv, TypeInv, TypeOK, ReaderPcs, LockedPcs, isConnected
<1>2. ASSUME UNCHANGED <<player, registry, robbed>>,
             \A a \in Agents : sid'[a] # 0 => sid[a] # 0 \/ reader'[a] \in {"sid", "register"},
             \A a \in Agents : reader[a] \in {"sid", "register"} => reader'[a] \in {"sid", "register"}
      PROVE  LiveIsRegistered'
  BY <1>1, <1>2 DEF LiveIsRegistered, Doomed
<1>3. ASSUME NEW x \in Agents, player[x] # None, DelAgent(x), Doomed(x)',
             UNCHANGED <<player, sid>>,
             \A a \in Agents : reader[a] \in {"sid", "register"} => reader'[a] = reader[a]
      PROVE  LiveIsRegistered'
  <2>1. /\ robbed \subseteq robbed'
        /\ \A c \in Agents \ robbed', p \in Players : c # x /\ registry[p] = c => registry'[p] = c
    BY <1>3, EntriesTaken
  <2>2. QED
    BY <1>1, <1>3, <2>1 DEF LiveIsRegistered, Doomed
<1>4. ASSUME NEW a \in Agents, StopDeletes(a) PROVE LiveIsRegistered'
  <2>1. stopFlag[a] /\ player[a] # None
    BY <1>4 DEF StopDeletes, CallInv
  <2>2. QED
    BY <1>1, <1>3, <1>4, <2>1 DEF StopDeletes, readerVars, Doomed
<1>5. ASSUME NEW a \in Agents, RemoveAnother(a) PROVE LiveIsRegistered'
  <2>1. /\ another[a] \in Agents /\ player[another[a]] # None /\ DelAgent(another[a])
        /\ UNCHANGED <<player, sid, another>>
        /\ reader[a] = "remove" /\ reader' = [reader EXCEPT ![a] = "stop"]
    BY <1>5 DEF RemoveAnother, Goes
  <2>2. Doomed(another[a])'
    BY <2>1 DEF Doomed, BeingStopped
  <2>3. QED
    BY <1>3, <2>1, <2>2
<1>6. ASSUME NEW a \in Agents, ForwardFails(a) PROVE LiveIsRegistered'
  <2>1. /\ player[a] # None /\ DelAgent(a) /\ UNCHANGED <<player, sid>>
        /\ reader[a] = "forward" /\ reader' = [reader EXCEPT ![a] = "abort"]
    BY <1>6 DEF ForwardFails, Goes
  <2>2. Doomed(a)'
    BY <2>1 DEF Doomed, BeingStopped
  <2>3. QED
    BY <1>3, <2>1, <2>2
<1>7. ASSUME NEW a \in Agents, AssignPlayer(a) PROVE LiveIsRegistered'
  <2>1. /\ UNCHANGED <<sid, registry, robbed>> /\ reader[a] = "assign"
        /\ player' = [player EXCEPT ![a] = target[a]] /\ reader' = [reader EXCEPT ![a] = "sid"]
    BY <1>7 DEF AssignPlayer, Goes
  <2>2. QED
    BY <1>1, <2>1 DEF LiveIsRegistered, Doomed
<1>8. ASSUME NEW a \in Agents, AssignSid(a) PROVE LiveIsRegistered'
  <2>1. /\ UNCHANGED <<player, registry, robbed>> /\ reader[a] = "sid"
        /\ sid' = [sid EXCEPT ![a] = newSid[a]] /\ reader' = [reader EXCEPT ![a] = "register"]
    BY <1>8 DEF AssignSid, Goes
  <2>2. QED
    BY <1>2, <2>1
<1>9. ASSUME NEW a \in Agents, AddAgent(a) PROVE LiveIsRegistered'
  <2>1. /\ UNCHANGED <<player, sid, robbed>> /\ player[a] = target[a]
        /\ reader' = [reader EXCEPT ![a] = "forward"] /\ reader[a] = "register"
        /\ registry' = [registry EXCEPT ![player[a]] = a] /\ player[a] \in Players
    BY <1>9 DEF AddAgent, Goes, CallInv
  <2>2. \A b \in Agents : reader[b] \in {"sid", "register"} /\ b # a => player[b] # player[a]
    BY <2>1 DEF CallInv, LockInv, Held
  <2>3. \A b \in Agents \ robbed :
          b # a /\ player[b] = player[a] /\ reader[b] \notin {"sid", "register"} => Doomed(b)
    BY <2>1 DEF KickedInv, KickPcs
  <2>4. QED
    BY <1>1, <2>1, <2>2, <2>3 DEF LiveIsRegistered, Doomed
<1>10. ASSUME NEW a \in Agents,
              \/ ReaderSeesStop(a) \/ ReaderReads(a) \/ ReaderForwards(a) \/ StopsItself(a)
              \/ LockLogin(a) \/ FindAnother(a) \/ StopAnother(a) \/ ConnectPlayer(a)
              \/ ForwardLogin(a) \/ UnlockLogin(a) \/ \E p \in Players : ReadLoginReq(a, p)
       PROVE  LiveIsRegistered'
  <2>1. /\ UNCHANGED <<player, sid, registry, robbed>> /\ reader[a] \notin {"sid", "register"}
        /\ \A b \in Agents \ {a} : reader'[b] = reader[b]
    BY <1>10 DEF ReaderSeesStop, ReaderReads, ReaderForwards, StopsItself, ReaderFails, RejectToken,
                 LockTimeout, ConnectFails, AbortLogin, LockLogin, FindAnother, StopAnother,
                 ConnectPlayer, ForwardLogin, UnlockLogin, ReadLoginReq, Goes
  <2>2. QED
    BY <1>2, <2>1
<1>11. CASE UNCHANGED <<reader, player, sid, registry, robbed>>
  BY <1>2, <1>11
<1> HIDE DEF ServedInv
<1>12. QED
  BY <1>4, <1>5, <1>6, <1>7, <1>8, <1>9, <1>10, <1>11
     DEF Next, vars, readerVars, StopsItself, StopBody, StopCloses, StopSetsReason,
         StopDisconnects, Reader, Login, Writer, WriterForwards, WriterFails, WriterEnds, Callback,
         FindAgent, Enqueue, ReceiveStopped, CallbackStops, CallbackCallsStop, GameDisconnects,
         LockExpiry

(* A logged-in agent nobody has stopped or is about to stop is the         *)
(* registered one, unless the stop of another agent took its entry,        *)
(* however often clients log in on their connections (LiveIsRegistered).   *)
THEOREM LiveAgentsRegistered == ~LockExpires /\ Spec => []LiveIsRegistered
<1>1. Init => ServedInv
  BY LoginInit, AgentAssumption
     DEF Init, LoginInv, ServedInv, CallInv, KickedInv, KickPcs, LiveIsRegistered, isConnected
<1>2. CASE ~LockExpires
  <2>1. ServedInv /\ [Next]_vars => ServedInv'
    BY <1>2, TypeNext, LockNext, CallNext, KickedNext, LiveNext DEF ServedInv
  <2>2. ServedInv => LiveIsRegistered
    BY DEF ServedInv
  <2>3. QED
    BY <1>1, <2>1, <2>2, PTL DEF Spec
<1>3. CASE LockExpires
  BY <1>3, PTL
<1>4. QED
  BY <1>2, <1>3

-----------------------------------------------------------------------------
(* What a stop leaves behind *)

(* Past the deletion a stopping agent has no entry, and a session that is  *)
(* not lost belongs to an agent whose stop has not got past it.            *)
GoneInv ==
  /\ \A a \in Agents, p \in Players :
       stopPc[a] \in {"disconnect", "done"} => registry[p] # a
  /\ \A p \in Players : session[p] \notin lost \cup {0} =>
       \E a \in Agents : Owns(a, p, session[p]) /\ stopPc[a] # "done"

LEMMA GoneNext == SessionInv /\ GoneInv /\ [Next]_vars => GoneInv'
<1> SUFFICES ASSUME SessionInv, GoneInv, [Next]_vars PROVE GoneInv'
  OBVIOUS
<1> USE AgentAssumption DEF SessionInv, TypeInv, TypeOK, LockedPcs, ReaderPcs, StopPcs
<1>1. ASSUME \A p \in Players : registry'[p] \in {registry[p], None},
             \A p \in Players : session'[p] \in {session[p], 0} \cup lost',
             lost \subseteq lost',
             \A a \in Agents : /\ stopPc'[a] \in {"disconnect", "done"} => stopPc'[a] = stopPc[a]
                               /\ player'[a] = player[a] /\ sid'[a] = sid[a]
                               /\ newSid'[a] = newSid[a] /\ target'[a] = target[a]
                               /\ reader[a] \in {"assign", "sid"} => reader'[a] = reader[a]
      PROVE  GoneInv'
  <2>1. \A a \in Agents, p \in Players, s \in Nat : Owns(a, p, s) => Owns(a, p, s)'
    BY <1>1 DEF Owns
  <2>2. ASSUME NEW p \in Players, session'[p] \notin lost' \cup {0}
        PROVE  \E b \in Agents : Owns(b, p, session[p])' /\ stopPc'[b] # "done"
    <3>1. session'[p] = session[p] /\ session[p] \in Nat /\ session[p] \notin lost \cup {0}
      BY <1>1, <2>2
    <3>2. PICK b \in Agents : Owns(b, p, session[p]) /\ stopPc[b] # "done"
      BY <3>1 DEF GoneInv
    <3>3. Owns(b, p, session[p])'
      BY <2>1, <3>1, <3>2 DEF Owns
    <3>4. QED
      BY <1>1, <3>2, <3>3
  <2>3. \A a \in Agents, p \in Players : stopPc'[a] \in {"disconnect", "done"} => registry'[p] # a
    BY <1>1 DEF GoneInv
  <2>4. QED
    BY <2>2, <2>3 DEF GoneInv
<1>2. CASE UNCHANGED <<registry, session, lost, stopPc, player, sid, newSid, target, reader>>
  BY <1>1, <1>2
<1>3. ASSUME NEW a \in Agents, StopSetsReason(a) PROVE GoneInv'
  <2>1. /\ UNCHANGED <<registry, session, lost, player, sid, newSid, target, reader>>
        /\ stopPc[a] = "reason" /\ stopFlag[a]
        /\ stopPc' = [stopPc EXCEPT ![a] = IF isConnected(a) THEN "delete" ELSE "done"]
    BY <1>3 DEF StopSetsReason, QuietInv, readerVars, gameVars
  <2>2. CASE isConnected(a)
    BY <1>1, <2>1, <2>2
  <2>3. CASE ~isConnected(a)
    <3>1. player[a] = None
      BY <2>1, <2>3 DEF isConnected, QuietInv, QuietPcs
    <3>2. \A p \in Players, s \in Nat \ {0} : ~Owns(a, p, s)
      BY <2>1, <3>1 DEF Owns, QuietInv, QuietPcs
    <3>3. \A p \in Players : registry[p] # a
      BY <3>1
    <3>4. \A b \in Agents, p \in Players, s \in Nat : Owns(b, p, s) => Owns(b, p, s)'
      BY <2>1 DEF Owns
    <3>5. \A p \in Players : session[p] \in Nat
      OBVIOUS
    <3>6. ASSUME NEW p \in Players, session'[p] \notin lost' \cup {0}
          PROVE  \E b \in Agents : Owns(b, p, session[p])' /\ stopPc'[b] # "done"
      <4>1. PICK b \in Agents : Owns(b, p, session[p]) /\ stopPc[b] # "done"
        BY <2>1, <3>6 DEF GoneInv
      <4>2. b # a
        BY <2>1, <3>2, <3>5, <3>6, <4>1
      <4>3. QED
        BY <2>1, <3>4, <3>5, <4>1, <4>2 DEF Owns
    <3>7. QED
      BY <2>1, <2>3, <3>3, <3>6 DEF GoneInv
  <2>4. QED
    BY <2>2, <2>3
<1>4. ASSUME NEW a \in Agents, StopDeletes(a) PROVE GoneInv'
  <2>1. /\ UNCHANGED <<player, sid, newSid, target, reader, session, lost>>
        /\ stopPc[a] = "delete" /\ stopPc' = [stopPc EXCEPT ![a] = "disconnect"]
        /\ player[a] \in Players /\ registry' = [registry EXCEPT ![player[a]] = None]
    BY <1>4 DEF StopDeletes, DelAgent, readerVars, gameVars
  <2>2. \A p \in Players : registry'[p] # a /\ registry'[p] \in {registry[p], None}
    BY <2>1 DEF OnceInv
  <2>3. QED
    BY <2>1, <2>2 DEF GoneInv, Owns
<1>5. ASSUME NEW a \in Agents, StopDisconnects(a) PROVE GoneInv'
  <2>1. /\ UNCHANGED <<registry, player, sid, newSid, target, reader>> /\ lost \subseteq lost'
        /\ stopPc[a] = "disconnect" /\ stopPc' = [stopPc EXCEPT ![a] = "done"] /\ stopFlag[a]
        /\ \A p \in Players : session'[p] \in {session[p], 0}
    BY <1>5 DEF StopDisconnects, QuietInv, readerVars
  <2>2. player[a] \in Players /\ session[player[a]] = sid[a] => session'[player[a]] \in lost' \cup {0}
    BY <1>5 DEF StopDisconnects
  <2>3. ASSUME NEW p \in Players, session'[p] \notin lost' \cup {0}
        PROVE  \E b \in Agents : Owns(b, p, session[p])' /\ stopPc'[b] # "done"
    <3>1. PICK b \in Agents : Owns(b, p, session[p]) /\ stopPc[b] # "done"
      BY <2>1, <2>3 DEF GoneInv
    <3>2. b # a
      BY <2>1, <2>2, <2>3, <3>1 DEF Owns, QuietInv, QuietPcs
    <3>3. session'[p] = session[p]
      BY <2>1, <2>3
    <3>4. Owns(b, p, session[p])'
      BY <2>1, <3>1, <3>3 DEF Owns
    <3>5. QED
      BY <2>1, <3>1, <3>2, <3>4
  <2>4. QED
    BY <2>1, <2>3 DEF GoneInv
<1>6. ASSUME NEW a \in Agents, ConnectPlayer(a) PROVE GoneInv'
  <2>1. /\ UNCHANGED <<registry, stopPc, player, sid, target, lost>> /\ target[a] \in Players
        /\ reader[a] = "connect" /\ reader' = [reader EXCEPT ![a] = "assign"]
        /\ session' = [session EXCEPT ![target[a]] = nextSid]
        /\ newSid' = [newSid EXCEPT ![a] = nextSid] /\ stopPc[a] = "idle"
    BY <1>6 DEF ConnectPlayer, SessionOpens, Goes, QuietInv, QuietPcs, stopVars
  <2>2. ASSUME NEW p \in Players, p = target[a]
        PROVE  Owns(a, p, session[p])'
    BY <2>1, <2>2 DEF Owns
  <2>3. \A b \in Agents, p \in Players, s \in Nat : Owns(b, p, s) => Owns(b, p, s)'
    BY <2>1 DEF Owns
  <2>4. \A p \in Players \ {target[a]} : session'[p] = session[p] /\ session[p] \in Nat
    BY <2>1
  <2>5. ASSUME NEW p \in Players, p # target[a], session'[p] \notin lost' \cup {0}
        PROVE  \E b \in Agents : Owns(b, p, session[p])' /\ stopPc'[b] # "done"
    <3>1. PICK b \in Agents : Owns(b, p, session[p]) /\ stopPc[b] # "done"
      BY <2>1, <2>4, <2>5 DEF GoneInv
    <3>2. session'[p] = session[p] /\ session[p] \in Nat
      BY <2>4, <2>5
    <3>3. Owns(b, p, session[p])'
      BY <2>1, <2>3, <3>1, <3>2 DEF Owns
    <3>4. QED
      BY <2>1, <3>1, <3>3
  <2>6. \A b \in Agents, p \in Players : stopPc'[b] \in {"disconnect", "done"} => registry'[p] # b
    BY <2>1 DEF GoneInv
  <2>7. stopPc'[a] # "done"
    BY <2>1
  <2>8. ASSUME NEW p \in Players, session'[p] \notin lost' \cup {0}
        PROVE  \E b \in Agents : Owns(b, p, session[p])' /\ stopPc'[b] # "done"
    BY <2>2, <2>5, <2>7, <2>8
  <2>9. QED
    BY <2>6, <2>8 DEF GoneInv
<1>7. ASSUME NEW a \in Agents, AssignPlayer(a) PROVE GoneInv'
  <2>1. /\ UNCHANGED <<registry, stopPc, sid, target, newSid, session, lost>>
        /\ reader[a] = "assign" /\ reader' = [reader EXCEPT ![a] = "sid"]
        /\ player' = [player EXCEPT ![a] = target[a]] /\ player[a] = None
    BY <1>7 DEF AssignPlayer, Goes, OnceInv, stopVars, gameVars
  <2>2. \A b \in Agents, p \in Players, s \in Nat : Owns(b, p, s) => Owns(b, p, s)'
    BY <2>1 DEF Owns
  <2>3. QED
    BY <2>1, <2>2 DEF GoneInv, Owns
<1>8. ASSUME NEW a \in Agents, AssignSid(a) PROVE GoneInv'
  <2>1. /\ UNCHANGED <<registry, stopPc, player, target, session, lost>>
        /\ reader[a] = "sid" /\ reader' = [reader EXCEPT ![a] = "register"]
        /\ sid' = [sid EXCEPT ![a] = newSid[a]] /\ newSid' = [newSid EXCEPT ![a] = 0]
        /\ sid[a] = 0 /\ player[a] = target[a]
    BY <1>8 DEF AssignSid, Goes, OnceInv, stopVars, gameVars
  <2>2. \A b \in Agents, p \in Players, s \in Nat \ {0} : Owns(b, p, s) => Owns(b, p, s)'
    BY <2>1 DEF Owns
  <2>3. ASSUME NEW p \in Players, session'[p] \notin lost' \cup {0}
        PROVE  \E b \in Agents : Owns(b, p, session[p])' /\ stopPc'[b] # "done"
    <3>1. PICK b \in Agents : Owns(b, p, session[p]) /\ stopPc[b] # "done"
      BY <2>1, <2>3 DEF GoneInv
    <3>2. session[p] \in Nat \ {0}
      BY <2>1, <2>3
    <3>3. QED
      BY <2>1, <2>2, <3>1, <3>2 DEF Owns
  <2>4. QED
    BY <2>1, <2>3 DEF GoneInv, Owns
<1>9. ASSUME NEW a \in Agents, AddAgent(a) PROVE GoneInv'
  <2>1. /\ UNCHANGED <<stopPc, player, sid, newSid, target, session, lost>>
        /\ reader[a] = "register" /\ reader' = [reader EXCEPT ![a] = "forward"]
        /\ registry' = [registry EXCEPT ![player[a]] = a] /\ stopPc[a] = "idle"
    BY <1>9 DEF AddAgent, Goes, QuietInv, QuietPcs, stopVars, gameVars
  <2>2. QED
    BY <2>1 DEF GoneInv, Owns
<1>10. ASSUME NEW k \in Agents, StopEffect(k), UNCHANGED <<registry, player, sid, newSid, target>>,
              \A a \in Agents : reader[a] \in {"assign", "sid"} => reader'[a] = reader[a],
              \A p \in Players : session'[p] \in {session[p], 0} \cup lost',
              lost \subseteq lost'
       PROVE  GoneInv'
  BY <1>1, <1>10 DEF StopEffect
<1>11. ASSUME NEW a \in Agents, StopsItself(a) PROVE GoneInv'
  <2>1. StopEffect(a)
    BY <1>11, StoppedItself
  <2>2. /\ UNCHANGED <<registry, player, sid, newSid, target>> /\ reader[a] \notin {"assign", "sid"}
        /\ \A b \in Agents \ {a} : reader'[b] = reader[b]
    BY <1>11 DEF StopsItself, ReaderFails, RejectToken, LockTimeout, ConnectFails, AbortLogin, Goes
  <2>3. /\ \A p \in Players : session'[p] \in {session[p], 0} \cup lost'
        /\ lost \subseteq lost'
    <3>1. CASE UNCHANGED gameVars
      BY <3>1 DEF gameVars
    <3>2. CASE SessionOpens(a) /\ lost' = lost \cup {nextSid}
      BY <3>2 DEF SessionOpens
    <3>3. QED
      BY <1>11, <3>1, <3>2
         DEF StopsItself, ReaderFails, RejectToken, LockTimeout, ConnectFails, AbortLogin
  <2>4. QED
    BY <1>10, <2>1, <2>2, <2>3
<1>12. ASSUME NEW a \in Agents, StopAnother(a) PROVE GoneInv'
  <2>1. another[a] \in Agents /\ ReaderStops(a, another[a], "AnotherLogin")
    BY <1>12 DEF StopAnother
  <2>2. StopEffect(another[a])
    BY <2>1, ReaderStopped DEF Reasons
  <2>3. /\ UNCHANGED <<registry, player, sid, newSid, target, session, lost>>
        /\ reader[a] = "stop" /\ reader' = [reader EXCEPT ![a] = "connect"]
    BY <1>12 DEF StopAnother, Goes, gameVars
  <2>4. QED
    BY <1>10, <2>1, <2>2, <2>3
<1>13. ASSUME NEW a \in Agents, NEW pc \in WriterPcs, WriterFails(a, pc) PROVE GoneInv'
  <2>1. CallStop(a, "SystemError") /\ UNCHANGED <<readerVars, registry, gameVars>>
    BY <1>13 DEF WriterFails, WriterStops
  <2>2. StopEffect(a)
    BY <2>1, StopCalled DEF Reasons
  <2>3. QED
    BY <1>10, <2>1, <2>2 DEF readerVars, gameVars
<1>14. ASSUME NEW c \in Callbacks, ReceiveStopped(c) \/ CallbackStops(c) PROVE GoneInv'
  BY <1>10, <1>14, CallbackStopped DEF readerVars, gameVars
<1>15. ASSUME NEW a \in Agents,
              \/ ReaderSeesStop(a) \/ ReaderReads(a) \/ ReaderForwards(a) \/ LockLogin(a)
              \/ FindAnother(a) \/ RemoveAnother(a) \/ ForwardLogin(a) \/ ForwardFails(a)
              \/ UnlockLogin(a)
       PROVE  GoneInv'
  <2>1. /\ UNCHANGED <<stopPc, player, sid, newSid, target, session, lost>>
        /\ reader[a] \notin {"assign", "sid"}
        /\ \A b \in Agents \ {a} : reader'[b] = reader[b]
        /\ \A p \in Players : registry'[p] \in {registry[p], None}
    BY <1>15 DEF ReaderSeesStop, ReaderReads, ReaderForwards, LockLogin, FindAnother, RemoveAnother,
                 ForwardLogin, ForwardFails, UnlockLogin, Goes, DelAgent, stopVars, gameVars
  <2>2. QED
    BY <1>1, <2>1
<1>16. ASSUME NEW a \in Agents, NEW q \in Players, ReadLoginReq(a, q) PROVE GoneInv'
  <2>1. /\ UNCHANGED <<stopPc, player, sid, newSid, registry, session, lost>> /\ reader[a] = "read"
        /\ reader' = [reader EXCEPT ![a] = "lock"] /\ target' = [target EXCEPT ![a] = q]
    BY <1>16 DEF ReadLoginReq, Goes, stopVars, gameVars
  <2>2. \A b \in Agents, p \in Players, s \in Nat : Owns(b, p, s) => Owns(b, p, s)'
    BY <2>1 DEF Owns
  <2>3. QED
    BY <2>1, <2>2 DEF GoneInv, Owns
<1>17. ASSUME NEW p \in Players, GameDisconnects(p) PROVE GoneInv'
  BY <1>1, <1>17 DEF GameDisconnects, stopVars, readerVars
<1>18. ASSUME NEW a \in Agents, StopCloses(a) PROVE GoneInv'
  BY <1>1, <1>18 DEF StopCloses, readerVars, gameVars
<1> HIDE DEF SessionInv
<1>19. QED
  BY <1>2, <1>3, <1>4, <1>5, <1>6, <1>7, <1>8, <1>9, <1>11, <1>12, <1>13, <1>14, <1>15, <1>16,
     <1>17, <1>18
     DEF Next, vars, stopVars, readerVars, gameVars, StopsItself, StopBody, Reader, Login, Writer,
         WriterForwards, WriterEnds, Callback, FindAgent, Enqueue, LockExpiry

(* When its loops and its stop have ended, an agent is not registered, and *)
(* whatever session the game server holds belongs to an agent that has not *)
(* ended, but for those whose end it could not be told, whether or not a   *)
(* lock expired under a login (StoppedLeavesNothing).                      *)
THEOREM StopsLeaveNothing == ~Relogin /\ Spec => []StoppedLeavesNothing
<1>1. Init => GoneInv
  BY AgentAssumption DEF Init, GoneInv
<1>2. SessionInv /\ GoneInv => StoppedLeavesNothing
  BY AgentAssumption DEF GoneInv, StoppedLeavesNothing, FullyStopped, SessionInv, TypeInv, TypeOK
<1>3. CASE ~Relogin
  <2>1. SessionInv /\ [Next]_vars => SessionInv'
    BY <1>3, SessionNext
  <2>2. QED
    BY <1>1, <1>2, <2>1, GoneNext, SessionInit, PTL DEF Spec
<1>4. CASE Relogin
  BY <1>4, PTL
<1>5. QED
  BY <1>3, <1>4

=============================================================================
