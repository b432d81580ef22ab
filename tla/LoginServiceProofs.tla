------------------------- MODULE LoginServiceProofs -------------------------
(***************************************************************************)
(* Proofs about LoginService, for every set of requests, users and servers *)
(* and for every limit, expiry and latency.                                *)
(***************************************************************************)
EXTENDS LoginService, FiniteSetTheorems, TLAPS

(* A request has an account id from the moment it has asked for one, and a *)
(* character id when it inserts: both are counters after an increment.     *)
HasIds ==
  \A r \in Requests :
    /\ pc[r] \in {"upsert", "lock"} \cup Locked => account[r] > 0
    /\ pc[r] \in {"insert", "setServer"} => character[r] > 0

TypeInv == TypeOK /\ HasIds

LEMMA TypeInit == Init => TypeInv
<1> SUFFICES ASSUME Init PROVE TypeInv
  OBVIOUS
<1>1. TypeOK
  BY LoginAssumption DEF Init, TypeOK, Unlocked
<1>2. HasIds
  BY DEF Init, HasIds, Locked
<1>3. QED
  BY <1>1, <1>2 DEF TypeInv

LEMMA TypeAuthenticate ==
    ASSUME TypeInv, NEW r \in Requests, Authenticate(r)
    PROVE  TypeInv'
<1> USE DEF TypeInv, TypeOK, HasIds, Unlocked, Locked, Goto, auth, stored
<1>1. CASE FindAccount(r)
  BY <1>1 DEF FindAccount
<1>2. CASE GenAccountID(r)
  BY <1>2 DEF GenAccountID
<1>3. CASE CreateOrGetAccount(r)
  BY <1>3 DEF CreateOrGetAccount
<1>4. QED
  BY <1>1, <1>2, <1>3 DEF Authenticate

LEMMA TypeCreate ==
    ASSUME TypeInv, NEW r \in Requests, Create(r)
    PROVE  TypeInv'
<1> USE LoginAssumption DEF TypeInv, TypeOK, HasIds, Unlocked, Locked, Goto, Issue, auth, stored
<1>1. CASE LockAccount(r)
  BY <1>1 DEF LockAccount
<1>2. CASE CountAccount(r)
  BY <1>2 DEF CountAccount
<1>3. CASE CountServer(r)
  <2>1. CASE RoomOnServer(r)
    <3>1. /\ pc' = [pc EXCEPT ![r] = "refresh"] /\ left' \in [Requests -> 0 .. Latency]
          /\ UNCHANGED <<body, account, character, ttl, created, auth, stored, characterSeq>>
      BY <1>3, <2>1 DEF CountServer
    <3>2. pc' \in [Requests -> Unlocked \cup Locked] /\ account[r] > 0
      BY <1>3, <3>1 DEF CountServer
    <3>3. HasIds'
      BY <3>1, <3>2
    <3>4. TypeOK'
      BY <3>1, <3>2
    <3>5. QED
      BY <3>3, <3>4
  <2>2. CASE ~RoomOnServer(r)
    BY <1>3, <2>2 DEF CountServer
  <2>3. QED
    BY <2>1, <2>2
<1>4. CASE Refresh(r)
  BY <1>4 DEF Refresh
<1>5. CASE RefreshAnswered(r)
  BY <1>5 DEF RefreshAnswered
<1>6. CASE GenCharacterID(r)
  BY <1>6 DEF GenCharacterID
<1>7. CASE InsertCharacter(r)
  BY <1>7 DEF InsertCharacter
<1>8. CASE SetActorServer(r)
  BY <1>8 DEF SetActorServer
<1>9. CASE Unlock(r)
  BY <1>9 DEF Unlock
<1>10. QED
  BY <1>1, <1>2, <1>3, <1>4, <1>5, <1>6, <1>7, <1>8, <1>9 DEF Create

LEMMA TypeNext == TypeInv /\ [Next]_vars => TypeInv'
<1> SUFFICES ASSUME TypeInv, [Next]_vars PROVE TypeInv'
  OBVIOUS
<1>1. CASE Tick
  <2>1. /\ left' \in [Requests -> 0 .. Latency] /\ ttl' \in [Requests -> 0 .. Expiry]
        /\ UNCHANGED <<pc, body, account, character, created, accounts, accountSeq,
                       characters, characterSeq, routes, late>>
    BY <1>1, LoginAssumption DEF Tick, Less, TypeInv, TypeOK, auth, stored
  <2>2. QED
    BY <2>1 DEF TypeInv, TypeOK, HasIds
<1>2. ASSUME NEW r \in Requests, Fails(r) PROVE TypeInv'
  BY <1>2 DEF Fails, Goto, TypeInv, TypeOK, HasIds, Unlocked, Locked, auth, stored
<1>3. CASE UNCHANGED vars
  BY <1>3 DEF vars, TypeInv, TypeOK, HasIds
<1>4. QED
  BY <1>1, <1>2, <1>3, TypeAuthenticate, TypeCreate DEF Next

LEMMA TypeInvariant == Spec => []TypeInv
<1>1. QED
  BY TypeInit, TypeNext, PTL DEF Spec

(* Every variable keeps its type, ids are never 0 in the collections, and  *)
(* a lock never outlives its expiry (createCharacter, GenID).              *)
THEOREM LoginTypeCorrect == Spec => []TypeOK
<1>1. TypeInv => TypeOK
  BY DEF TypeInv
<1>2. QED
  BY <1>1, TypeInvariant, PTL

-----------------------------------------------------------------------------
(* One account per user *)

(* A request that has passed Auth acts for the account stored for its user:*)
(* an account document is written once and never replaced.                 *)
AccountInv ==
  \A r \in Requests :
    pc[r] \in Locked \cup {"lock"} => account[r] = accounts[body[r].user]

LEMMA AccountNext == TypeInv /\ AccountInv /\ [Next]_vars => AccountInv'
<1> SUFFICES ASSUME TypeInv, AccountInv, [Next]_vars PROVE AccountInv'
  OBVIOUS
<1> USE DEF TypeInv, TypeOK, HasIds, AccountInv, Locked, Goto, auth, stored
<1>1. ASSUME NEW r \in Requests, Authenticate(r) PROVE AccountInv'
  <2>1. CASE FindAccount(r)
    BY <2>1 DEF FindAccount
  <2>2. CASE GenAccountID(r)
    BY <2>2 DEF GenAccountID
  <2>3. CASE CreateOrGetAccount(r)
    BY <2>3 DEF CreateOrGetAccount
  <2>4. QED
    BY <1>1, <2>1, <2>2, <2>3 DEF Authenticate
<1>2. ASSUME NEW r \in Requests, Create(r) PROVE AccountInv'
  <2>1. UNCHANGED <<body, account, accounts>>
    BY <1>2 DEF Create, LockAccount, CountAccount, CountServer, Refresh, RefreshAnswered,
                GenCharacterID, InsertCharacter, SetActorServer, Unlock
  <2>2. \A q \in Requests : pc'[q] \in Locked \cup {"lock"} => pc[q] \in Locked \cup {"lock"}
    BY <1>2 DEF Create, LockAccount, CountAccount, CountServer, Refresh, RefreshAnswered,
                GenCharacterID, InsertCharacter, SetActorServer, Unlock, Issue
  <2>3. QED
    BY <2>1, <2>2
<1>3. ASSUME NEW r \in Requests, Fails(r) PROVE AccountInv'
  BY <1>3 DEF Fails
<1>4. CASE Tick \/ UNCHANGED vars
  BY <1>4 DEF Tick, vars
<1>5. QED
  BY <1>1, <1>2, <1>3, <1>4 DEF Next

(* Concurrent first requests of one user act for one account, whatever     *)
(* order FindAccount, GenAccountID and CreateOrGetAccount take.            *)
THEOREM AccountsAreShared == Spec => []OneAccountPerUser
<1>1. Init => AccountInv
  BY DEF Init, AccountInv, Locked
<1>2. AccountInv => OneAccountPerUser
  BY DEF AccountInv, OneAccountPerUser
<1>3. QED
  BY <1>1, <1>2, TypeInvariant, AccountNext, PTL DEF Spec

-----------------------------------------------------------------------------
(* The limits *)

(* Only a request that has asked for the lock holds it. *)
UnaskedUnheld ==
  \A r \in Requests :
    pc[r] \in {"auth", "genAccount", "upsert", "lock"} => ttl[r] = 0

(* The lock of an account is held by one request at a time. *)
OneHolder ==
  \A q, r \in Requests :
    ttl[q] > 0 /\ ttl[r] > 0 /\ account[q] = account[r] => q = r

(* The characters inserted in time, by which the limits are measured.      *)
InTime(a)            == OfAccount(a) \ late
InTimeOnServer(a, s) == OfServer(a, s) \ late

(* While a request holds the lock, what it counted is still true of the    *)
(* characters inserted in time, up to its insertion: only late ones, of    *)
(* requests that lost the lock, may have come in between.                  *)
CountsHold ==
  \A r \in Requests : ttl[r] > 0 =>
    /\ pc[r] \in {"countServer"} \cup Timed =>
         Cardinality(InTime(account[r])) < MaxPerAccount
    /\ pc[r] \in Timed =>
         Cardinality(InTimeOnServer(account[r], body[r].server)) < MaxPerServer

(* LimitUnderLock, of every account and server there may be.               *)
WithinLimits ==
  \A a, s : /\ Cardinality(InTime(a)) <= MaxPerAccount
            /\ Cardinality(InTimeOnServer(a, s)) <= MaxPerServer

LimitInv ==
  UnaskedUnheld /\ OneHolder /\ CountsHold /\ IsFiniteSet(characters) /\ WithinLimits

(* The counts of characters in time are numbers, and no larger than what   *)
(* the requests count.                                                     *)
LEMMA InTimeCounts ==
    ASSUME IsFiniteSet(characters), NEW a, NEW s
    PROVE  /\ IsFiniteSet(InTime(a)) /\ IsFiniteSet(InTimeOnServer(a, s))
           /\ Cardinality(InTime(a)) \in Nat /\ Cardinality(InTimeOnServer(a, s)) \in Nat
           /\ Cardinality(OfAccount(a)) \in Nat /\ Cardinality(OfServer(a, s)) \in Nat
           /\ Cardinality(InTime(a)) <= Cardinality(OfAccount(a))
           /\ Cardinality(InTimeOnServer(a, s)) <= Cardinality(OfServer(a, s))
<1>1. IsFiniteSet(OfAccount(a)) /\ IsFiniteSet(OfServer(a, s))
  BY FS_Subset DEF OfAccount, OfServer
<1>2. InTime(a) \subseteq OfAccount(a) /\ InTimeOnServer(a, s) \subseteq OfServer(a, s)
  BY DEF InTime, InTimeOnServer
<1>3. QED
  BY <1>1, <1>2, FS_Subset, FS_CardinalityType

(* One more document in time raises a count by at most one, and only the   *)
(* counts it belongs to.                                                   *)
LEMMA InsertCounts ==
    ASSUME IsFiniteSet(characters), NEW c, characters' = characters \cup {c}, late' = late,
           NEW a, NEW s
    PROVE  /\ IsFiniteSet(characters')
           /\ Cardinality(InTime(a)') \in Nat /\ Cardinality(InTimeOnServer(a, s)') \in Nat
           /\ Cardinality(InTime(a)') <= Cardinality(InTime(a)) + 1
           /\ Cardinality(InTimeOnServer(a, s)') <= Cardinality(InTimeOnServer(a, s)) + 1
           /\ c.account # a => InTime(a)' = InTime(a) /\ InTimeOnServer(a, s)' = InTimeOnServer(a, s)
           /\ c.server # s => InTimeOnServer(a, s)' = InTimeOnServer(a, s)
<1>1. IsFiniteSet(InTime(a)) /\ IsFiniteSet(InTimeOnServer(a, s))
  BY InTimeCounts
<1>2. InTime(a)' \in {InTime(a), InTime(a) \cup {c}}
  BY DEF InTime, OfAccount
<1>3. InTimeOnServer(a, s)' \in {InTimeOnServer(a, s), InTimeOnServer(a, s) \cup {c}}
  BY DEF InTimeOnServer, OfServer
<1>4. \A S : IsFiniteSet(S) =>
        /\ Cardinality(S) \in Nat /\ Cardinality(S \cup {c}) \in Nat
        /\ Cardinality(S \cup {c}) <= Cardinality(S) + 1
  <2> SUFFICES ASSUME NEW S, IsFiniteSet(S)
               PROVE  /\ Cardinality(S) \in Nat /\ Cardinality(S \cup {c}) \in Nat
                      /\ Cardinality(S \cup {c}) <= Cardinality(S) + 1
    OBVIOUS
  <2>1. Cardinality(S) \in Nat
    BY FS_CardinalityType
  <2>2. Cardinality(S \cup {c}) \in {Cardinality(S), Cardinality(S) + 1}
    BY FS_AddElement
  <2>3. QED
    BY <2>1, <2>2
<1>5. IsFiniteSet(characters')
  BY FS_AddElement
<1>6. c.account # a => InTime(a)' = InTime(a) /\ InTimeOnServer(a, s)' = InTimeOnServer(a, s)
  BY DEF InTime, InTimeOnServer, OfAccount, OfServer
<1>7. c.server # s => InTimeOnServer(a, s)' = InTimeOnServer(a, s)
  BY DEF InTimeOnServer, OfServer
<1>8. /\ Cardinality(InTime(a)) \in Nat /\ Cardinality(InTime(a) \cup {c}) \in Nat
      /\ Cardinality(InTime(a) \cup {c}) <= Cardinality(InTime(a)) + 1
  BY <1>1, <1>4
<1>9. /\ Cardinality(InTimeOnServer(a, s)) \in Nat
      /\ Cardinality(InTimeOnServer(a, s) \cup {c}) \in Nat
      /\ Cardinality(InTimeOnServer(a, s) \cup {c}) <= Cardinality(InTimeOnServer(a, s)) + 1
  BY <1>1, <1>4
<1>10. Cardinality(InTime(a)') \in Nat /\ Cardinality(InTime(a)') <= Cardinality(InTime(a)) + 1
  <2>1. Cardinality(InTime(a)') \in {Cardinality(InTime(a)), Cardinality(InTime(a) \cup {c})}
    BY <1>2, Zenon
  <2>2. QED
    BY <2>1, <1>8
<1>11. /\ Cardinality(InTimeOnServer(a, s)') \in Nat
       /\ Cardinality(InTimeOnServer(a, s)') <= Cardinality(InTimeOnServer(a, s)) + 1
  <2>1. Cardinality(InTimeOnServer(a, s)')
          \in {Cardinality(InTimeOnServer(a, s)), Cardinality(InTimeOnServer(a, s) \cup {c})}
    BY <1>3, Zenon
  <2>2. QED
    BY <2>1, <1>9
<1>12. QED
  BY <1>5, <1>6, <1>7, <1>10, <1>11

(* What is counted only depends on the account, the server and the         *)
(* documents.                                                              *)
LEMMA CountsKept ==
    ASSUME UNCHANGED <<body, characters, late>>, NEW q \in Requests, account'[q] = account[q]
    PROVE  /\ Cardinality(InTime(account[q]))' = Cardinality(InTime(account[q]))
           /\ Cardinality(InTimeOnServer(account[q], body[q].server))'
                = Cardinality(InTimeOnServer(account[q], body[q].server))
<1>1. /\ InTime(account[q])' = InTime(account[q])
      /\ InTimeOnServer(account[q], body[q].server)' = InTimeOnServer(account[q], body[q].server)
  BY DEF InTime, InTimeOnServer, OfAccount, OfServer
<1>2. QED
  BY <1>1, Zenon

LEMMA InTimeKept ==
    ASSUME LimitInv, UNCHANGED <<characters, late>>
    PROVE  IsFiniteSet(characters)' /\ WithinLimits'
<1>1. \A a, s : InTime(a)' = InTime(a) /\ InTimeOnServer(a, s)' = InTimeOnServer(a, s)
  BY DEF InTime, InTimeOnServer, OfAccount, OfServer
<1>2. QED
  BY <1>1, Zenon DEF LimitInv, WithinLimits

(* A step that neither inserts nor lets a request count, and in which no   *)
(* request without the lock obtains it, keeps what was counted.            *)
LEMMA HoldKept ==
    ASSUME LimitInv, UNCHANGED <<body, characters, late>>,
           \A q \in Requests : ttl'[q] > 0 => ttl[q] > 0 /\ account'[q] = account[q],
           \A q \in Requests : ttl'[q] > 0 /\ pc'[q] \in {"countServer"} \cup Timed =>
             pc[q] \in {"countServer"} \cup Timed,
           \A q \in Requests : ttl'[q] > 0 /\ pc'[q] \in Timed => pc[q] \in Timed
    PROVE  OneHolder' /\ CountsHold' /\ IsFiniteSet(characters)' /\ WithinLimits'
<1>1. OneHolder'
  BY DEF LimitInv, OneHolder
<1>2. CountsHold'
  <2> SUFFICES ASSUME NEW q \in Requests, ttl'[q] > 0
               PROVE  /\ pc'[q] \in {"countServer"} \cup Timed =>
                           Cardinality(InTime(account[q]))' < MaxPerAccount
                      /\ pc'[q] \in Timed =>
                           Cardinality(InTimeOnServer(account[q], body[q].server))' < MaxPerServer
    BY Zenon DEF CountsHold
  <2>1. ttl[q] > 0 /\ account'[q] = account[q]
    OBVIOUS
  <2>2. /\ Cardinality(InTime(account[q]))' = Cardinality(InTime(account[q]))
        /\ Cardinality(InTimeOnServer(account[q], body[q].server))'
             = Cardinality(InTimeOnServer(account[q], body[q].server))
    BY <2>1, CountsKept
  <2>3. /\ pc[q] \in {"countServer"} \cup Timed => Cardinality(InTime(account[q])) < MaxPerAccount
        /\ pc[q] \in Timed =>
             Cardinality(InTimeOnServer(account[q], body[q].server)) < MaxPerServer
    BY <2>1 DEF LimitInv, CountsHold
  <2>4. QED
    BY <2>2, <2>3, Zenon
<1>3. IsFiniteSet(characters)' /\ WithinLimits'
  BY InTimeKept DEF LimitInv
<1>4. QED
  BY <1>1, <1>2, <1>3

LEMMA LimitInit == Init => LimitInv
<1> SUFFICES ASSUME Init PROVE LimitInv
  OBVIOUS
<1>1. IsFiniteSet(characters)
  BY FS_EmptySet DEF Init
<1>2. \A a, s : InTime(a) = {} /\ InTimeOnServer(a, s) = {}
  BY DEF Init, InTime, InTimeOnServer, OfAccount, OfServer
<1>3. Cardinality({}) = 0
  BY FS_EmptySet
<1>4. WithinLimits
  BY <1>2, <1>3, LoginAssumption DEF WithinLimits
<1>5. QED
  BY <1>1, <1>4 DEF Init, LimitInv, UnaskedUnheld, OneHolder, CountsHold

(* The steps of Auth touch neither a lock nor a request that holds one.    *)
LEMMA LimitAuthenticate ==
    ASSUME TypeInv, LimitInv, NEW r \in Requests, Authenticate(r)
    PROVE  LimitInv'
<1>1. /\ pc[r] \in {"auth", "genAccount", "upsert"} /\ pc'[r] \in {"genAccount", "upsert", "lock", "done"}
      /\ \A q \in Requests : q # r => pc'[q] = pc[q] /\ account'[q] = account[q]
      /\ UNCHANGED <<body, ttl, characters, late>>
  BY DEF Authenticate, FindAccount, GenAccountID, CreateOrGetAccount, Goto, TypeInv, TypeOK, stored
<1>2. ttl[r] = 0
  BY <1>1 DEF LimitInv, UnaskedUnheld
<1>3. UnaskedUnheld'
  BY <1>1, <1>2 DEF LimitInv, UnaskedUnheld
<1>4. QED
  BY <1>1, <1>2, <1>3, HoldKept DEF LimitInv

(* The steps after Auth that neither lock nor count nor insert.            *)
LEMMA LimitProceed ==
    ASSUME TypeInv, LimitInv, NEW r \in Requests,
           Refresh(r) \/ RefreshAnswered(r) \/ GenCharacterID(r) \/ SetActorServer(r)
             \/ Unlock(r) \/ Fails(r)
    PROVE  LimitInv'
<1>1. /\ UNCHANGED <<body, account, characters, late>>
      /\ \A q \in Requests : q # r => pc'[q] = pc[q] /\ ttl'[q] = ttl[q]
      /\ ttl'[r] > 0 => ttl[r] > 0
      /\ pc'[r] \in Timed => pc[r] \in Timed
      /\ pc'[r] \in {"refreshed", "genId", "insert", "unlock", "done"}
  BY LoginAssumption
     DEF Refresh, RefreshAnswered, GenCharacterID, SetActorServer, Unlock, Fails, Goto, Issue,
         stored, Timed, TypeInv, TypeOK
<1>2. UnaskedUnheld'
  BY <1>1 DEF LimitInv, UnaskedUnheld
<1>3. QED
  BY <1>1, <1>2, HoldKept DEF LimitInv, Timed

(* The lock is taken when nobody holds it; the counts of its holder are    *)
(* those the service makes, which include every late character.            *)
LEMMA LimitCount ==
    ASSUME TypeInv, LimitInv, NEW r \in Requests,
           LockAccount(r) \/ CountAccount(r) \/ CountServer(r)
    PROVE  LimitInv'
<1>1. /\ UNCHANGED <<body, account, characters, late>>
      /\ \A q \in Requests : q # r => pc'[q] = pc[q] /\ ttl'[q] = ttl[q]
      /\ pc'[r] \in {"countAccount", "countServer", "refresh", "unlock", "done"}
  BY DEF LockAccount, CountAccount, CountServer, Goto, Issue, stored, TypeInv, TypeOK
<1>2. UnaskedUnheld'
  BY <1>1 DEF LimitInv, UnaskedUnheld
<1>3. OneHolder'
  <2>1. CASE LockAccount(r)
    BY <1>1, <2>1 DEF LockAccount, LimitInv, OneHolder
  <2>2. CASE CountAccount(r) \/ CountServer(r)
    BY <2>2 DEF CountAccount, CountServer, LimitInv, OneHolder
  <2>3. QED
    BY <2>1, <2>2
<1>4. CountsHold'
  <2> DEFINE A(q) == Cardinality(InTime(account[q]))
             S(q) == Cardinality(InTimeOnServer(account[q], body[q].server))
  <2>1. \A q \in Requests : A(q)' = A(q) /\ S(q)' = S(q)
    BY <1>1, CountsKept
  <2>2. /\ A(r) \in Nat /\ S(r) \in Nat
        /\ Cardinality(OfAccount(account[r])) \in Nat
        /\ Cardinality(OfServer(account[r], body[r].server)) \in Nat
        /\ A(r) <= Cardinality(OfAccount(account[r]))
        /\ S(r) <= Cardinality(OfServer(account[r], body[r].server))
    BY InTimeCounts DEF LimitInv
  <2>3. /\ CountAccount(r) /\ pc'[r] = "countServer" => A(r) < MaxPerAccount
        /\ CountServer(r) /\ pc'[r] = "refresh" => S(r) < MaxPerServer
    BY <2>2, LoginAssumption
       DEF CountAccount, CountServer, RoomOnAccount, RoomOnServer, Goto, Issue, TypeInv, TypeOK
  <2>4. \A q \in Requests : ttl[q] > 0 =>
          /\ pc[q] \in {"countServer"} \cup Timed => A(q) < MaxPerAccount
          /\ pc[q] \in Timed => S(q) < MaxPerServer
    BY Zenon DEF LimitInv, CountsHold
  <2> HIDE DEF A, S
  <2>5. \A q \in Requests : ttl'[q] > 0 =>
          /\ pc'[q] \in {"countServer"} \cup Timed => A(q) < MaxPerAccount
          /\ pc'[q] \in Timed => S(q) < MaxPerServer
    <3>1. CASE LockAccount(r)
      BY <1>1, <2>4, <3>1 DEF LockAccount, Goto, Timed, TypeInv, TypeOK
    <3>2. CASE CountAccount(r)
      BY <1>1, <2>3, <2>4, <3>2 DEF CountAccount, Goto, Timed, TypeInv, TypeOK
    <3>3. CASE CountServer(r)
      BY <1>1, <2>3, <2>4, <3>3 DEF CountServer, Goto, Issue, Timed, TypeInv, TypeOK
    <3>4. QED
      BY <3>1, <3>2, <3>3
  <2>6. \A q \in Requests : ttl'[q] > 0 =>
          /\ pc'[q] \in {"countServer"} \cup Timed => A(q)' < MaxPerAccount
          /\ pc'[q] \in Timed => S(q)' < MaxPerServer
    BY <2>1, <2>5, Zenon
  <2>7. QED
    BY <2>6, Zenon DEF CountsHold, A, S
<1>5. IsFiniteSet(characters)' /\ WithinLimits'
  BY <1>1, InTimeKept DEF LimitInv
<1>6. QED
  BY <1>2, <1>3, <1>4, <1>5 DEF LimitInv

(* An insertion that comes too late changes no count of those in time.     *)
LEMMA LimitInsertLate ==
    ASSUME TypeInv, LimitInv, NEW r \in Requests, InsertCharacter(r), ttl[r] = 0
    PROVE  LimitInv'
<1> DEFINE c == [id |-> character[r], account |-> account[r], server |-> body[r].server]
<1>1. /\ characters' = characters \cup {c} /\ late' = late \cup {c} /\ c \notin characters
      /\ pc[r] = "insert" /\ pc'[r] \in {"setServer", "unlock"}
      /\ \A q \in Requests : q # r => pc'[q] = pc[q]
      /\ UNCHANGED <<body, account, ttl>>
  BY DEF InsertCharacter, Goto, TypeInv, TypeOK
<1> HIDE DEF c
<1>2. \A a, s : InTime(a)' = InTime(a) /\ InTimeOnServer(a, s)' = InTimeOnServer(a, s)
  BY <1>1 DEF InTime, InTimeOnServer, OfAccount, OfServer
<1>3. UnaskedUnheld' /\ OneHolder'
  BY <1>1 DEF LimitInv, UnaskedUnheld, OneHolder
<1>4. CountsHold'
  <2>1. \A q \in Requests :
          /\ InTime(account[q])' = InTime(account[q])
          /\ InTimeOnServer(account[q], body[q].server)' = InTimeOnServer(account[q], body[q].server)
    BY <1>1 DEF InTime, InTimeOnServer, OfAccount, OfServer
  <2>2. \A q \in Requests :
          /\ Cardinality(InTime(account[q]))' = Cardinality(InTime(account[q]))
          /\ Cardinality(InTimeOnServer(account[q], body[q].server))'
               = Cardinality(InTimeOnServer(account[q], body[q].server))
    BY <2>1, Zenon
  <2>3. \A q \in Requests : ttl'[q] > 0 =>
          ttl[q] > 0 /\ q # r /\ pc'[q] = pc[q]
    BY <1>1, LoginAssumption DEF TypeInv, TypeOK
  <2>4. QED
    BY <2>2, <2>3, Zenon DEF LimitInv, CountsHold
<1>5. IsFiniteSet(characters)'
  BY <1>1, FS_AddElement DEF LimitInv
<1>6. WithinLimits'
  BY <1>2, Zenon DEF LimitInv, WithinLimits
<1>7. QED
  BY <1>3, <1>4, <1>5, <1>6 DEF LimitInv

(* An insertion in time: r holds the lock, so that the counts of every     *)
(* other request that holds one are those of other accounts.               *)
LEMMA LimitInsert ==
    ASSUME TypeInv, LimitInv, NEW r \in Requests, InsertCharacter(r), ttl[r] > 0
    PROVE  LimitInv'
<1> DEFINE c == [id |-> character[r], account |-> account[r], server |-> body[r].server]
<1>1. /\ characters' = characters \cup {c} /\ late' = late
      /\ pc[r] = "insert" /\ pc'[r] \in {"setServer", "unlock"}
      /\ \A q \in Requests : q # r => pc'[q] = pc[q]
      /\ UNCHANGED <<body, account, ttl>>
  BY DEF InsertCharacter, Goto, TypeInv, TypeOK
<1>2. /\ Cardinality(InTime(c.account)) < MaxPerAccount
      /\ Cardinality(InTimeOnServer(c.account, c.server)) < MaxPerServer
  BY <1>1 DEF LimitInv, CountsHold, Timed
<1>3. UnaskedUnheld' /\ OneHolder'
  BY <1>1 DEF LimitInv, UnaskedUnheld, OneHolder
<1>4. \A q \in Requests : q # r /\ ttl[q] > 0 => c.account # account[q]
  BY DEF LimitInv, OneHolder
<1> HIDE DEF c
<1>5. CountsHold'
  <2> SUFFICES ASSUME NEW q \in Requests, ttl'[q] > 0
               PROVE  /\ pc'[q] \in {"countServer"} \cup Timed =>
                           Cardinality(InTime(account[q]))' < MaxPerAccount
                      /\ pc'[q] \in Timed =>
                           Cardinality(InTimeOnServer(account[q], body[q].server))' < MaxPerServer
    BY Zenon DEF CountsHold
  <2>1. CASE q = r
    BY <1>1, <2>1 DEF Timed
  <2>2. CASE q # r
    <3>1. ttl[q] > 0 /\ pc'[q] = pc[q] /\ c.account # account[q]
      BY <1>1, <1>4, <2>2
    <3>2. /\ InTime(account[q])' = InTime(account[q])
          /\ InTimeOnServer(account[q], body[q].server)' = InTimeOnServer(account[q], body[q].server)
      BY <1>1, <3>1 DEF InTime, InTimeOnServer, OfAccount, OfServer
    <3>3. /\ Cardinality(InTime(account[q]))' = Cardinality(InTime(account[q]))
          /\ Cardinality(InTimeOnServer(account[q], body[q].server))'
               = Cardinality(InTimeOnServer(account[q], body[q].server))
      BY <3>2, Zenon
    <3>4. QED
      BY <3>1, <3>3, Zenon DEF LimitInv, CountsHold
  <2>3. QED
    BY <2>1, <2>2
<1>6. IsFiniteSet(characters)'
  BY <1>1, FS_AddElement DEF LimitInv
<1>7. WithinLimits'
  <2> SUFFICES ASSUME NEW a, NEW s
               PROVE  /\ Cardinality(InTime(a)') <= MaxPerAccount
                      /\ Cardinality(InTimeOnServer(a, s)') <= MaxPerServer
    BY Zenon DEF WithinLimits, InTime, InTimeOnServer, OfAccount, OfServer
  <2>1. /\ Cardinality(InTime(a)') \in Nat /\ Cardinality(InTimeOnServer(a, s)') \in Nat
        /\ Cardinality(InTime(a)') <= Cardinality(InTime(a)) + 1
        /\ Cardinality(InTimeOnServer(a, s)') <= Cardinality(InTimeOnServer(a, s)) + 1
        /\ c.account # a => InTime(a)' = InTime(a) /\ InTimeOnServer(a, s)' = InTimeOnServer(a, s)
        /\ c.server # s => InTimeOnServer(a, s)' = InTimeOnServer(a, s)
    BY <1>1, InsertCounts DEF LimitInv
  <2>2. /\ Cardinality(InTime(a)) \in Nat /\ Cardinality(InTimeOnServer(a, s)) \in Nat
        /\ Cardinality(InTime(a)) <= MaxPerAccount
        /\ Cardinality(InTimeOnServer(a, s)) <= MaxPerServer
    BY InTimeCounts DEF LimitInv, WithinLimits
  <2>3. Cardinality(InTime(a)') <= MaxPerAccount
    <3>1. CASE c.account = a
      <4>1. Cardinality(InTime(a)) < MaxPerAccount
        BY <1>2, <3>1
      <4>2. QED
        BY <2>1, <2>2, <4>1, LoginAssumption
    <3>2. CASE c.account # a
      BY <2>1, <2>2, <3>2
    <3>3. QED
      BY <3>1, <3>2
  <2>4. Cardinality(InTimeOnServer(a, s)') <= MaxPerServer
    <3>1. CASE c.account = a /\ c.server = s
      <4>1. Cardinality(InTimeOnServer(a, s)) < MaxPerServer
        BY <1>2, <3>1
      <4>2. QED
        BY <2>1, <2>2, <4>1, LoginAssumption
    <3>2. CASE ~(c.account = a /\ c.server = s)
      BY <2>1, <2>2, <3>2
    <3>3. QED
      BY <3>1, <3>2
  <2>5. QED
    BY <2>3, <2>4
<1>8. QED
  BY <1>3, <1>5, <1>6, <1>7 DEF LimitInv

LEMMA LimitNext == TypeInv /\ LimitInv /\ [Next]_vars => LimitInv'
<1> SUFFICES ASSUME TypeInv, LimitInv, [Next]_vars PROVE LimitInv'
  OBVIOUS
<1>1. CASE Tick \/ UNCHANGED vars
  <2>1. UNCHANGED <<pc, body, account, characters, late>>
    BY <1>1 DEF Tick, stored, vars
  <2>2. \A q \in Requests : ttl[q] \in Nat /\ ttl'[q] \in {ttl[q], Less(ttl[q])}
    BY <1>1 DEF Tick, vars, TypeInv, TypeOK
  <2>3. \A q \in Requests : (ttl'[q] > 0 => ttl[q] > 0) /\ (ttl[q] = 0 => ttl'[q] = 0)
    BY <2>2 DEF Less
  <2>4. UnaskedUnheld'
    BY <2>1, <2>3 DEF LimitInv, UnaskedUnheld
  <2>5. QED
    BY <2>1, <2>3, <2>4, HoldKept DEF LimitInv
<1>2. ASSUME NEW r \in Requests, InsertCharacter(r) PROVE LimitInv'
  <2>1. ttl[r] = 0 \/ ttl[r] > 0
    BY LoginAssumption DEF TypeInv, TypeOK
  <2>2. QED
    BY <1>2, <2>1, LimitInsertLate, LimitInsert
<1>3. QED
  BY <1>1, <1>2, LimitAuthenticate, LimitCount, LimitProceed DEF Next, Create

(* Whatever the expiry of the lock and the duration of the commands, no    *)
(* account has more characters inserted in time than it may have, in all   *)
(* and on a server: only an insertion after the lock was lost can pass a   *)
(* limit (handleCharacterCreate).                                          *)
THEOREM LimitHolds == Spec => []LimitUnderLock
<1>1. LimitInv => LimitUnderLock
  BY Zenon DEF LimitInv, WithinLimits, LimitUnderLock, InTime, InTimeOnServer
<1>2. QED
  BY <1>1, LimitInit, LimitNext, TypeInvariant, PTL DEF Spec

-----------------------------------------------------------------------------
(* Reported characters *)

NewCharacter(r) == [id |-> character[r], account |-> account[r], server |-> body[r].server]
Route(r) == [id |-> character[r], server |-> body[r].server]

(* Where the character of a request no longer changes. *)
Settled == {"setServer", "unlock", "done"}

(* Ids are generated once.  A document is there before the actor is routed,*)
(* and a route is written by the request that generated its id.            *)
PlayableInv ==
  /\ \A r \in Requests : character[r] <= characterSeq
  /\ \A q, r \in Requests : character[q] = character[r] /\ character[q] # 0 => q = r
  /\ \A r \in Requests : pc[r] = "setServer" => NewCharacter(r) \in characters
  /\ \A r \in created :
       pc[r] \in Settled /\ NewCharacter(r) \in characters /\ Route(r) \in routes
  /\ \A x \in routes : \E r \in Requests : pc[r] \in Settled /\ x = Route(r)

LEMMA PlayableInit == Init => PlayableInv
BY DEF Init, PlayableInv

(* A step that generates no id and writes neither a document nor a route.  *)
LEMMA PlayableKept ==
    ASSUME TypeInv, PlayableInv, UNCHANGED <<body, character, characterSeq, created, routes, characters>>,
           \A r \in Requests : pc[r] \in Settled =>
             account'[r] = account[r] /\ pc'[r] \in Settled,
           \A r \in Requests : pc'[r] = "setServer" => pc[r] = "setServer"
    PROVE  PlayableInv'
<1>1. \A r \in Requests : Route(r)' = Route(r)
  BY DEF Route
<1>2. \A r \in Requests : pc[r] \in Settled => NewCharacter(r)' = NewCharacter(r)
  BY DEF NewCharacter
<1> HIDE DEF Route, NewCharacter
<1>3. created \subseteq Requests
  BY DEF TypeInv, TypeOK
<1>4. QED
  BY <1>1, <1>2, <1>3 DEF PlayableInv, Settled

LEMMA PlayableGenerate ==
    ASSUME TypeInv, PlayableInv, NEW r \in Requests, GenCharacterID(r)
    PROVE  PlayableInv'
<1>1. /\ pc[r] = "genId" /\ pc' = [pc EXCEPT ![r] = "insert"]
      /\ characterSeq' = characterSeq + 1
      /\ character' = [character EXCEPT ![r] = characterSeq + 1]
      /\ UNCHANGED <<body, account, created, characters, routes>>
  BY DEF GenCharacterID, Issue, Goto, stored
<1>2. \A q \in Requests : q # r => Route(q)' = Route(q) /\ NewCharacter(q)' = NewCharacter(q)
  BY <1>1 DEF Route, NewCharacter, TypeInv, TypeOK
<1>3. \A q \in Requests : pc[q] \in Settled => q # r /\ pc'[q] = pc[q]
  BY <1>1 DEF Settled, TypeInv, TypeOK
<1> HIDE DEF Route, NewCharacter
<1>4. /\ \A q \in Requests : character'[q] <= characterSeq'
      /\ \A p, q \in Requests : character'[p] = character'[q] /\ character'[p] # 0 => p = q
  BY <1>1 DEF PlayableInv, TypeInv, TypeOK
<1>5. \A q \in Requests : pc'[q] = "setServer" => pc[q] = "setServer"
  BY <1>1 DEF TypeInv, TypeOK
<1>6. created \subseteq Requests
  BY DEF TypeInv, TypeOK
<1>7. QED
  BY <1>1, <1>2, <1>3, <1>4, <1>5, <1>6 DEF PlayableInv, Settled

LEMMA PlayableInsert ==
    ASSUME TypeInv, PlayableInv, NEW r \in Requests, InsertCharacter(r)
    PROVE  PlayableInv'
<1>1. /\ pc[r] = "insert" /\ pc'[r] \in {"setServer", "unlock"}
      /\ \A q \in Requests : q # r => pc'[q] = pc[q]
      /\ characters' = characters \cup {NewCharacter(r)}
      /\ UNCHANGED <<body, account, character, characterSeq, created, routes>>
  BY DEF InsertCharacter, Goto, NewCharacter, TypeInv, TypeOK
<1>2. \A q \in Requests : Route(q)' = Route(q) /\ NewCharacter(q)' = NewCharacter(q)
  BY <1>1 DEF Route, NewCharacter
<1> HIDE DEF Route, NewCharacter
<1>3. created \subseteq Requests
  BY DEF TypeInv, TypeOK
<1>4. \A q \in Requests : pc[q] \in Settled => q # r /\ pc'[q] = pc[q]
  BY <1>1 DEF Settled
<1>5. QED
  BY <1>1, <1>2, <1>3, <1>4 DEF PlayableInv, Settled

LEMMA PlayableSetServer ==
    ASSUME TypeInv, PlayableInv, NEW r \in Requests, SetActorServer(r)
    PROVE  PlayableInv'
<1>1. /\ pc[r] = "setServer" /\ pc'[r] = "unlock"
      /\ \A q \in Requests : q # r => pc'[q] = pc[q]
      /\ routes' = routes \cup {Route(r)} /\ created' \in {created, created \cup {r}}
      /\ UNCHANGED <<body, account, character, characterSeq, characters>>
  BY DEF SetActorServer, Goto, Route, TypeInv, TypeOK
<1>2. \A q \in Requests : Route(q)' = Route(q) /\ NewCharacter(q)' = NewCharacter(q)
  BY <1>1 DEF Route, NewCharacter
<1> HIDE DEF Route, NewCharacter
<1>3. created \subseteq Requests
  BY DEF TypeInv, TypeOK
<1>4. \A q \in Requests : pc[q] \in Settled => pc'[q] \in Settled
  BY <1>1 DEF Settled
<1>5. \A q \in Requests : pc'[q] = "setServer" => pc[q] = "setServer"
  BY <1>1
<1>6. NewCharacter(r) \in characters
  BY <1>1 DEF PlayableInv
<1>7. \A x \in routes' : \E q \in Requests : pc'[q] \in Settled /\ x = Route(q)'
  BY <1>1, <1>2, <1>4 DEF PlayableInv, Settled
<1>8. \A q \in created' :
        pc'[q] \in Settled /\ NewCharacter(q)' \in characters' /\ Route(q)' \in routes'
  BY <1>1, <1>2, <1>3, <1>4, <1>6 DEF PlayableInv, Settled
<1>9. QED
  BY <1>1, <1>2, <1>5, <1>7, <1>8 DEF PlayableInv

LEMMA PlayableNext == TypeInv /\ PlayableInv /\ [Next]_vars => PlayableInv'
<1> SUFFICES ASSUME TypeInv, PlayableInv, [Next]_vars PROVE PlayableInv'
  OBVIOUS
<1>1. ASSUME NEW r \in Requests, Authenticate(r) PROVE PlayableInv'
  <2>1. /\ UNCHANGED <<body, character, characterSeq, created, routes, characters>>
        /\ pc[r] \in {"auth", "genAccount", "upsert"} /\ pc'[r] \in {"genAccount", "upsert", "lock", "done"}
        /\ \A q \in Requests : q # r => pc'[q] = pc[q] /\ account'[q] = account[q]
    BY <1>1 DEF Authenticate, FindAccount, GenAccountID, CreateOrGetAccount, Goto, stored, TypeInv, TypeOK
  <2>2. QED
    BY <2>1, PlayableKept DEF Settled
<1>2. ASSUME NEW r \in Requests,
             LockAccount(r) \/ CountAccount(r) \/ CountServer(r) \/ Refresh(r)
               \/ RefreshAnswered(r) \/ Unlock(r) \/ Fails(r)
      PROVE  PlayableInv'
  <2>1. UNCHANGED <<body, account, character, characterSeq, created, routes, characters>>
    BY <1>2 DEF LockAccount, CountAccount, CountServer, Refresh, RefreshAnswered, Unlock, Fails, stored
  <2>2. /\ pc[r] \in Settled => pc'[r] \in Settled
        /\ pc'[r] # "setServer"
        /\ \A q \in Requests : q # r => pc'[q] = pc[q]
    BY <1>2 DEF LockAccount, CountAccount, CountServer, Refresh, RefreshAnswered, Unlock, Fails,
                Goto, Issue, Settled, TypeInv, TypeOK, Unlocked, Locked
  <2>3. QED
    BY <2>1, <2>2, PlayableKept
<1>3. CASE Tick \/ UNCHANGED vars
  <2>1. UNCHANGED <<pc, body, account, character, characterSeq, created, routes, characters>>
    BY <1>3 DEF Tick, vars, stored
  <2>2. QED
    BY <2>1, PlayableKept
<1>4. QED
  BY <1>1, <1>2, <1>3, PlayableGenerate, PlayableInsert, PlayableSetServer DEF Next, Create

(* A character whose creation is reported is stored for its account and    *)
(* routed to its server and to no other, whichever answers were lost.      *)
THEOREM ReportedPlayable == Spec => []ReportedIsPlayable
<1>1. TypeInv /\ PlayableInv => ReportedIsPlayable
  <2> SUFFICES ASSUME TypeInv, PlayableInv, NEW r \in created
               PROVE  \E c \in characters :
                        /\ c.id = character[r] /\ c.account = account[r] /\ c.server = body[r].server
                        /\ {x \in routes : x.id = c.id} = {[id |-> c.id, server |-> c.server]}
    BY DEF ReportedIsPlayable
  <2> DEFINE c == NewCharacter(r)
  <2>1. /\ r \in Requests /\ c \in characters /\ Route(r) \in routes
        /\ c.id = character[r] /\ c.account = account[r] /\ c.server = body[r].server
    BY DEF TypeInv, TypeOK, PlayableInv, NewCharacter
  <2>2. Route(r).id = character[r] /\ character[r] # 0
    BY <2>1 DEF Route, TypeInv, TypeOK
  <2>3. ASSUME NEW x \in routes, x.id = c.id PROVE x = Route(r)
    <3>1. PICK q \in Requests : x = Route(q)
      BY DEF PlayableInv
    <3>2. character[q] = character[r]
      BY <2>1, <2>3, <3>1 DEF Route
    <3>3. q = r
      BY <2>1, <2>2, <3>2 DEF PlayableInv
    <3>4. QED
      BY <3>1, <3>3
  <2>4. Route(r) = [id |-> c.id, server |-> c.server]
    BY <2>1 DEF Route
  <2> HIDE DEF c
  <2>5. {x \in routes : x.id = c.id} = {Route(r)}
    BY <2>1, <2>2, <2>3
  <2>6. QED
    BY <2>1, <2>4, <2>5
<1>2. QED
  BY <1>1, PlayableInit, TypeInvariant, PlayableNext, PTL DEF Spec
=============================================================================
