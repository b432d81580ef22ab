---------------------------- MODULE LoginService ----------------------------
(***************************************************************************)
(* The login service: requests that create characters.                     *)
(*                                                                         *)
(* Every request passes the Auth middleware, which finds or creates the    *)
(* account of its user (app/login/internal/handlers/middleware/auth.go),   *)
(* and then handleCharacterCreate (app/login/internal/handlers/            *)
(* character.go): lock the account's characters, check the two limits,     *)
(* refresh the lock, generate an id, insert the document, set the server   *)
(* of the character's actor, unlock.  MongoDB and Redis execute a command  *)
(* atomically; a command may fail, or be executed and its answer lost.     *)
(*                                                                         *)
(* The lock expires.  Time is discrete: a Tick lets one unit pass for      *)
(* every lock and for every command whose duration matters, which is those *)
(* from the refresh of the lock to the insertion.                          *)
(***************************************************************************)
EXTENDS Naturals, FiniteSets

CONSTANTS
  Requests,         \* HTTP requests to /character/create
  Users,            \* users named by their tokens
  Servers,          \* game servers
  MaxPerAccount,    \* consts.MaxCharacterCountPerAccount
  MaxPerServer,     \* consts.MaxCharacterCountPerServer
  Expiry,           \* life of the lock, in units of time
  Latency           \* longest duration of a command, in the same units

ASSUME LoginAssumption ==
  /\ MaxPerAccount \in Nat \ {0} /\ MaxPerServer \in Nat \ {0}
  /\ Expiry \in Nat \ {0} /\ Latency \in Nat

VARIABLES
  pc,            \* where each request is
  body,          \* its user and the server it asks for
  account,       \* its account id, 0 while it has none
  character,     \* its generated character id, 0 while it has none
  left,          \* time its current command may still take
  ttl,           \* time left of the lock it holds on its account, 0: not held
  created,       \* requests that will report a new character
  accounts,      \* collection accounts: user -> account id, 0: no document
  accountSeq,    \* id_generators.account
  characters,    \* collection characters
  characterSeq,  \* id_generators.character
  routes,        \* the actor server store
  late           \* history: characters whose request had lost its lock
                 \* when they were inserted

vars == <<pc, body, account, character, left, ttl, created, accounts, accountSeq,
          characters, characterSeq, routes, late>>
auth == <<accounts, accountSeq>>
stored == <<characters, routes, late>>

OfAccount(a)   == {c \in characters : c.account = a}
OfServer(a, s) == {c \in characters : c.account = a /\ c.server = s}

RoomOnAccount(r) == Cardinality(OfAccount(account[r])) < MaxPerAccount
RoomOnServer(r)  == Cardinality(OfServer(account[r], body[r].server)) < MaxPerServer

\* Where a request is when it has not locked yet, when it has, and when the
\* duration of its command matters.
Unlocked == {"auth", "genAccount", "upsert", "lock", "done"}
Locked   == {"countAccount", "countServer", "refresh", "refreshed", "genId",
             "insert", "setServer", "unlock"}
Timed    == {"refresh", "refreshed", "genId", "insert"}

Init ==
  /\ pc = [r \in Requests |-> "auth"]
  /\ body \in [Requests -> [user : Users, server : Servers]]
  /\ account = [r \in Requests |-> 0] /\ character = [r \in Requests |-> 0]
  /\ left = [r \in Requests |-> 0] /\ ttl = [r \in Requests |-> 0]
  /\ created = {}
  /\ accounts = [u \in Users |-> 0] /\ accountSeq = 0
  /\ characters = {} /\ characterSeq = 0 /\ routes = {} /\ late = {}

Goto(r, l) == pc' = [pc EXCEPT ![r] = l]

\* The next command of r is issued now.
Issue(r, l) == Goto(r, l) /\ left' = [left EXCEPT ![r] = Latency]

-----------------------------------------------------------------------------
(* Auth: the account of the user *)

\* GetAccountByUID; ErrNoDocuments leads to the creation of an account.
FindAccount(r) ==
  /\ pc[r] = "auth"
  /\ LET found == accounts[body[r].user] IN
       /\ account' = [account EXCEPT ![r] = found]
       /\ Goto(r, IF found = 0 THEN "genAccount" ELSE "lock")
  /\ UNCHANGED <<body, character, left, ttl, created, auth, stored, characterSeq>>

\* GenAccountID: $inc with the document after the update.
GenAccountID(r) ==
  /\ pc[r] = "genAccount"
  /\ accountSeq' = accountSeq + 1
  /\ account' = [account EXCEPT ![r] = accountSeq']
  /\ Goto(r, "upsert")
  /\ UNCHANGED <<body, character, left, ttl, created, accounts, stored, characterSeq>>

\* Mutant: the account is created although another request has just done so.
CreateAccountAgain(r) ==
  /\ pc[r] = "upsert"
  /\ accounts' = [accounts EXCEPT ![body[r].user] = account[r]]
  /\ \E answer \in {"lock", "done"} : Goto(r, answer)
  /\ UNCHANGED <<body, account, character, left, ttl, created, accountSeq, stored, characterSeq>>

\* CreateOrGetAccount: an upsert by uid with $setOnInsert returns the document
\* that is there afterwards.  The answer may be lost.
CreateOrGetAccount(r) ==
  /\ pc[r] = "upsert"
  /\ LET u == body[r].user IN
       /\ accounts' = [accounts EXCEPT ![u] = IF @ = 0 THEN account[r] ELSE @]
       /\ account' = [account EXCEPT ![r] = accounts'[u]]
  /\ \E answer \in {"lock", "done"} : Goto(r, answer)
  /\ UNCHANGED <<body, character, left, ttl, created, accountSeq, stored, characterSeq>>

-----------------------------------------------------------------------------
(* handleCharacterCreate *)

\* lockAccountCharacters; a lost answer leaves a lock nobody will release.
LockAccount(r) ==
  /\ pc[r] = "lock"
  /\ \A q \in Requests : account[q] = account[r] => ttl[q] = 0
  /\ ttl' = [ttl EXCEPT ![r] = Expiry]
  /\ \E answer \in {"countAccount", "done"} : Goto(r, answer)
  /\ UNCHANGED <<body, account, character, left, created, auth, stored, characterSeq>>

\* checkCreateCharacter: GetCharacterCountByAccountID.
CountAccount(r) ==
  /\ pc[r] = "countAccount"
  /\ Goto(r, IF RoomOnAccount(r) THEN "countServer" ELSE "unlock")
  /\ UNCHANGED <<body, account, character, left, ttl, created, auth, stored, characterSeq>>

\* checkCreateCharacter: GetCharacterCountByAccounIDServerID.
CountServer(r) ==
  /\ pc[r] = "countServer"
  /\ IF RoomOnServer(r) THEN Issue(r, "refresh") ELSE Goto(r, "unlock") /\ UNCHANGED left
  /\ UNCHANGED <<body, account, character, ttl, created, auth, stored, characterSeq>>

\* Mutant: the refresh writes the lock again without asking whose it is.
RefreshUnasked(r) ==
  /\ pc[r] = "refresh"
  /\ ttl' = [ttl EXCEPT ![r] = Expiry]
  /\ Goto(r, "refreshed")
  /\ UNCHANGED <<body, account, character, left, created, auth, stored, characterSeq>>

\* Redis executes the refresh; it is refused when the lock is no longer r's.
Refresh(r) ==
  /\ pc[r] = "refresh"
  /\ ttl[r] > 0
  /\ ttl' = [ttl EXCEPT ![r] = Expiry]
  /\ Goto(r, "refreshed")
  /\ UNCHANGED <<body, account, character, left, created, auth, stored, characterSeq>>

\* The answer of the refresh arrives, the id is asked for.
RefreshAnswered(r) ==
  /\ pc[r] = "refreshed"
  /\ Issue(r, "genId")
  /\ UNCHANGED <<body, account, character, ttl, created, auth, stored, characterSeq>>

\* Mutant: the generator returns the counter before its increment.
GenCharacterIDBefore(r) ==
  /\ pc[r] = "genId"
  /\ characterSeq' = characterSeq + 1
  /\ character' = [character EXCEPT ![r] = characterSeq]
  /\ Issue(r, "insert")
  /\ UNCHANGED <<body, account, ttl, created, auth, stored>>

\* GenCharacterID: $inc with the document after the update.
GenCharacterID(r) ==
  /\ pc[r] = "genId"
  /\ characterSeq' = characterSeq + 1
  /\ character' = [character EXCEPT ![r] = characterSeq']
  /\ Issue(r, "insert")
  /\ UNCHANGED <<body, account, ttl, created, auth, stored>>

\* CreateCharacter: the unique index on id refuses a second document.
InsertCharacter(r) ==
  /\ pc[r] = "insert"
  /\ \A c \in characters : c.id # character[r]
  /\ LET c == [id |-> character[r], account |-> account[r], server |-> body[r].server] IN
       /\ characters' = characters \cup {c}
       /\ late' = IF ttl[r] = 0 THEN late \cup {c} ELSE late
  /\ \E answer \in {"setServer", "unlock"} : Goto(r, answer)
  /\ UNCHANGED <<body, account, character, left, ttl, created, auth, characterSeq, routes>>

\* Mutant: the error of SetActorServer is ignored.
SetActorServerUnchecked(r) ==
  /\ pc[r] = "setServer"
  /\ routes' \in {routes, routes \cup {[id |-> character[r], server |-> body[r].server]}}
  /\ created' = created \cup {r}
  /\ Goto(r, "unlock")
  /\ UNCHANGED <<body, account, character, left, ttl, auth, characters, late, characterSeq>>

\* SetActorServer; without its answer the request reports an error although
\* the character exists.
SetActorServer(r) ==
  /\ pc[r] = "setServer"
  /\ routes' = routes \cup {[id |-> character[r], server |-> body[r].server]}
  /\ created' \in {created, created \cup {r}}
  /\ Goto(r, "unlock")
  /\ UNCHANGED <<body, account, character, left, ttl, auth, characters, late, characterSeq>>

\* The deferred Unlock; an error is only logged.
Unlock(r) ==
  /\ pc[r] = "unlock"
  /\ \E rest \in {0, ttl[r]} : ttl' = [ttl EXCEPT ![r] = rest]
  /\ Goto(r, "done")
  /\ UNCHANGED <<body, account, character, left, created, auth, stored, characterSeq>>

\* A command fails, times out or is refused: the request ends with an error.
Fails(r) ==
  /\ \/ pc[r] \in Unlocked \ {"done"} /\ Goto(r, "done")
     \/ pc[r] \in Locked \ {"unlock"} /\ Goto(r, "unlock")
  /\ UNCHANGED <<body, account, character, left, ttl, created, auth, stored, characterSeq>>

Less(n) == IF n = 0 THEN 0 ELSE n - 1

\* A unit of time passes, which no command outlives.
Tick ==
  /\ \A r \in Requests : pc[r] \in Timed => left[r] > 0
  /\ left' = [r \in Requests |-> Less(left[r])]
  /\ ttl' = [r \in Requests |-> Less(ttl[r])]
  /\ UNCHANGED <<pc, body, account, character, created, auth, stored, characterSeq>>

Authenticate(r) == FindAccount(r) \/ GenAccountID(r) \/ CreateOrGetAccount(r)
Create(r) ==
  \/ LockAccount(r) \/ CountAccount(r) \/ CountServer(r) \/ Refresh(r)
  \/ RefreshAnswered(r) \/ GenCharacterID(r) \/ InsertCharacter(r)
  \/ SetActorServer(r) \/ Unlock(r)

Next == Tick \/ \E r \in Requests : Authenticate(r) \/ Create(r) \/ Fails(r)

Spec == Init /\ [][Next]_vars

-----------------------------------------------------------------------------
(* Properties *)

\* Types, and: ids come from the generators, which start at 1, and a lock is
\* held for no longer than its expiry.
TypeOK ==
  /\ pc \in [Requests -> Unlocked \cup Locked]
  /\ body \in [Requests -> [user : Users, server : Servers]]
  /\ account \in [Requests -> Nat] /\ character \in [Requests -> Nat]
  /\ left \in [Requests -> 0 .. Latency] /\ ttl \in [Requests -> 0 .. Expiry]
  /\ created \subseteq Requests
  /\ accounts \in [Users -> Nat] /\ accountSeq \in Nat
  /\ characters \subseteq [id : Nat \ {0}, account : Nat \ {0}, server : Servers]
  /\ characterSeq \in Nat
  /\ routes \subseteq [id : Nat \ {0}, server : Servers]
  /\ late \subseteq characters

\* Two requests of one user that have passed Auth act for the same account,
\* also when both found no document and both generated an id
\* (getOrCreateAccount, CreateOrGetAccount).
OneAccountPerUser ==
  \A q, r \in Requests :
    /\ body[q].user = body[r].user
    /\ pc[q] \in Locked \cup {"lock"} /\ pc[r] \in Locked \cup {"lock"}
    => account[q] = account[r]

\* No account has more characters than it may have, in all and on a server
\* (handleCharacterCreate, consts.MaxCharacterCountPerAccount).
CharacterLimit ==
  \A c \in characters :
    /\ Cardinality(OfAccount(c.account)) <= MaxPerAccount
    /\ Cardinality(OfServer(c.account, c.server)) <= MaxPerServer

\* Only an insertion that comes after its request has lost the lock can pass
\* a limit: the characters inserted in time never exceed one, although the
\* counts, the refresh and the insertion are different commands, the lock
\* around them expires at any point, others take it then and insert late or in
\* time, and answers and the Unlock fail (handleCharacterCreate).
LimitUnderLock ==
  \A c \in characters :
    /\ Cardinality(OfAccount(c.account) \ late) <= MaxPerAccount
    /\ Cardinality(OfServer(c.account, c.server) \ late) <= MaxPerServer

\* A character whose creation is reported can be played: it is stored for the
\* account of the request and its actor is routed to its own server
\* (createCharacter, whose steps fail one by one).
ReportedIsPlayable ==
  \A r \in created :
    \E c \in characters :
      /\ c.id = character[r] /\ c.account = account[r] /\ c.server = body[r].server
      /\ {x \in routes : x.id = c.id} = {[id |-> c.id, server |-> c.server]}
=============================================================================
