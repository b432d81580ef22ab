------------------------------- MODULE Services -------------------------------
(***************************************************************************)
(* The login service with all its handlers, and the platform service that  *)
(* creates the servers its characters are for.                             *)
(*                                                                         *)
(* Both are HTTP services that start and stop in the same way              *)
(* (app/login/internal/app, app/platform/internal/app).  A request is      *)
(* LoginService's until Auth has accepted it (pc "lock"): its handler is   *)
(* handleCharacterCreate after checkServerAvailable, handleCharacterList,  *)
(* handleCharacterLogin or handleServerList.  The platform's handler is    *)
(* handleServerCreate: insert the document, then register the actor.       *)
(*                                                                         *)
(* Assumption about the deployment: the platform has started once before   *)
(* the login service serves, because only the platform creates the unique  *)
(* indexes that LoginService relies on.                                    *)
(***************************************************************************)
EXTENDS LoginService, Sequences

CONSTANTS
  Creators   \* HTTP requests to /server/create

VARIABLES
  kind,      \* what each request of the login service asks for
  checked,   \* requests whose server was found
  tokens,    \* tokens for a gateway that were issued
  at,        \* steps of Start and Stop each service has done
  indexed,   \* the unique indexes exist
  platPc,    \* where each creation of a server is
  platBody,  \* the id it asks for
  opened,    \* creations that were reported
  servers,   \* collection servers
  registry   \* nodes the actors of servers are registered at

platVars == <<platPc, platBody, opened, servers, registry, indexed>>
loginVars == <<kind, checked, tokens>>
servicesVars == <<vars, platVars, loginVars, at>>

ServiceNames == {"platform", "login"}
Kinds == {"create", "login", "list"}   \* list: of characters or of servers

\* MakeNodeID of a game node, named after its server.
NodeOf(id) == <<"game", id>>

-----------------------------------------------------------------------------
(* Start and Stop *)

\* Mutant: the platform serves before it has its indexes.
PlatformStepsEarly == <<"connect", "http", "indexes", "shutdown", "close">>

\* The steps of Start: what connects to the databases, the indexes of the
\* platform, and the server with what it needs; then those of Stop, where
\* Shutdown closes the listener and waits for the handlers, but not longer than
\* ShutdownTimeout, and close disconnects MongoDB and Redis.  What is not done
\* by then is lost with the process.
PlatformSteps == <<"connect", "indexes", "http", "shutdown", "close">>
LoginSteps == <<"connect", "http", "shutdown", "close">>
Steps(s) == IF s = "platform" THEN PlatformSteps ELSE LoginSteps

Did(s, step) == \E i \in 1 .. at[s] : Steps(s)[i] = step
Exited(s) == at[s] = Len(Steps(s))
Accepts(s) == Did(s, "http") /\ ~Did(s, "shutdown")
HasClients(s) == Did(s, "http") /\ ~Did(s, "close")

Advance(s) ==
  /\ ~Exited(s) /\ at' = [at EXCEPT ![s] = @ + 1]
  /\ LET step == Steps(s)[at'[s]] IN
       /\ s = "login" /\ step = "http" => indexed
       /\ indexed' = (indexed \/ step = "indexes")
  /\ UNCHANGED <<vars, loginVars, platPc, platBody, opened, servers, registry>>

\* A panic, a Fatalf or a crash: the platform starts again, and what it was
\* doing is lost.
PlatformDies ==
  /\ ~Exited("platform") /\ at' = [at EXCEPT !["platform"] = 0]
  /\ platPc' = [p \in Creators |-> IF platPc[p] = "new" THEN "new" ELSE "done"]
  /\ UNCHANGED <<vars, loginVars, platBody, opened, servers, registry, indexed>>

-----------------------------------------------------------------------------
(* handleServerCreate *)

Keep(p, l) ==
  /\ platPc' = [platPc EXCEPT ![p] = l]
  /\ UNCHANGED <<vars, loginVars, at, indexed, platBody>>

AcceptServer(p) ==
  /\ Accepts("platform") /\ platPc[p] = "new" /\ Keep(p, "insert")
  /\ UNCHANGED <<opened, servers, registry>>

\* CreateServer; the unique index refuses a second document.  The answer may
\* be lost.
CreateServer(p) ==
  /\ HasClients("platform") /\ platPc[p] = "insert"
  /\ indexed => \A s \in servers : s.id # platBody[p]
  /\ servers' = servers \cup {[id |-> platBody[p], by |-> p, node |-> NodeOf(platBody[p])]}
  /\ \E l \in {"register", "done"} : Keep(p, l)
  /\ UNCHANGED <<opened, registry>>

\* RegisterActor; without its answer the creation is reported as failed.
RegisterServer(p) ==
  /\ HasClients("platform") /\ platPc[p] = "register"
  /\ registry' = registry \cup {[id |-> platBody[p], node |-> NodeOf(platBody[p])]}
  /\ opened' \in {opened, opened \cup {p}}
  /\ Keep(p, "done") /\ UNCHANGED servers

\* A command fails or is refused: a server may be stored and not registered.
ServerFails(p) ==
  /\ platPc[p] \in {"insert", "register"} /\ Keep(p, "done")
  /\ UNCHANGED <<opened, servers, registry>>

-----------------------------------------------------------------------------
(* The handlers of the login service *)

UnchangedOthers == UNCHANGED <<platVars, kind, at>>
Authenticated(r, k) == kind[r] = k /\ pc[r] = "lock"

\* A request ends with its response.
Respond(r) ==
  /\ Goto(r, "done")
  /\ UNCHANGED <<body, account, character, left, ttl, created, auth, stored, characterSeq>>

\* GetServer
ServerExists(id) == \E s \in servers : s.id = id

\* checkServerAvailable; a server that is not there is a failure.
CheckServer(r) ==
  /\ Authenticated(r, "create") /\ HasClients("login") /\ r \notin checked
  /\ ServerExists(body[r].server)
  /\ checked' = checked \cup {r}
  /\ UNCHANGED <<vars, tokens>> /\ UnchangedOthers

\* Mutant: the server is not checked.
MayLockUnchecked(r) == kind[r] = "create"

MayLock(r) == kind[r] = "create" /\ r \in checked

\* The steps of LoginService while the process has the clients they need.
Handle(r) ==
  /\ HasClients("login")
  /\ \/ Accepts("login") /\ FindAccount(r)
     \/ GenAccountID(r) \/ CreateOrGetAccount(r)
     \/ MayLock(r) /\ LockAccount(r)
     \/ CountAccount(r) \/ CountServer(r) \/ Refresh(r) \/ RefreshAnswered(r)
     \/ GenCharacterID(r) \/ InsertCharacter(r) \/ SetActorServer(r) \/ Unlock(r) \/ Fails(r)
  /\ UNCHANGED <<checked, tokens>> /\ UnchangedOthers

\* handleCharacterList and handleServerList only read.
List(r) ==
  /\ Authenticated(r, "list") /\ HasClients("login")
  /\ Respond(r)
  /\ UNCHANGED <<checked, tokens>> /\ UnchangedOthers

\* Mutant: the account of the character is not compared.
OwnsAny(r, c) == TRUE

Owns(r, c) == c.account = account[r]

\* genLoginAgentToken: signed for five minutes.
genLoginAgentToken(r, c) ==
  [user |-> body[r].user, account |-> account[r], character |-> c.id, server |-> c.server]

\* handleCharacterLogin: a token for a character the client names, which may
\* be of another account.
LoginCharacter(r) ==
  /\ Authenticated(r, "login") /\ HasClients("login")
  /\ \E c \in characters :
       /\ Owns(r, c)
       /\ tokens' = tokens \cup {genLoginAgentToken(r, c)}
  /\ Respond(r)
  /\ UNCHANGED checked /\ UnchangedOthers

TimePasses == Tick /\ UNCHANGED <<platVars, loginVars, at>>

-----------------------------------------------------------------------------

ServicesInit ==
  /\ Init
  /\ kind \in [Requests -> Kinds] /\ checked = {} /\ tokens = {}
  /\ at = [s \in ServiceNames |-> 0] /\ indexed = FALSE
  /\ platPc = [p \in Creators |-> "new"] /\ platBody \in [Creators -> Servers]
  /\ opened = {} /\ servers = {} /\ registry = {}

ServicesNext ==
  \/ \E s \in ServiceNames : Advance(s)
  \/ PlatformDies
  \/ \E p \in Creators : AcceptServer(p) \/ CreateServer(p) \/ RegisterServer(p) \/ ServerFails(p)
  \/ \E r \in Requests : CheckServer(r) \/ Handle(r) \/ List(r) \/ LoginCharacter(r)
  \/ TimePasses

ServicesSpec == ServicesInit /\ [][ServicesNext]_servicesVars

-----------------------------------------------------------------------------
(* Properties *)

\* A server whose creation is reported has one document, its own, and its
\* actor is registered at the node the document names, whatever other
\* creations of its id did and however often the platform died between its
\* steps (handleServerCreate, EnsureIndexes before startHttp).
ReportedServerRuns ==
  \A p \in opened :
    LET own == {s \in servers : s.id = platBody[p]} IN
      /\ own = {[id |-> platBody[p], by |-> p, node |-> NodeOf(platBody[p])]}
      /\ \A s \in own : {x \in registry : x.id = s.id} = {[id |-> s.id, node |-> s.node]}

\* No character is created for a server that does not exist
\* (checkServerAvailable).
CharactersHaveServers ==
  \A c \in characters : \E s \in servers : s.id = c.server

\* A token names a stored character, the server it was created for and the
\* user whose account it belongs to, although any user may ask for any
\* character and accounts are created in a race (handleCharacterLogin).
TokenNamesOwner ==
  \A t \in tokens :
    /\ [id |-> t.character, account |-> t.account, server |-> t.server] \in characters
    /\ {u \in Users : accounts[u] = t.account} = {t.user}
=============================================================================
