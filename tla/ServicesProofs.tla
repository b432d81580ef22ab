--------------------------- MODULE ServicesProofs ---------------------------
(***************************************************************************)
(* Proofs about Services, for every set of requests, users, servers and    *)
(* creations of servers.                                                   *)
(***************************************************************************)
EXTENDS Services, LoginServiceProofs

-----------------------------------------------------------------------------
(* The service implements LoginService *)

(* A response leaves only where the request was: to LoginService it is a   *)
(* request that ends with an error before it locks.                        *)
LEMMA RespondRefines ==
    ASSUME NEW r \in Requests, pc[r] = "lock", Respond(r)
    PROVE  Next
<1>1. Fails(r)
  BY DEF Respond, Fails, Unlocked
<1>2. QED
  BY <1>1 DEF Next

LEMMA HandleRefines ==
    ASSUME NEW r \in Requests, Handle(r)
    PROVE  Next
<1>1. Authenticate(r) \/ Create(r) \/ Fails(r)
  BY Zenon DEF Handle, Authenticate, Create
<1>2. QED
  BY <1>1 DEF Next

LEMMA StepRefines == [ServicesNext]_servicesVars => [Next]_vars
<1> SUFFICES ASSUME [ServicesNext]_servicesVars PROVE [Next]_vars
  OBVIOUS
<1>1. ASSUME NEW s \in ServiceNames, Advance(s) PROVE [Next]_vars
  BY <1>1 DEF Advance
<1>2. CASE PlatformDies
  BY <1>2 DEF PlatformDies
<1>3. ASSUME NEW p \in Creators,
             AcceptServer(p) \/ CreateServer(p) \/ RegisterServer(p) \/ ServerFails(p)
      PROVE  [Next]_vars
  BY <1>3 DEF AcceptServer, CreateServer, RegisterServer, ServerFails, Keep
<1>4. ASSUME NEW r \in Requests, CheckServer(r) PROVE [Next]_vars
  BY <1>4 DEF CheckServer
<1>5. ASSUME NEW r \in Requests, Handle(r) PROVE [Next]_vars
  BY <1>5, HandleRefines
<1>6. ASSUME NEW r \in Requests, List(r) \/ LoginCharacter(r) PROVE [Next]_vars
  <2>1. pc[r] = "lock" /\ Respond(r)
    BY <1>6 DEF List, LoginCharacter, Authenticated
  <2>2. QED
    BY <2>1, RespondRefines
<1>7. CASE TimePasses
  BY <1>7 DEF TimePasses, Next
<1>8. CASE UNCHANGED servicesVars
  BY <1>8 DEF servicesVars
<1>9. QED
  BY <1>1, <1>2, <1>3, <1>4, <1>5, <1>6, <1>7, <1>8 DEF ServicesNext

LEMMA ServicesImplements == ServicesSpec => Spec
<1>1. ServicesInit => Init
  BY DEF ServicesInit
<1>2. QED
  BY <1>1, StepRefines, PTL DEF ServicesSpec, Spec

(* What LoginService keeps, the service keeps.                             *)
LEMMA ServicesTypeInv == ServicesSpec => []TypeInv
<1>1. QED
  BY ServicesImplements, TypeInvariant, PTL

(* Among the characters inserted in time the limits hold in the service    *)
(* with all its handlers, whenever it starts and stops.                    *)
THEOREM ServicesLimit == ServicesSpec => []LimitUnderLock
<1>1. QED
  BY ServicesImplements, LimitHolds, PTL

-----------------------------------------------------------------------------
(* Servers *)

Document(p) == [id |-> platBody[p], by |-> p, node |-> NodeOf(platBody[p])]
Entry(id) == [id |-> id, node |-> NodeOf(id)]

(* The platform has its indexes before it serves, and keeps them when it   *)
(* dies.                                                                   *)
IndexInv ==
  /\ at \in [ServiceNames -> Nat] /\ at["platform"] <= 5
  /\ at["platform"] >= 2 => indexed

(* Documents are unique by id, name the node of their id, and are there    *)
(* before the actor is registered.                                         *)
ServersInv ==
  /\ platPc \in [Creators -> {"new", "insert", "register", "done"}]
  /\ opened \subseteq Creators
  /\ \A s, t \in servers : s.id = t.id => s = t
  /\ \A p \in Creators : platPc[p] = "register" \/ p \in opened => Document(p) \in servers
  /\ \A p \in opened : Entry(platBody[p]) \in registry
  /\ \A x \in registry : x = Entry(x.id)

LEMMA IndexInit == ServicesInit => IndexInv
BY DEF ServicesInit, IndexInv, ServiceNames

LEMMA IndexNext == IndexInv /\ [ServicesNext]_servicesVars => IndexInv'
<1> SUFFICES ASSUME IndexInv, [ServicesNext]_servicesVars PROVE IndexInv'
  OBVIOUS
<1>1. ASSUME NEW s \in ServiceNames, Advance(s) PROVE IndexInv'
  <2>1. indexed => indexed'
    BY <1>1, Zenon DEF Advance
  <2>2. at' = [at EXCEPT ![s] = @ + 1] /\ at[s] # Len(Steps(s))
    BY <1>1 DEF Advance, Exited
  <2>3. CASE s = "platform"
    <3>1. at'["platform"] = at["platform"] + 1 /\ at["platform"] # 5
      BY <2>2, <2>3 DEF IndexInv, Steps, PlatformSteps, ServiceNames
    <3>2. at["platform"] = 1 => Steps(s)[at'[s]] = "indexes"
      BY <2>3, <3>1 DEF Steps, PlatformSteps
    <3>3. at["platform"] = 1 => indexed'
      BY <1>1, <3>2, Zenon DEF Advance
    <3>4. at["platform"] >= 2 => indexed'
      BY <2>1 DEF IndexInv
    <3>5. at["platform"] \in Nat /\ at["platform"] <= 5
      BY DEF IndexInv, ServiceNames
    <3>6. /\ at'["platform"] <= 5
          /\ at'["platform"] >= 2 => at["platform"] = 1 \/ at["platform"] >= 2
      BY <3>1, <3>5
    <3>7. at' \in [ServiceNames -> Nat]
      BY <2>2 DEF IndexInv
    <3>8. QED
      BY <3>3, <3>4, <3>6, <3>7, Zenon DEF IndexInv
  <2>4. CASE s # "platform"
    <3>1. at' \in [ServiceNames -> Nat] /\ at'["platform"] = at["platform"]
      BY <2>2, <2>4 DEF IndexInv, ServiceNames
    <3>2. QED
      BY <2>1, <3>1, Zenon DEF IndexInv
  <2>5. QED
    BY <2>3, <2>4
<1>2. CASE PlatformDies
  BY <1>2 DEF PlatformDies, IndexInv, ServiceNames
<1>3. CASE UNCHANGED <<at, indexed>>
  BY <1>3 DEF IndexInv
<1>4. UNCHANGED <<at, indexed>> \/ PlatformDies \/ \E s \in ServiceNames : Advance(s)
  BY DEF ServicesNext, servicesVars, platVars, AcceptServer, CreateServer, RegisterServer,
         ServerFails, Keep, CheckServer, Handle, List, LoginCharacter, TimePasses, UnchangedOthers
<1>5. QED
  BY <1>1, <1>2, <1>3, <1>4

(* The platform has clients for a request only when it has its indexes.    *)
LEMMA ServesIndexed == IndexInv /\ HasClients("platform") => indexed
<1> SUFFICES ASSUME IndexInv, HasClients("platform") PROVE indexed
  OBVIOUS
<1>1. PICK i \in 1 .. at["platform"] : PlatformSteps[i] = "http"
  BY DEF HasClients, Did, Steps
<1>2. at["platform"] \in 0 .. 5
  BY DEF IndexInv, ServiceNames
<1>3. i = 3
  BY <1>1, <1>2 DEF PlatformSteps
<1>4. QED
  BY <1>2, <1>3 DEF IndexInv

LEMMA ServersInit == ServicesInit => ServersInv
BY DEF ServicesInit, ServersInv

LEMMA ServersNext == IndexInv /\ ServersInv /\ [ServicesNext]_servicesVars => ServersInv'
<1> SUFFICES ASSUME IndexInv, ServersInv, [ServicesNext]_servicesVars PROVE ServersInv'
  OBVIOUS
<1>1. ASSUME NEW p \in Creators, CreateServer(p) PROVE ServersInv'
  <2>1. \A s \in servers : s.id # platBody[p]
    BY <1>1, ServesIndexed DEF CreateServer
  <2>2. /\ servers' = servers \cup {Document(p)}
        /\ UNCHANGED <<opened, registry, platBody>>
        /\ \/ platPc' = [platPc EXCEPT ![p] = "register"]
           \/ platPc' = [platPc EXCEPT ![p] = "done"]
    BY <1>1 DEF CreateServer, Keep, Document
  <2>3. Document(p).id = platBody[p]
    BY DEF Document
  <2>4. \A q \in Creators : Document(q)' = Document(q)
    BY <2>2 DEF Document
  <2> HIDE DEF Document
  <2>5. \A s, t \in servers' : s.id = t.id => s = t
    BY <2>1, <2>2, <2>3 DEF ServersInv
  <2>6. QED
    BY <2>2, <2>4, <2>5 DEF ServersInv, Entry, NodeOf
<1>2. ASSUME NEW p \in Creators, RegisterServer(p) PROVE ServersInv'
  <2>1. /\ platPc[p] = "register"
        /\ registry' = registry \cup {Entry(platBody[p])}
        /\ opened' \in {opened, opened \cup {p}}
        /\ platPc' = [platPc EXCEPT ![p] = "done"]
        /\ UNCHANGED <<servers, platBody>>
    BY <1>2 DEF RegisterServer, Keep, Entry
  <2>2. Entry(platBody[p]).id = platBody[p]
    BY DEF Entry
  <2>3. \A q \in Creators : Document(q)' = Document(q)
    BY <2>1 DEF Document
  <2>4. \A x \in registry' : x = Entry(x.id)
    BY <2>1, <2>2 DEF ServersInv
  <2>5. QED
    BY <2>1, <2>3, <2>4 DEF ServersInv
<1>3. ASSUME NEW p \in Creators, AcceptServer(p) \/ ServerFails(p) PROVE ServersInv'
  BY <1>3 DEF AcceptServer, ServerFails, Keep, ServersInv, Document, Entry, NodeOf
<1>4. CASE PlatformDies
  BY <1>4 DEF PlatformDies, ServersInv, Document, Entry, NodeOf
<1>5. CASE UNCHANGED <<platPc, platBody, opened, servers, registry>>
  BY <1>5 DEF ServersInv, Document, Entry, NodeOf
<1>6. \/ UNCHANGED <<platPc, platBody, opened, servers, registry>> \/ PlatformDies
      \/ \E p \in Creators : AcceptServer(p) \/ CreateServer(p) \/ RegisterServer(p) \/ ServerFails(p)
  BY DEF ServicesNext, servicesVars, platVars, Advance, CheckServer, Handle, List,
         LoginCharacter, TimePasses, UnchangedOthers
<1>7. QED
  BY <1>1, <1>2, <1>3, <1>4, <1>5, <1>6

LEMMA ServersInvariant == ServicesSpec => [](IndexInv /\ ServersInv)
<1>1. QED
  BY IndexInit, IndexNext, ServersInit, ServersNext, PTL DEF ServicesSpec

(* A server whose creation was reported has one document and its actor is  *)
(* registered where the document says, for any number of creations of any  *)
(* ids and any deaths of the platform.                                     *)
THEOREM ReportedServersRun == ServicesSpec => []ReportedServerRuns
<1>1. ServersInv => ReportedServerRuns
  <2> SUFFICES ASSUME ServersInv, NEW p \in opened
               PROVE  /\ {s \in servers : s.id = platBody[p]} = {Document(p)}
                      /\ {x \in registry : x.id = platBody[p]} = {Entry(platBody[p])}
    BY DEF ReportedServerRuns, Document, Entry
  <2>1. Document(p) \in servers /\ Document(p).id = platBody[p]
    BY DEF ServersInv, Document
  <2>2. Entry(platBody[p]) \in registry /\ Entry(platBody[p]).id = platBody[p]
    BY DEF ServersInv, Entry
  <2>3. QED
    BY <2>1, <2>2, Zenon DEF ServersInv
<1>2. QED
  BY <1>1, ServersInvariant, PTL

(* The playability of reported characters carries over. *)
THEOREM ServicesPlayable == ServicesSpec => []ReportedIsPlayable
<1>1. QED
  BY ServicesImplements, ReportedPlayable, PTL

-----------------------------------------------------------------------------
(* Characters have servers *)

(* A request locks after its server was found, and servers are never       *)
(* removed.                                                                *)
CheckedInv ==
  /\ \A r \in Requests : pc[r] \in Locked => r \in checked
  /\ \A r \in checked : ServerExists(body[r].server)

LEMMA CheckedNext ==
    TypeInv /\ CheckedInv /\ CharactersHaveServers /\ [ServicesNext]_servicesVars
      => CheckedInv' /\ CharactersHaveServers'
<1> SUFFICES ASSUME TypeInv, CheckedInv, CharactersHaveServers, [ServicesNext]_servicesVars
             PROVE  CheckedInv' /\ CharactersHaveServers'
  OBVIOUS
<1>1. CASE UNCHANGED <<pc, body, checked, characters>> /\ servers \subseteq servers'
  BY <1>1 DEF CheckedInv, CharactersHaveServers, ServerExists
<1>2. ASSUME NEW r \in Requests, CheckServer(r) PROVE CheckedInv' /\ CharactersHaveServers'
  BY <1>2 DEF CheckServer, UnchangedOthers, platVars, vars, CheckedInv, CharactersHaveServers, ServerExists
<1>3. ASSUME NEW r \in Requests, List(r) \/ LoginCharacter(r)
      PROVE  CheckedInv' /\ CharactersHaveServers'
  <2>1. pc' = [pc EXCEPT ![r] = "done"] /\ UNCHANGED <<body, checked, characters, servers>>
    BY <1>3 DEF List, LoginCharacter, Respond, Goto, UnchangedOthers, platVars, stored
  <2>2. QED
    BY <2>1 DEF CheckedInv, CharactersHaveServers, ServerExists, Locked, TypeInv, TypeOK
<1>4. ASSUME NEW r \in Requests, Handle(r) PROVE CheckedInv' /\ CharactersHaveServers'
  <2>1. UNCHANGED <<checked, servers>>
    BY <1>4 DEF Handle, UnchangedOthers, platVars
  <2>2. CASE FindAccount(r) \/ GenAccountID(r) \/ CreateOrGetAccount(r)
    <3>1. /\ UNCHANGED <<body, characters>>
          /\ \A q \in Requests : pc'[q] \in Locked => pc[q] \in Locked
      BY <2>2 DEF FindAccount, GenAccountID, CreateOrGetAccount, Goto, stored, TypeInv, TypeOK, Locked
    <3>2. QED
      BY <2>1, <3>1 DEF CheckedInv, CharactersHaveServers, ServerExists
  <2>3. CASE MayLock(r) /\ LockAccount(r)
    <3>1. /\ UNCHANGED <<body, characters>> /\ r \in checked
          /\ \A q \in Requests : q # r => pc'[q] = pc[q]
      BY <2>3 DEF MayLock, LockAccount, Goto, stored, TypeInv, TypeOK
    <3>2. QED
      BY <2>1, <3>1 DEF CheckedInv, CharactersHaveServers, ServerExists
  <2>4. CASE CountAccount(r) \/ CountServer(r) \/ Refresh(r) \/ RefreshAnswered(r)
               \/ GenCharacterID(r) \/ SetActorServer(r) \/ Unlock(r) \/ Fails(r)
    <3>1. UNCHANGED <<body, characters>>
      BY <2>4 DEF CountAccount, CountServer, Refresh, RefreshAnswered, GenCharacterID,
                  SetActorServer, Unlock, Fails, stored
    <3>2. \A q \in Requests : pc'[q] \in Locked => pc[q] \in Locked
      BY <2>4 DEF CountAccount, CountServer, Refresh, RefreshAnswered, GenCharacterID,
                  SetActorServer, Unlock, Fails, Goto, Issue, TypeInv, TypeOK, Locked, Unlocked
    <3>3. QED
      BY <2>1, <3>1, <3>2 DEF CheckedInv, CharactersHaveServers, ServerExists
  <2>5. CASE InsertCharacter(r)
    <3>1. /\ characters' = characters \cup
                {[id |-> character[r], account |-> account[r], server |-> body[r].server]}
          /\ UNCHANGED body /\ pc[r] = "insert"
          /\ \A q \in Requests : q # r => pc'[q] = pc[q]
      BY <2>5 DEF InsertCharacter, Goto, TypeInv, TypeOK
    <3>2. r \in checked /\ ServerExists(body[r].server)
      BY <3>1 DEF CheckedInv, Locked
    <3>3. QED
      BY <2>1, <3>1, <3>2 DEF CheckedInv, CharactersHaveServers, ServerExists
  <2>6. QED
    BY <1>4, <2>2, <2>3, <2>4, <2>5, Zenon DEF Handle
<1>5. ASSUME NEW s \in ServiceNames, Advance(s) PROVE UNCHANGED <<pc, body, checked, characters, servers>>
  BY <1>5 DEF Advance, vars, loginVars
<1>6. CASE PlatformDies \/ TimePasses
  BY <1>1, <1>6 DEF PlatformDies, TimePasses, Tick, platVars, loginVars, stored, vars
<1>7. ASSUME NEW p \in Creators, AcceptServer(p) \/ CreateServer(p) \/ RegisterServer(p) \/ ServerFails(p)
      PROVE  UNCHANGED <<pc, body, checked, characters>> /\ servers \subseteq servers'
  BY <1>7 DEF AcceptServer, CreateServer, RegisterServer, ServerFails, Keep, vars, loginVars
<1>8. CASE UNCHANGED servicesVars
  BY <1>1, <1>8 DEF servicesVars, vars, platVars, loginVars
<1>9. QED
  BY <1>1, <1>2, <1>3, <1>4, <1>5, <1>6, <1>7, <1>8 DEF ServicesNext

(* No character is ever created for a server that does not exist, for any  *)
(* number of requests and of servers created meanwhile.                    *)
THEOREM CharactersOnServers == ServicesSpec => []CharactersHaveServers
<1>1. ServicesInit => CheckedInv /\ CharactersHaveServers
  BY DEF ServicesInit, Init, CheckedInv, CharactersHaveServers, Locked
<1>2. QED
  BY <1>1, ServicesTypeInv, CheckedNext, PTL DEF ServicesSpec

-----------------------------------------------------------------------------
(* Tokens *)

(* Ids of accounts are generated once, so that no two documents share one. *)
IdsInv ==
  /\ \A u \in Users : accounts[u] <= accountSeq
  /\ \A u, v \in Users : accounts[u] = accounts[v] /\ accounts[u] # 0 => u = v
  /\ \A r \in Requests : pc[r] = "upsert" =>
       /\ account[r] <= accountSeq /\ \A u \in Users : accounts[u] # account[r]
       /\ \A q \in Requests : pc[q] = "upsert" /\ account[q] = account[r] => q = r

(* A token was issued for a character and the account of its user.         *)
TokensInv ==
  \A t \in tokens :
    /\ t.user \in Users /\ t.account # 0 /\ accounts[t.user] = t.account
    /\ [id |-> t.character, account |-> t.account, server |-> t.server] \in characters

LEMMA IdsNext == TypeInv /\ IdsInv /\ [Next]_vars => IdsInv'
<1> SUFFICES ASSUME TypeInv, IdsInv, [Next]_vars PROVE IdsInv'
  OBVIOUS
<1> USE DEF TypeInv, TypeOK, HasIds
<1>1. ASSUME NEW r \in Requests, FindAccount(r) PROVE IdsInv'
  BY <1>1 DEF FindAccount, Goto, auth, IdsInv
<1>2. ASSUME NEW r \in Requests, GenAccountID(r) PROVE IdsInv'
  BY <1>2 DEF GenAccountID, Goto, IdsInv
<1>3. ASSUME NEW r \in Requests, CreateOrGetAccount(r) PROVE IdsInv'
  <2> DEFINE u == body[r].user
  <2>1. /\ pc[r] = "upsert" /\ u \in Users /\ account[r] # 0
        /\ \A q \in Requests : pc'[q] = "upsert" => q # r /\ pc[q] = "upsert" /\ account'[q] = account[q]
        /\ UNCHANGED accountSeq
        /\ accounts' = [accounts EXCEPT ![u] = IF @ = 0 THEN account[r] ELSE @]
    BY <1>3 DEF CreateOrGetAccount, Goto
  <2>2. \A v \in Users : accounts'[v] = accounts[v] \/ (v = u /\ accounts'[v] = account[r])
    BY <2>1
  <2> HIDE DEF u
  <2>3. QED
    BY <2>1, <2>2 DEF IdsInv
<1>4. CASE UNCHANGED <<account, accounts, accountSeq>>
           /\ \A r \in Requests : pc'[r] = "upsert" => pc[r] = "upsert"
  BY <1>4 DEF IdsInv
<1>5. ASSUME NEW r \in Requests, Create(r) \/ Fails(r)
      PROVE  UNCHANGED <<account, accounts, accountSeq>>
             /\ \A q \in Requests : pc'[q] = "upsert" => pc[q] = "upsert"
  BY <1>5 DEF Create, LockAccount, CountAccount, CountServer, Refresh, RefreshAnswered,
              GenCharacterID, InsertCharacter, SetActorServer, Unlock, Fails, Goto, Issue, auth
<1>6. CASE Tick \/ UNCHANGED vars
  BY <1>4, <1>6 DEF Tick, vars, auth
<1>7. QED
  BY <1>1, <1>2, <1>3, <1>4, <1>5, <1>6 DEF Next, Authenticate

(* Documents of accounts and of characters are never replaced.             *)
LEMMA DocumentsStay ==
    TypeInv /\ [Next]_vars =>
      /\ characters \subseteq characters'
      /\ \A u \in Users : accounts[u] # 0 => accounts'[u] = accounts[u]
<1> SUFFICES ASSUME TypeInv, [Next]_vars
             PROVE  /\ characters \subseteq characters'
                    /\ \A u \in Users : accounts[u] # 0 => accounts'[u] = accounts[u]
  OBVIOUS
<1>1. ASSUME NEW r \in Requests, CreateOrGetAccount(r)
      PROVE  /\ characters \subseteq characters'
             /\ \A u \in Users : accounts[u] # 0 => accounts'[u] = accounts[u]
  BY <1>1 DEF CreateOrGetAccount, stored, TypeInv, TypeOK
<1>2. ASSUME NEW r \in Requests, FindAccount(r) \/ GenAccountID(r) \/ Create(r) \/ Fails(r)
      PROVE  UNCHANGED accounts /\ characters \subseteq characters'
  BY <1>2 DEF FindAccount, GenAccountID, Create, LockAccount, CountAccount, CountServer, Refresh,
              RefreshAnswered, GenCharacterID, InsertCharacter, SetActorServer, Unlock, Fails,
              auth, stored
<1>3. CASE Tick \/ UNCHANGED vars
  BY <1>3 DEF Tick, vars, auth, stored
<1>4. QED
  BY <1>1, <1>2, <1>3 DEF Next, Authenticate

LEMMA TokensNext ==
    TypeInv /\ AccountInv /\ TokensInv /\ [ServicesNext]_servicesVars => TokensInv'
<1> SUFFICES ASSUME TypeInv, AccountInv, TokensInv, [ServicesNext]_servicesVars PROVE TokensInv'
  OBVIOUS
<1>1. /\ characters \subseteq characters'
      /\ \A u \in Users : accounts[u] # 0 => accounts'[u] = accounts[u]
  BY StepRefines, DocumentsStay
<1>2. CASE UNCHANGED tokens
  BY <1>1, <1>2 DEF TokensInv
<1>3. ASSUME NEW r \in Requests, LoginCharacter(r) PROVE TokensInv'
  <2>1. PICK c \in characters :
          Owns(r, c) /\ tokens' = tokens \cup {genLoginAgentToken(r, c)}
    BY <1>3 DEF LoginCharacter
  <2>2. pc[r] = "lock" /\ UNCHANGED <<accounts, characters>>
    BY <1>3 DEF LoginCharacter, Authenticated, Respond, auth, stored
  <2> DEFINE t == genLoginAgentToken(r, c)
  <2>3. /\ t.user = body[r].user /\ t.user \in Users
        /\ t.account = account[r] /\ t.account = c.account /\ t.account # 0
        /\ t.character = c.id /\ t.server = c.server
    BY <2>1, <2>2 DEF genLoginAgentToken, Owns, TypeInv, TypeOK, HasIds
  <2>4. accounts[t.user] = t.account
    BY <2>2, <2>3 DEF AccountInv
  <2>5. [id |-> t.character, account |-> t.account, server |-> t.server] = c
    BY <2>3 DEF TypeInv, TypeOK
  <2> HIDE DEF t
  <2>6. QED
    BY <2>1, <2>2, <2>3, <2>4, <2>5 DEF TokensInv, t
<1>4. UNCHANGED tokens \/ \E r \in Requests : LoginCharacter(r)
  BY DEF ServicesNext, servicesVars, loginVars, Advance, PlatformDies, AcceptServer, CreateServer,
         RegisterServer, ServerFails, Keep, CheckServer, Handle, List, TimePasses
<1>5. QED
  BY <1>2, <1>3, <1>4

(* A token names a stored character, its server and the one user whose     *)
(* account it belongs to, whoever asks and however accounts are created.   *)
THEOREM TokensNameOwners == ServicesSpec => []TokenNamesOwner
<1>1. ServicesInit => IdsInv /\ AccountInv /\ TokensInv
  BY DEF ServicesInit, Init, IdsInv, AccountInv, TokensInv, Locked
<1>2. ASSUME IdsInv, TokensInv PROVE TokenNamesOwner
  <2> SUFFICES ASSUME NEW t \in tokens
      PROVE  /\ {u \in Users : accounts[u] = t.account} = {t.user}
             /\ [id |-> t.character, account |-> t.account, server |-> t.server] \in characters
    BY DEF TokenNamesOwner
  <2>1. /\ t.user \in Users /\ t.account # 0 /\ accounts[t.user] = t.account
        /\ [id |-> t.character, account |-> t.account, server |-> t.server] \in characters
    BY <1>2 DEF TokensInv
  <2>2. \A u \in Users : accounts[u] = t.account => u = t.user
    BY <1>2, <2>1 DEF IdsInv
  <2>3. QED
    BY <2>1, <2>2
<1>3. QED
  BY <1>1, <1>2, ServicesTypeInv, StepRefines, IdsNext, AccountNext, TokensNext, PTL DEF ServicesSpec
=============================================================================
