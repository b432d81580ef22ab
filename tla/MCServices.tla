------------------------------ MODULE MCServices ------------------------------
(* Two kinds of instances of Services in one run: servers come and go while  *)
(* a request creates a character and another one does something else, and    *)
(* all servers are there while up to three requests create characters.       *)
EXTENDS Services, TLC

Creating == {r \in Requests : kind[r] = "create"}

\* One request has ended before the others begin.
FewInit ==
  /\ \E r \in Requests : pc = [q \in Requests |-> IF q = r THEN "done" ELSE "auth"]
  /\ body \in [Requests -> [user : Users, server : Servers]]
  /\ kind \in [Requests -> Kinds] /\ Cardinality(Creating) = 1
  /\ \A r \in Requests : pc[r] = "done" =>
       kind[r] = "list" /\ \E q \in Creating : body[r].user = body[q].user
  /\ at = [s \in ServiceNames |-> 0] /\ indexed = FALSE
  /\ platPc = [p \in Creators |-> "new"]
  /\ \E s \in Servers :
       /\ platBody = [p \in Creators |-> s]
       /\ \A r \in Requests : kind[r] # "create" => body[r].server = s
  /\ opened = {} /\ servers = {} /\ registry = {}

ManyInit ==
  /\ pc = [q \in Requests |-> "auth"]
  /\ body \in [Requests -> [user : Users, server : Servers]]
  /\ Cardinality({body[r].user : r \in Requests}) = 1
  /\ kind = [r \in Requests |-> "create"]
  /\ at = [s \in ServiceNames |-> IF s = "login" THEN 2 ELSE Len(Steps(s))] /\ indexed = TRUE
  /\ platPc = [p \in Creators |-> "done"]
  /\ platBody \in [Creators -> Servers] /\ {platBody[p] : p \in Creators} = Servers
  /\ servers = {[id |-> platBody[p], by |-> p, node |-> NodeOf(platBody[p])] : p \in Creators}
  /\ registry = {[id |-> s, node |-> NodeOf(s)] : s \in Servers}
  /\ opened = Creators

MCInit ==
  /\ FewInit \/ ManyInit
  /\ account = [r \in Requests |-> 0] /\ character = [r \in Requests |-> 0]
  /\ left = [r \in Requests |-> 0] /\ ttl = [r \in Requests |-> 0]
  /\ created = {} /\ checked = {} /\ tokens = {}
  /\ accounts = [u \in Users |-> 0] /\ accountSeq = 0
  /\ characters = {} /\ characterSeq = 0 /\ routes = {} /\ late = {}

\* Bound: the services neither start nor stop while all requests create.
MCNext == ServicesNext /\ (Creating = Requests => at' = at)

MCSpec == MCInit /\ [][MCNext]_servicesVars

\* Requests, users, servers and creations are interchangeable.
Symmetry == Permutations(Requests) \cup Permutations(Users) \cup Permutations(Servers)
              \cup Permutations(Creators)
=============================================================================
