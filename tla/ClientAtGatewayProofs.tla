------------------------- MODULE ClientAtGatewayProofs -------------------------
(***************************************************************************)
(* Proofs about ClientAtGateway, for every set of nodes, commands and      *)
(* items, every list of initial items and every bound.                     *)
(***************************************************************************)
EXTENDS ClientAtGateway, Iteration, TLAPS

-----------------------------------------------------------------------------
(* Start of the gateway *)

LEMMA OrderOfStart ==
  /\ Len(StartOrder) = 10
  /\ StartOrder[1] = "config" /\ StartOrder[2] = "beforeStart" /\ StartOrder[3] = "redis"
  /\ StartOrder[4] = "crypto" /\ StartOrder[5] = "actorClient" /\ StartOrder[6] = "nodeSelector"
  /\ StartOrder[7] = "startCluster" /\ StartOrder[8] = "cluster" /\ StartOrder[9] = "listener"
  /\ StartOrder[10] = "http"
  BY DEF StartOrder

(* The cluster calls back from its seventh step on, and connections come   *)
(* from the ninth.                                                         *)
StartInv ==
  /\ started \in 0 .. 10
  /\ following => started >= 7
  /\ conn # "none" => started >= 9

LEMMA StartInit == Init => StartInv
  BY DEF Init, NodeInit, GateInit, StartInv

LEMMA StartNext == StartInv /\ [Next]_vars => StartInv'
<1> SUFFICES ASSUME StartInv, [Next]_vars PROVE StartInv'
  OBVIOUS
<1> USE DEF StartInv
<1>1. ASSUME UNCHANGED <<started, following>>, conn' # "none" => conn # "none" PROVE StartInv'
  BY <1>1
<1>2. CASE StartStep
  BY <1>2, OrderOfStart DEF StartStep, nodeVars
<1>3. CASE StartFails \/ Exit \/ LocationExpires
  BY <1>1, <1>3 DEF StartFails, Exit, LocationExpires, nodeVars
<1>4. CASE StopStep
  BY <1>1, <1>4 DEF StopStep, nodeVars
<1>5. CASE OnNodesSync
  BY <1>5, OrderOfStart DEF OnNodesSync, ClusterRuns, Ready, SetNodes, gateVars
<1>6. CASE OnNodeEvents
  BY <1>1, <1>6 DEF OnNodeEvents, UpdateEvents, gateVars
<1>7. CASE CenterStep /\ UNCHANGED gateVars
  BY <1>1, <1>7 DEF CenterStep, CenterSees, gateVars
<1>8. CASE Serve
  BY <1>1, <1>8 DEF Serve, Accept, HandshakeFails, Locate, LocateFails, ConnectFails, AgentStops,
                    AgentCloses, ConnGoes, nodeVars
<1>9. CASE Dial
  BY <1>9, OrderOfStart DEF Dial, Listening, Ready, nodeVars
<1>10. CASE Exchange \/ ReadLogin \/ RefuseLogin \/ Connect
  BY <1>1, <1>10 DEF Exchange, ExchangeKeys, ReadLogin, RefuseLogin, Connect, ConnGoes, nodeVars
<1>11. CASE UNCHANGED <<nodeVars, gateVars>>
  BY <1>1, <1>11 DEF nodeVars, gateVars
<1>12. QED
  BY <1>2, <1>3, <1>4, <1>5, <1>6, <1>7, <1>8, <1>9, <1>10, <1>11
     DEF Next, vars, GatewayStep, StartStream, SeeClose, ActorLogsIn, ActorHandles

(* Callbacks of the cluster and connections find what their handlers use   *)
(* (HandlersFindAll), whatever fails and whenever they come.               *)
THEOREM HandlersAreReady == Spec => []HandlersFindAll
<1>1. StartInv => HandlersFindAll
  BY OrderOfStart DEF StartInv, HandlersFindAll, Ready
<1>2. QED
  BY <1>1, StartInit, StartNext, PTL DEF Spec

-----------------------------------------------------------------------------
(* The groups of nodes, event by event *)

(* The fold of the updates of a group, update by update.                   *)
LEMMA UpdateFold ==
  ASSUME NEW E, NEW s \in Seq(E), \A e \in E : e.node \in Nodes, NEW ids \in SUBSET Nodes
  PROVE  \E r \in [0 .. Len(s) -> SUBSET Nodes] :
           /\ r[0] = ids /\ r[Len(s)] = FoldLeft(UpdateOp, ids, s)
           /\ \A k \in 1 .. Len(s) : r[k] = UpdateOp(r[k - 1], s[k])
<1> DEFINE V == SUBSET Nodes
           n == Len(s)
           step == [vk \in V \X (1 .. n) |-> UpdateOp(vk[1], s[vk[2]])]
           F(f) == [t \in SUBSET DOMAIN s |->
                      IF t = {} THEN ids ELSE UpdateOp(f[t \ {Max(t)}], s[Max(t)])]
           f == CHOOSE f : f = F(f)
<1>1. n \in Nat /\ DOMAIN s = 1 .. n /\ \A k \in 1 .. n : s[k].node \in Nodes
  OBVIOUS
<1>2. step \in [V \X (1 .. n) -> V]
  BY <1>1 DEF UpdateOp
<1>3. PICK g : Iterates(g, n, V, ids, step)
  BY <1>1, <1>2, IterateExists
<1>4. ASSUME NEW t \in SUBSET (1 .. n), t # {} PROVE IsGreatest(Max(t), t) /\ Max(t) \in 1 .. n
  BY <1>1, <1>4, MaxIsGreatest DEF IsGreatest
<1>5. g = F(g)
  <2>1. ASSUME NEW t \in SUBSET (1 .. n), t # {} PROVE g[t] = UpdateOp(g[t \ {Max(t)}], s[Max(t)])
    BY <1>3, <1>4, <2>1 DEF Iterates, IsGreatest
  <2>2. QED
    BY <1>1, <1>3, <2>1 DEF Iterates
<1>6. f = F(f) /\ f[1 .. n] = FoldLeft(UpdateOp, ids, s)
  <2>1. f = F(f)
    BY <1>5
  <2>2. FoldLeft(UpdateOp, ids, s) = f[DOMAIN s]
    BY DEF FoldLeft, MapThenFoldSet
  <2>3. QED
    BY <1>1, <2>1, <2>2
<1> HIDE DEF f
<1>7. Folds(f, n, V, ids, step)
  <2>1. ASSUME NEW t \in SUBSET (1 .. n), t # {}, f[t \ {Max(t)}] \in V
        PROVE  f[t] = step[<<f[t \ {Max(t)}], Max(t)>>]
    BY <1>1, <1>4, <1>6, <2>1
  <2>2. QED
    BY <1>6, <2>1 DEF Folds
<1>8. PICK r : IsTrace(r, n, V, ids, step, f[1 .. n])
  <2> HIDE DEF V, step
  <2>1. ids \in V
    BY DEF V
  <2>2. QED
    BY <1>1, <1>2, <1>7, <2>1, FoldTrace
<1>9. \A k \in 1 .. n : k - 1 \in 0 .. n /\ r[k - 1] \in V
  BY <1>1, <1>8 DEF IsTrace
<1>10. QED
  BY <1>1, <1>6, <1>8, <1>9 DEF IsTrace

(* The updates of a group, event by event.                                 *)
InGroup(n, g) == acceptNode(n) /\ Group(n) = g

CollectsUpdates(r, E, s, g) ==
  /\ r \in [0 .. Len(s) -> Seq(E)] /\ r[0] = <<>> /\ r[Len(s)] = UpdatesOf(g, s)
  /\ \A k \in 1 .. Len(s) :
       r[k] = IF InGroup(s[k].node, g) THEN Append(r[k - 1], s[k]) ELSE r[k - 1]

LEMMA UpdatesFold ==
  ASSUME NEW E, NEW s \in Seq(E), NEW g
  PROVE  \E r : CollectsUpdates(r, E, s, g)
<1> DEFINE V == Seq(E)
           n == Len(s)
           Op(v, e) == IF acceptNode(e.node) /\ Group(e.node) = g THEN Append(v, e) ELSE v
           step == [vk \in V \X (1 .. n) |-> Op(vk[1], s[vk[2]])]
           F(f) == [t \in SUBSET DOMAIN s |->
                      IF t = {} THEN <<>> ELSE Op(f[t \ {Max(t)}], s[Max(t)])]
           f == CHOOSE f : f = F(f)
<1>1. n \in Nat /\ DOMAIN s = 1 .. n /\ \A k \in 1 .. n : s[k] \in E
  OBVIOUS
<1>2. step \in [V \X (1 .. n) -> V]
  BY <1>1
<1>3. PICK h : Iterates(h, n, V, <<>>, step)
  <2>1. <<>> \in V
    OBVIOUS
  <2> HIDE DEF V, step
  <2>2. QED
    BY <1>1, <1>2, <2>1, IterateExists
<1>4. ASSUME NEW t \in SUBSET (1 .. n), t # {} PROVE IsGreatest(Max(t), t) /\ Max(t) \in 1 .. n
  BY <1>1, <1>4, MaxIsGreatest DEF IsGreatest
<1>5. h = F(h)
  <2>1. ASSUME NEW t \in SUBSET (1 .. n), t # {} PROVE h[t] = Op(h[t \ {Max(t)}], s[Max(t)])
    BY <1>3, <1>4, <2>1 DEF Iterates, IsGreatest
  <2>2. QED
    BY <1>1, <1>3, <2>1 DEF Iterates
<1>6. f = F(f) /\ f[1 .. n] = UpdatesOf(g, s)
  <2>1. f = F(f)
    BY <1>5
  <2>2. UpdatesOf(g, s) = f[DOMAIN s]
    BY DEF UpdatesOf, FoldLeft, MapThenFoldSet
  <2>3. QED
    BY <1>1, <2>1, <2>2
<1> HIDE DEF f
<1>7. Folds(f, n, V, <<>>, step)
  <2>1. ASSUME NEW t \in SUBSET (1 .. n), t # {}, f[t \ {Max(t)}] \in V
        PROVE  f[t] = step[<<f[t \ {Max(t)}], Max(t)>>]
    BY <1>1, <1>4, <1>6, <2>1
  <2>2. QED
    BY <1>6, <2>1 DEF Folds
<1>8. PICK r : IsTrace(r, n, V, <<>>, step, f[1 .. n])
  <2>1. <<>> \in V
    OBVIOUS
  <2> HIDE DEF V, step
  <2>2. QED
    BY <1>1, <1>2, <1>7, <2>1, FoldTrace
<1>9. \A k \in 1 .. n : k - 1 \in 0 .. n /\ r[k - 1] \in V
  BY <1>1, <1>8 DEF IsTrace
<1>10. QED
  BY <1>1, <1>6, <1>8, <1>9 DEF IsTrace, CollectsUpdates, InGroup

-----------------------------------------------------------------------------
(* Events, and what is the last of a node *)

Mentions(s, n) == \E i \in 1 .. Len(s) : s[i].node = n
AddsLast(s, n) ==
  \E i \in 1 .. Len(s) :
    /\ s[i].node = n /\ s[i].type = "add"
    /\ \A j \in i + 1 .. Len(s) : s[j].node # n

LEMMA LastOfAppend ==
  ASSUME NEW E, NEW s \in Seq(E), NEW e \in E, NEW n
  PROVE  /\ Mentions(Append(s, e), n) <=> e.node = n \/ Mentions(s, n)
         /\ AddsLast(Append(s, e), n) <=>
               IF e.node = n THEN e.type = "add" ELSE AddsLast(s, n)
<1> DEFINE w == Append(s, e)
<1>1. /\ Len(s) \in Nat /\ Len(w) = Len(s) + 1 /\ w[Len(s) + 1] = e
      /\ \A i \in 1 .. Len(s) : w[i] = s[i]
  OBVIOUS
<1> HIDE DEF w
<1>2. Mentions(w, n) <=> e.node = n \/ Mentions(s, n)
  BY <1>1 DEF Mentions
<1>3. CASE e.node = n
  <2>1. ASSUME AddsLast(w, n) PROVE e.type = "add"
    <3>1. PICK i \in 1 .. Len(w) : /\ w[i].type = "add"
                                  /\ \A j \in i + 1 .. Len(w) : w[j].node # n
      BY <2>1 DEF AddsLast
    <3>2. i = Len(w)
      BY <1>1, <1>3, <3>1
    <3>3. QED
      BY <1>1, <3>1, <3>2
  <2>2. ASSUME e.type = "add" PROVE AddsLast(w, n)
    BY <1>1, <1>3, <2>2 DEF AddsLast
  <2>3. QED
    BY <1>2, <1>3, <2>1, <2>2 DEF w
<1>4. CASE e.node # n
  <2>1. ASSUME AddsLast(w, n) PROVE AddsLast(s, n)
    BY <1>1, <1>4, <2>1 DEF AddsLast
  <2>2. ASSUME AddsLast(s, n) PROVE AddsLast(w, n)
    <3>1. PICK i \in 1 .. Len(s) : /\ s[i].node = n /\ s[i].type = "add"
                                  /\ \A j \in i + 1 .. Len(s) : s[j].node # n
      BY <2>2 DEF AddsLast
    <3>2. \A j \in i + 1 .. Len(w) : w[j].node # n
      BY <1>1, <1>4, <3>1
    <3>3. QED
      BY <1>1, <3>1, <3>2 DEF AddsLast
  <2>3. QED
    BY <1>2, <1>4, <2>1, <2>2 DEF w
<1>5. QED
  BY <1>2, <1>3, <1>4 DEF w

LEMMA LastOfSplit ==
  ASSUME NEW E, NEW s \in Seq(E), NEW k \in 1 .. Len(s), NEW n
  PROVE  LET p == SubSeq(s, 1, k)
             q == SubSeq(s, k + 1, Len(s))
         IN  /\ Mentions(s, n) <=> Mentions(p, n) \/ Mentions(q, n)
             /\ Mentions(q, n) => (AddsLast(s, n) <=> AddsLast(q, n))
             /\ ~ Mentions(q, n) => (AddsLast(s, n) <=> AddsLast(p, n))
<1> DEFINE p == SubSeq(s, 1, k)
           q == SubSeq(s, k + 1, Len(s))
<1>1. /\ Len(s) \in Nat /\ Len(p) = k /\ Len(q) = Len(s) - k
      /\ \A i \in 1 .. k : p[i] = s[i]
      /\ \A i \in 1 .. Len(s) - k : q[i] = s[k + i]
  OBVIOUS
<1> HIDE DEF p, q
<1>2. \A i \in k + 1 .. Len(s) : i - k \in 1 .. Len(s) - k /\ s[i] = q[i - k]
  BY <1>1
<1>3. Mentions(q, n) <=> \E i \in k + 1 .. Len(s) : s[i].node = n
  <2>1. ASSUME NEW i \in 1 .. Len(q) PROVE k + i \in k + 1 .. Len(s) /\ q[i] = s[k + i]
    BY <1>1
  <2>2. ASSUME NEW i \in k + 1 .. Len(s) PROVE i - k \in 1 .. Len(q) /\ s[i] = q[i - k]
    BY <1>1, <1>2
  <2>3. ASSUME Mentions(q, n) PROVE \E i \in k + 1 .. Len(s) : s[i].node = n
    BY <2>1, <2>3 DEF Mentions
  <2>4. ASSUME NEW i \in k + 1 .. Len(s), s[i].node = n PROVE Mentions(q, n)
    BY <2>2, <2>4 DEF Mentions
  <2>5. QED
    BY <2>3, <2>4
<1>4. Mentions(s, n) <=> Mentions(p, n) \/ Mentions(q, n)
  BY <1>1, <1>3 DEF Mentions
<1>5. AddsLast(q, n) => AddsLast(s, n)
  <2> SUFFICES ASSUME AddsLast(q, n) PROVE AddsLast(s, n)
    OBVIOUS
  <2>1. PICK i \in 1 .. Len(q) : /\ q[i].node = n /\ q[i].type = "add"
                                /\ \A j \in i + 1 .. Len(q) : q[j].node # n
    BY DEF AddsLast
  <2>2. k + i \in 1 .. Len(s) /\ s[k + i].node = n /\ s[k + i].type = "add"
    BY <1>1, <2>1
  <2>3. ASSUME NEW j \in k + i + 1 .. Len(s) PROVE s[j].node # n
    <3>1. j - k \in i + 1 .. Len(q) /\ j \in k + 1 .. Len(s)
      BY <1>1, <2>1
    <3>2. QED
      BY <1>2, <2>1, <3>1
  <2>4. QED
    BY <2>2, <2>3 DEF AddsLast
<1>6. Mentions(q, n) /\ AddsLast(s, n) => AddsLast(q, n)
  <2> SUFFICES ASSUME Mentions(q, n), AddsLast(s, n) PROVE AddsLast(q, n)
    OBVIOUS
  <2>1. PICK i \in 1 .. Len(s) : /\ s[i].node = n /\ s[i].type = "add"
                                /\ \A j \in i + 1 .. Len(s) : s[j].node # n
    BY DEF AddsLast
  <2>2. i \in k + 1 .. Len(s)
    BY <1>1, <1>3, <2>1
  <2>3. i - k \in 1 .. Len(q) /\ q[i - k].node = n /\ q[i - k].type = "add"
    BY <1>1, <1>2, <2>1, <2>2
  <2>4. ASSUME NEW j \in (i - k) + 1 .. Len(q) PROVE q[j].node # n
    <3>1. j \in 1 .. Len(s) - k /\ k + j \in i + 1 .. Len(s)
      BY <1>1, <2>2
    <3>2. QED
      BY <1>1, <2>1, <3>1
  <2>5. QED
    BY <2>3, <2>4 DEF AddsLast
<1>7. ~ Mentions(q, n) => (AddsLast(s, n) <=> AddsLast(p, n))
  <2> SUFFICES ASSUME \A i \in k + 1 .. Len(s) : s[i].node # n
               PROVE  AddsLast(s, n) <=> AddsLast(p, n)
    BY <1>3
  <2>1. ASSUME AddsLast(s, n) PROVE AddsLast(p, n)
    BY <1>1, <2>1 DEF AddsLast
  <2>2. ASSUME AddsLast(p, n) PROVE AddsLast(s, n)
    <3>1. PICK i \in 1 .. k : /\ p[i].node = n /\ p[i].type = "add"
                             /\ \A j \in i + 1 .. k : p[j].node # n
      BY <1>1, <2>2 DEF AddsLast
    <3>2. \A j \in i + 1 .. Len(s) : s[j].node # n
      BY <1>1, <3>1
    <3>3. QED
      BY <1>1, <3>1, <3>2 DEF AddsLast
  <2>3. QED
    BY <2>1, <2>2
<1>8. QED
  BY <1>4, <1>5, <1>6, <1>7 DEF p, q

(* The fold of updates only depends on the last one of each node.          *)
LEMMA FoldLast ==
  ASSUME NEW E, NEW s \in Seq(E), \A e \in E : e.node \in Nodes, NEW ids \in SUBSET Nodes, NEW n
  PROVE  /\ FoldLeft(UpdateOp, ids, s) \in SUBSET Nodes
         /\ n \in FoldLeft(UpdateOp, ids, s) <=>
              IF Mentions(s, n) THEN AddsLast(s, n) ELSE n \in ids
<1>1. PICK r \in [0 .. Len(s) -> SUBSET Nodes] :
        /\ r[0] = ids /\ r[Len(s)] = FoldLeft(UpdateOp, ids, s)
        /\ \A k \in 1 .. Len(s) : r[k] = UpdateOp(r[k - 1], s[k])
  BY UpdateFold
<1> DEFINE p(k) == SubSeq(s, 1, k)
           Good(k) == n \in r[k] <=> IF Mentions(p(k), n) THEN AddsLast(p(k), n) ELSE n \in ids
           T == {k \in 0 .. Len(s) : Good(k)}
<1>2. /\ Len(s) \in Nat /\ p(0) = <<>> /\ p(Len(s)) = s
      /\ \A k \in 1 .. Len(s) :
           /\ p(k) = Append(p(k - 1), s[k]) /\ p(k - 1) \in Seq(E) /\ s[k] \in E
  BY PrefixSteps
<1>3. 0 \in T
  BY <1>1, <1>2 DEF Mentions
<1>4. ASSUME NEW k \in 1 .. Len(s), Good(k - 1) PROVE Good(k)
  <2> DEFINE q == p(k - 1)
  <2>0. p(k) = Append(q, s[k]) /\ q \in Seq(E) /\ s[k] \in E
    BY <1>2
  <2> HIDE DEF p, q
  <2>1. /\ Mentions(p(k), n) <=> s[k].node = n \/ Mentions(p(k - 1), n)
        /\ AddsLast(p(k), n) <=> IF s[k].node = n THEN s[k].type = "add" ELSE AddsLast(p(k - 1), n)
    BY <2>0, LastOfAppend DEF q
  <2>2. n \in r[k] <=> IF s[k].node = n THEN s[k].type = "add" ELSE n \in r[k - 1]
    BY <1>1 DEF UpdateOp
  <2>3. QED
    BY <1>4, <2>1, <2>2
<1>5. \A k \in 0 .. Len(s) - 1 : k \in T => k + 1 \in T
  <2> SUFFICES ASSUME NEW k \in 0 .. Len(s) - 1, Good(k) PROVE Good(k + 1)
    BY <1>2
  <2>1. PICK j \in 1 .. Len(s) : j = k + 1 /\ j - 1 = k
    BY <1>2
  <2> HIDE DEF Good
  <2>2. QED
    BY <1>4, <2>1
<1>6. Len(s) \in T
  <2> HIDE DEF T
  <2>1. 0 .. Len(s) \subseteq T
    BY <1>2, <1>3, <1>5, IntervalInduction
  <2>2. QED
    BY <1>2, <2>1
<1>7. QED
  BY <1>1, <1>2, <1>6

(* The updates of a group have the last event of each of its nodes.        *)
LEMMA UpdatesLast ==
  ASSUME NEW E, NEW s \in Seq(E), NEW g, NEW n
  PROVE  /\ UpdatesOf(g, s) \in Seq(E)
         /\ InGroup(n, g) =>
              /\ Mentions(UpdatesOf(g, s), n) <=> Mentions(s, n)
              /\ AddsLast(UpdatesOf(g, s), n) <=> AddsLast(s, n)
         /\ ~ InGroup(n, g) => ~ Mentions(UpdatesOf(g, s), n)
<1>1. PICK r : CollectsUpdates(r, E, s, g)
  BY UpdatesFold
<1> DEFINE p(k) == SubSeq(s, 1, k)
           Good(k) == /\ InGroup(n, g) =>
                           /\ Mentions(r[k], n) <=> Mentions(p(k), n)
                           /\ AddsLast(r[k], n) <=> AddsLast(p(k), n)
                      /\ ~ InGroup(n, g) => ~ Mentions(r[k], n)
           T == {k \in 0 .. Len(s) : Good(k)}
<1>2. /\ Len(s) \in Nat /\ p(0) = <<>> /\ p(Len(s)) = s
      /\ \A k \in 1 .. Len(s) :
           /\ p(k) = Append(p(k - 1), s[k]) /\ p(k - 1) \in Seq(E) /\ s[k] \in E
  BY PrefixSteps
<1>3. 0 \in T
  <2>1. r[0] = <<>> /\ p(0) = <<>> /\ ~ Mentions(<<>>, n)
    BY <1>1, <1>2 DEF Mentions, CollectsUpdates
  <2> HIDE DEF p
  <2>2. QED
    BY <1>2, <2>1
<1>4. ASSUME NEW k \in 1 .. Len(s), Good(k - 1) PROVE Good(k)
  <2> DEFINE q == p(k - 1)
  <2>0. p(k) = Append(q, s[k]) /\ q \in Seq(E) /\ s[k] \in E
    BY <1>2
  <2> HIDE DEF p, q
  <2>1. /\ Mentions(p(k), n) <=> s[k].node = n \/ Mentions(p(k - 1), n)
        /\ AddsLast(p(k), n) <=> IF s[k].node = n THEN s[k].type = "add" ELSE AddsLast(p(k - 1), n)
    BY <2>0, LastOfAppend DEF q
  <2>2. r[k - 1] \in Seq(E) /\ s[k] \in E
    BY <1>1, <1>2 DEF CollectsUpdates
  <2>3. InGroup(s[k].node, g) =>
          /\ Mentions(r[k], n) <=> s[k].node = n \/ Mentions(r[k - 1], n)
          /\ AddsLast(r[k], n) <=> IF s[k].node = n THEN s[k].type = "add" ELSE AddsLast(r[k - 1], n)
    BY <1>1, <2>2, LastOfAppend DEF CollectsUpdates
  <2>4. ~ InGroup(s[k].node, g) => r[k] = r[k - 1]
    BY <1>1 DEF CollectsUpdates
  <2>5. QED
    BY <1>4, <2>1, <2>3, <2>4
<1>5. \A k \in 0 .. Len(s) - 1 : k \in T => k + 1 \in T
  <2> SUFFICES ASSUME NEW k \in 0 .. Len(s) - 1, Good(k) PROVE Good(k + 1)
    BY <1>2
  <2>1. PICK j \in 1 .. Len(s) : j = k + 1 /\ j - 1 = k
    BY <1>2
  <2> HIDE DEF Good
  <2>2. QED
    BY <1>4, <2>1
<1>6. Len(s) \in T
  <2> HIDE DEF T
  <2>1. 0 .. Len(s) \subseteq T
    BY <1>2, <1>3, <1>5, IntervalInduction
  <2>2. QED
    BY <1>2, <2>1
<1>7. QED
  <2>1. Good(Len(s)) /\ p(Len(s)) = s
    BY <1>2, <1>6
  <2>2. r[Len(s)] = UpdatesOf(g, s) /\ r[Len(s)] \in Seq(E)
    BY <1>1, <1>2 DEF CollectsUpdates
  <2> HIDE DEF p
  <2>3. QED
    BY <2>1, <2>2

-----------------------------------------------------------------------------
(* The groups of the gateway *)

Events == [type : {"add", "del"}, node : Movers]

(* A group holds nodes of its own only; and of each node either the last   *)
(* event that waits says whether the center has it, or, without one, the   *)
(* groups do.                                                              *)
RingInv ==
  /\ members \in SUBSET Nodes /\ ring \in [Groups -> SUBSET Nodes] /\ log \in Seq(Events)
  /\ \A g \in Groups : \A n \in ring[g] : InGroup(n, g)
  /\ following => \A n \in Nodes :
       IF Mentions(log, n) THEN AddsLast(log, n) <=> n \in members
       ELSE \A g \in Groups : n \in ring[g] <=> n \in members /\ InGroup(n, g)

LEMMA EventNodes == \A e \in Events : e.node \in Nodes
  BY NodeAssumption DEF Events

LEMMA RingInit == Init => RingInv
  BY NodeAssumption DEF Init, NodeInit, RingInv

LEMMA RingCenter ==
  ASSUME RingInv, NEW m \in Movers, NEW type \in {"add", "del"}, CenterSees(type, m)
  PROVE  RingInv'
<1> DEFINE e == [type |-> type, node |-> m]
<1>1. /\ e \in Events /\ e.node = m /\ e.type = type /\ m \in Nodes
      /\ members' = IF type = "add" THEN members \cup {m} ELSE members \ {m}
      /\ log' = IF following THEN Append(log, e) ELSE log
      /\ UNCHANGED <<following, ring>>
  BY NodeAssumption DEF CenterSees, Events
<1> HIDE DEF e
<1>2. log' \in Seq(Events) /\ members' \in SUBSET Nodes
  BY <1>1 DEF RingInv
<1>3. ASSUME following, NEW n \in Nodes
      PROVE  IF Mentions(log', n) THEN AddsLast(log', n) <=> n \in members'
             ELSE \A g \in Groups : n \in ring[g] <=> n \in members' /\ InGroup(n, g)
  <2>1. /\ Mentions(log', n) <=> m = n \/ Mentions(log, n)
        /\ AddsLast(log', n) <=> IF m = n THEN type = "add" ELSE AddsLast(log, n)
    BY <1>1, <1>3, LastOfAppend DEF RingInv
  <2>2. CASE m = n
    BY <1>1, <2>1, <2>2
  <2>3. CASE m # n
    BY <1>1, <1>3, <2>1, <2>3 DEF RingInv
  <2>4. QED
    BY <2>2, <2>3
<1>4. QED
  BY <1>1, <1>2, <1>3 DEF RingInv, InGroup, acceptNode, Group, Groups

LEMMA RingSet == RingInv /\ SetNodes => RingInv'
  BY DEF RingInv, SetNodes, Mentions, InGroup, acceptNode, Group, Groups

LEMMA RingUpdate ==
  ASSUME RingInv, NEW k \in 1 .. Len(log), UpdateEvents(k)
  PROVE  RingInv'
<1> DEFINE p == SubSeq(log, 1, k)
           q == SubSeq(log, k + 1, Len(log))
<1>1. /\ log' = q /\ UNCHANGED <<members, following>> /\ log \in Seq(Events)
      /\ ring' = [g \in Groups |-> FoldLeft(UpdateOp, ring[g], UpdatesOf(g, p))]
  BY DEF UpdateEvents, RingInv
<1>2. p \in Seq(Events) /\ q \in Seq(Events)
  BY <1>1
<1>3. \A n : /\ Mentions(log, n) <=> Mentions(p, n) \/ Mentions(q, n)
             /\ Mentions(q, n) => (AddsLast(log, n) <=> AddsLast(q, n))
             /\ ~ Mentions(q, n) => (AddsLast(log, n) <=> AddsLast(p, n))
  BY <1>1, LastOfSplit
<1> HIDE DEF p, q
<1>4. ASSUME NEW g \in Groups, NEW n
      PROVE  /\ ring'[g] \in SUBSET Nodes
             /\ n \in ring'[g] <=> IF InGroup(n, g) /\ Mentions(p, n) THEN AddsLast(p, n) ELSE n \in ring[g]
  <2> DEFINE u == UpdatesOf(g, p)
  <2>1. ring'[g] = FoldLeft(UpdateOp, ring[g], u) /\ ring[g] \in SUBSET Nodes
    BY <1>1 DEF RingInv
  <2>2. /\ u \in Seq(Events)
        /\ InGroup(n, g) =>
             /\ Mentions(u, n) <=> Mentions(p, n)
             /\ AddsLast(u, n) <=> AddsLast(p, n)
        /\ ~ InGroup(n, g) => ~ Mentions(u, n)
    BY <1>2, UpdatesLast
  <2> HIDE DEF u
  <2>3. /\ FoldLeft(UpdateOp, ring[g], u) \in SUBSET Nodes
        /\ n \in FoldLeft(UpdateOp, ring[g], u) <=>
             IF Mentions(u, n) THEN AddsLast(u, n) ELSE n \in ring[g]
    BY <2>1, <2>2, EventNodes, FoldLast
  <2>4. QED
    BY <2>1, <2>2, <2>3
<1>5. ring' \in [Groups -> SUBSET Nodes]
  BY <1>1, <1>4
<1>6. \A g \in Groups : \A n \in ring'[g] : InGroup(n, g)
  BY <1>4 DEF RingInv
<1>7. ASSUME following, NEW n \in Nodes
      PROVE  IF Mentions(q, n) THEN AddsLast(q, n) <=> n \in members
             ELSE \A g \in Groups : n \in ring'[g] <=> n \in members /\ InGroup(n, g)
  <2>1. CASE Mentions(q, n)
    BY <1>3, <1>7, <2>1 DEF RingInv
  <2>2. CASE ~ Mentions(q, n) /\ Mentions(p, n)
    <3>1. AddsLast(p, n) <=> n \in members
      BY <1>3, <1>7, <2>2 DEF RingInv
    <3>2. \A g \in Groups : n \in ring'[g] <=> n \in members /\ InGroup(n, g)
      BY <1>4, <1>6, <2>2, <3>1
    <3>3. QED
      BY <2>2, <3>2
  <2>3. CASE ~ Mentions(q, n) /\ ~ Mentions(p, n)
    <3>1. \A g \in Groups : n \in ring[g] <=> n \in members /\ InGroup(n, g)
      BY <1>3, <1>7, <2>3 DEF RingInv
    <3>2. \A g \in Groups : n \in ring'[g] <=> n \in members /\ InGroup(n, g)
      BY <1>4, <2>3, <3>1
    <3>3. QED
      BY <2>3, <3>2
  <2>4. QED
    BY <2>1, <2>2, <2>3
<1>8. QED
  BY <1>1, <1>2, <1>5, <1>6, <1>7 DEF RingInv, InGroup, acceptNode, Group, Groups

LEMMA RingNext == RingInv /\ [Next]_vars => RingInv'
<1> SUFFICES ASSUME RingInv, [Next]_vars PROVE RingInv'
  OBVIOUS
<1>1. CASE UNCHANGED nodeVars
  BY <1>1 DEF nodeVars, RingInv, Mentions, AddsLast
<1>2. CASE OnNodesSync
  BY <1>2, RingSet DEF OnNodesSync
<1>3. CASE OnNodeEvents
  BY <1>3, RingUpdate DEF OnNodeEvents
<1>4. CASE CenterStep
  BY <1>4, RingCenter DEF CenterStep
<1>5. CASE GatewayStep
  BY <1>1, <1>2, <1>3, <1>4, <1>5
     DEF GatewayStep, StartStep, StartFails, StopStep, Exit, Serve, Accept, HandshakeFails, Locate,
         LocateFails, ConnectFails, AgentStops, AgentCloses, ConnGoes, LocationExpires
<1>6. QED
  BY <1>1, <1>5
     DEF Next, vars, Dial, Exchange, ExchangeKeys, StartStream, SeeClose, ReadLogin, RefuseLogin,
         Connect, ActorLogsIn, ActorHandles, ConnGoes

(* Whatever comes in a batch, the gateway's groups are the game nodes of   *)
(* the center once the events about them are delivered (RingFollowsCenter). *)
THEOREM RingsFollowCenter == Spec => []RingFollowsCenter
<1>1. RingInv => RingFollowsCenter
  BY DEF RingInv, RingFollowsCenter, Mentions, InGroup
<1>2. QED
  BY <1>1, RingInit, RingNext, PTL DEF Spec

(* The node of a player is one of its server.                              *)
LocationInv ==
  location # Nowhere =>
    location \in Nodes /\ CategoryOf[location] = NodeGame /\ ServerOf[location] = PlayerServer

LEMMA LocationNext == RingInv /\ LocationInv /\ [Next]_vars => LocationInv'
<1> SUFFICES ASSUME RingInv, LocationInv, [Next]_vars PROVE LocationInv'
  OBVIOUS
<1>1. CASE UNCHANGED location \/ location' = Nowhere
  BY <1>1 DEF LocationInv
<1>2. CASE Locate
  <2>1. ASSUME NEW n \in PickGame(PlayerServer)
        PROVE  n \in Nodes /\ CategoryOf[n] = NodeGame /\ ServerOf[n] = PlayerServer
    <3> DEFINE g == makeGroup(NodeGame, PlayerServer)
    <3>1. g \in Groups /\ n \in ring[g]
      BY <2>1 DEF PickGame
    <3>2. n \in Nodes /\ acceptNode(n) /\ Group(n) = g
      BY <3>1 DEF RingInv, InGroup
    <3>3. g = <<NodeGame, PlayerServer>> /\ Group(n) = <<CategoryOf[n], ServerOf[n]>>
      BY <3>2 DEF makeGroup, Group, acceptNode
    <3>4. QED
      BY <3>2, <3>3 DEF acceptNode
  <2>2. QED
    BY <1>1, <1>2, <2>1 DEF Locate, updatePlayerLocation, LocationInv
<1>3. QED
  BY <1>1, <1>2
     DEF Next, vars, gateVars, GatewayStep, StartStep, StartFails, StopStep, Exit, OnNodesSync,
         OnNodeEvents, Serve, Accept, HandshakeFails, LocateFails, ConnectFails, AgentStops,
         AgentCloses, LocationExpires, Dial, Exchange, ExchangeKeys, StartStream, SeeClose,
         ReadLogin, RefuseLogin, Connect, ActorLogsIn, ActorHandles

(* A player is only ever located on a game node of its own server, which   *)
(* is also where game servers look for its actor (LocatedOnItsServer).     *)
THEOREM PlayersLocatedOnTheirServer == Spec => []LocatedOnItsServer
<1>1. Init => LocationInv
  BY NodeAssumption DEF Init, GateInit, LocationInv, acceptNode
<1>2. LocationInv => LocatedOnItsServer
  BY DEF LocationInv, LocatedOnItsServer, Group, makeGroup, getActorNodeGroup, makeNodeGroup
<1>3. QED
  BY <1>1, <1>2, RingInit, RingNext, LocationNext, PTL DEF Spec

-----------------------------------------------------------------------------
(* The bag of a new player *)

(* The bag of a new player maps items to positive numbers.                 *)
Bags == UNION {[D -> Nat \ {0}] : D \in SUBSET ItemIds}

LEMMA AddKeepsBags ==
  ASSUME NEW b \in Bags, NEW item \in [id : ItemIds \cup {0}, count : Int]
  PROVE  AddItem(b, item) \in Bags
<1> DEFINE n == Wrapped(GetNum(b, item.id) + item.count)
<1>1. DOMAIN b \subseteq ItemIds /\ b \in [DOMAIN b -> Nat \ {0}]
  BY DEF Bags
<1>2. GetNum(b, item.id) \in Nat
  BY <1>1 DEF GetNum
<1>3. n \in Int
  BY <1>2, ItemAssumption DEF Wrapped
<1> HIDE DEF n
<1>4. CASE item.id = 0 \/ item.count <= 0
  BY <1>4 DEF AddItem
<1>5. CASE ~ (item.id = 0 \/ item.count <= 0) /\ n <= 0
  <2>1. AddItem(b, item) = Restrict(b, DOMAIN b \ {item.id})
    BY <1>5 DEF AddItem, n
  <2>2. AddItem(b, item) \in [DOMAIN b \ {item.id} -> Nat \ {0}]
    BY <1>1, <2>1 DEF Restrict
  <2>3. QED
    BY <1>1, <2>2 DEF Bags
<1>6. CASE ~ (item.id = 0 \/ item.count <= 0) /\ ~ (n <= 0)
  <2> DEFINE D == DOMAIN b \cup {item.id}
  <2>1. AddItem(b, item) = [id \in D |-> IF id = item.id THEN n ELSE b[id]]
    BY <1>6 DEF AddItem, n
  <2>2. AddItem(b, item) \in [D -> Nat \ {0}]
    BY <1>1, <1>3, <1>6, <2>1
  <2>3. D \in SUBSET ItemIds
    BY <1>1, <1>6
  <2>4. QED
    BY <2>2, <2>3 DEF Bags
<1>7. QED
  BY <1>4, <1>5, <1>6

LEMMA InitBagIsBag == InitBag \in Bags
<1> DEFINE V == Bags
           s == InitItems
           base == [id \in {} |-> 0]
           n == Len(s)
           step == [vk \in V \X (1 .. n) |-> AddItem(vk[1], s[vk[2]])]
           F(f) == [t \in SUBSET DOMAIN s |->
                      IF t = {} THEN base ELSE AddItem(f[t \ {Max(t)}], s[Max(t)])]
           f == CHOOSE f : f = F(f)
<1>1. n \in Nat /\ DOMAIN s = 1 .. n /\ \A k \in 1 .. n : s[k] \in [id : ItemIds \cup {0}, count : Int]
  <2> DEFINE E == [id : ItemIds \cup {0}, count : Int]
  <2>1. s \in Seq(E)
    BY ItemAssumption
  <2> HIDE DEF E
  <2>2. n \in Nat /\ DOMAIN s = 1 .. n /\ \A k \in 1 .. n : s[k] \in E
    BY <2>1
  <2>3. QED
    BY <2>2 DEF E
<1>2. base \in V /\ step \in [V \X (1 .. n) -> V]
  <2>1. base \in [{} -> Nat \ {0}] /\ {} \in SUBSET ItemIds
    OBVIOUS
  <2>2. base \in V
    BY <2>1 DEF Bags
  <2>3. QED
    BY <1>1, <2>2, AddKeepsBags
<1>3. PICK h : Iterates(h, n, V, base, step)
  <2> HIDE DEF V, step, base
  <2>1. QED
    BY <1>1, <1>2, IterateExists
<1>4. ASSUME NEW t \in SUBSET (1 .. n), t # {} PROVE IsGreatest(Max(t), t) /\ Max(t) \in 1 .. n
  BY <1>1, <1>4, MaxIsGreatest DEF IsGreatest
<1>5. h = F(h)
  <2>1. ASSUME NEW t \in SUBSET (1 .. n), t # {} PROVE h[t] = AddItem(h[t \ {Max(t)}], s[Max(t)])
    BY <1>3, <1>4, <2>1 DEF Iterates, IsGreatest
  <2>2. QED
    BY <1>1, <1>3, <2>1 DEF Iterates
<1>6. f = F(f) /\ f[1 .. n] = InitBag
  <2>1. f = F(f)
    BY <1>5
  <2>2. InitBag = f[DOMAIN s]
    BY DEF InitBag, FoldLeft, MapThenFoldSet
  <2>3. QED
    BY <1>1, <2>1, <2>2
<1> HIDE DEF f
<1>7. Folds(f, n, V, base, step)
  <2>1. ASSUME NEW t \in SUBSET (1 .. n), t # {}, f[t \ {Max(t)}] \in V
        PROVE  f[t] = step[<<f[t \ {Max(t)}], Max(t)>>]
    BY <1>1, <1>4, <1>6, <2>1
  <2>2. QED
    BY <1>6, <2>1 DEF Folds
<1>8. PICK r : IsTrace(r, n, V, base, step, f[1 .. n])
  <2> HIDE DEF V, step, base
  <2>1. QED
    BY <1>1, <1>2, <1>7, FoldTrace
<1>9. QED
  BY <1>1, <1>6, <1>8 DEF IsTrace

-----------------------------------------------------------------------------
(* What the actor answers *)

Kinds == {"login", "character", "beat", "use", "unknown", "error", "items"}
Requests == [seq : Nat \ {0}, kind : Kinds, id : Nat, num : Int]
Messages == [pt : {"resp", "push"}, seq : Nat \ {0}, kind : Kinds, id : Nat, left : Int]
Numbers(b) == b \in [DOMAIN b -> Int]

(* The push that reports what is left of an item after its use. *)
LeftPush(resp) ==
  [pt |-> "push", seq |-> resp.seq, kind |-> "items", id |-> IF resp.left = 0 THEN 0 ELSE resp.id,
   left |-> resp.left]

(* Messages in the order of their requests, with the push of a use after   *)
(* its response.                                                           *)
Follows(m, n) ==
  \/ m.seq < n.seq
  \/ m.seq = n.seq /\ m.pt = "resp" /\ m.kind = "use" /\ n = LeftPush(m)

Path(d) ==
  /\ d \in Seq(Messages)
  /\ \A i, j \in 1 .. Len(d) : i < j => Follows(d[i], d[j])

LEMMA PathConcat ==
  ASSUME NEW d, Path(d), NEW e, Path(e),
         \A i \in 1 .. Len(d), j \in 1 .. Len(e) : d[i].seq < e[j].seq
  PROVE  Path(d \o e)
<1> DEFINE w == d \o e
<1>1. /\ Len(d) \in Nat /\ Len(e) \in Nat /\ w \in Seq(Messages) /\ Len(w) = Len(d) + Len(e)
      /\ \A i \in 1 .. Len(d) : w[i] = d[i]
      /\ \A i \in Len(d) + 1 .. Len(d) + Len(e) : w[i] = e[i - Len(d)]
  BY DEF Path
<1> HIDE DEF w
<1>2. ASSUME NEW i \in 1 .. Len(w), NEW j \in 1 .. Len(w), i < j PROVE Follows(w[i], w[j])
  <2>1. CASE j \in 1 .. Len(d)
    <3>1. i \in 1 .. Len(d) /\ w[i] = d[i] /\ w[j] = d[j]
      BY <1>1, <1>2, <2>1
    <3>2. QED
      BY <1>2, <2>1, <3>1 DEF Path
  <2>2. CASE i \in Len(d) + 1 .. Len(w)
    <3>1. /\ i - Len(d) \in 1 .. Len(e) /\ j - Len(d) \in 1 .. Len(e) /\ i - Len(d) < j - Len(d)
          /\ w[i] = e[i - Len(d)] /\ w[j] = e[j - Len(d)]
      BY <1>1, <1>2, <2>2
    <3>2. QED
      BY <3>1 DEF Path
  <2>3. CASE i \in 1 .. Len(d) /\ j \in Len(d) + 1 .. Len(w)
    <3>1. j - Len(d) \in 1 .. Len(e) /\ w[i] = d[i] /\ w[j] = e[j - Len(d)]
      BY <1>1, <2>3
    <3>2. QED
      BY <2>3, <3>1 DEF Follows
  <2>4. QED
    BY <1>1, <1>2, <2>1, <2>2, <2>3
<1>3. QED
  BY <1>1, <1>2 DEF Path, w

(* Messages that answer a request with this number. *)
AnswersTo(seq, sent) == Path(sent) /\ \A i \in 1 .. Len(sent) : sent[i].seq = seq

LEMMA ShortAnswers ==
  ASSUME NEW m \in Messages
  PROVE  /\ \A seq : AnswersTo(seq, <<>>)
         /\ AnswersTo(m.seq, <<m>>)
         /\ m.pt = "resp" /\ m.kind = "use" =>
              LeftPush(m) \in Messages /\ AnswersTo(m.seq, <<m, LeftPush(m)>>)
<1>1. \A seq : AnswersTo(seq, <<>>)
  BY DEF AnswersTo, Path
<1>2. AnswersTo(m.seq, <<m>>)
  BY DEF AnswersTo, Path
<1>3. ASSUME m.pt = "resp", m.kind = "use"
      PROVE  LeftPush(m) \in Messages /\ AnswersTo(m.seq, <<m, LeftPush(m)>>)
  <2>1. LeftPush(m) \in Messages /\ LeftPush(m).seq = m.seq
    BY DEF LeftPush, Messages, Kinds
  <2>2. Follows(m, LeftPush(m))
    BY <1>3, <2>1 DEF Follows
  <2> DEFINE n == LeftPush(m)
             w == <<m, n>>
  <2> HIDE DEF n
  <2>3. w \in Seq(Messages) /\ Len(w) = 2 /\ w[1] = m /\ w[2] = n
    BY <2>1 DEF n
  <2> HIDE DEF w
  <2>4. AnswersTo(m.seq, w)
    BY <2>1, <2>2, <2>3 DEF AnswersTo, Path, n
  <2>5. QED
    BY <2>1, <2>4 DEF w, n
<1>4. QED
  BY <1>1, <1>2, <1>3

(* What is sent for a reply and at most one push, when either may fail.    *)
LEMMA ReplyAndPush ==
  ASSUME NEW m \in Messages
  PROVE  /\ \A sent \in WrapReq(m, <<>>) : AnswersTo(m.seq, sent)
         /\ \A sent \in SentOrNot(<<m>>) : AnswersTo(m.seq, sent)
         /\ m.pt = "resp" /\ m.kind = "use" =>
              \A sent \in WrapReq(m, <<LeftPush(m)>>) : AnswersTo(m.seq, sent)
<1>1. \A sent \in SentOrNot(<<m>>) : AnswersTo(m.seq, sent)
  BY ShortAnswers DEF SentOrNot
<1>2. <<m>> \o <<>> = <<m>> /\ <<>> \o <<>> = <<>>
  OBVIOUS
<1>3. \A sent \in WrapReq(m, <<>>) : sent \in {<<m>>, <<>>}
  BY <1>2 DEF WrapReq, SentOrNot
<1>4. ASSUME m.pt = "resp", m.kind = "use", NEW sent \in WrapReq(m, <<LeftPush(m)>>)
      PROVE  AnswersTo(m.seq, sent)
  <2> DEFINE n == LeftPush(m)
  <2>1. n \in Messages /\ n.seq = m.seq
    BY <1>4, ShortAnswers DEF LeftPush
  <2>2. AnswersTo(m.seq, <<n>>) /\ AnswersTo(m.seq, <<m, n>>)
    BY <1>4, <2>1, ShortAnswers
  <2>3. sent \in {<<m>> \o <<n>>, <<m>> \o <<>>, <<>> \o <<n>>, <<>> \o <<>>}
    BY <1>4 DEF WrapReq, SentOrNot
  <2> HIDE DEF n
  <2>4. sent \in {<<m, n>>, <<m>>, <<n>>, <<>>}
    BY <1>2, <2>1, <2>3
  <2>5. QED
    BY <2>2, <2>4, ShortAnswers
<1>5. QED
  BY <1>1, <1>3, <1>4, ShortAnswers

(* Whatever is sent for a request answers it. *)
LEMMA Answers ==
  ASSUME NEW r \in Requests, NEW isIn, NEW b, Numbers(b)
  PROVE  /\ Numbers(Handle(r, isIn, b).bag)
         /\ \A sent \in Handle(r, isIn, b).out : AnswersTo(r.seq, sent)
<1> DEFINE left == Sub(b, r.id, r.num)
           use == Resp(r, "use", GetNum(left, r.id))
<1>1. ASSUME NEW kind \in Kinds, NEW n \in Int
      PROVE  Resp(r, kind, n) \in Messages /\ Resp(r, kind, n).pt = "resp"
             /\ Resp(r, kind, n).seq = r.seq /\ Resp(r, kind, n).kind = kind
             /\ Resp(r, kind, n).left = n /\ Resp(r, kind, n).id = r.id
  BY DEF Resp, Requests, Messages, Kinds
<1>2. ErrorResp(r) \in Messages /\ ErrorResp(r).seq = r.seq
  BY <1>1 DEF ErrorResp, Kinds
<1>3. Resp(r, "beat", 0) \in Messages /\ Resp(r, "beat", 0).seq = r.seq
  BY <1>1 DEF Kinds
<1>4. /\ \A sent \in WrapReq(ErrorResp(r), <<>>) : AnswersTo(r.seq, sent)
      /\ \A sent \in SentOrNot(<<ErrorResp(r)>>) : AnswersTo(r.seq, sent)
      /\ \A sent \in WrapReq(Resp(r, "beat", 0), <<>>) : AnswersTo(r.seq, sent)
      /\ AnswersTo(r.seq, <<>>)
  BY <1>2, <1>3, ReplyAndPush, ShortAnswers
<1>5. Numbers(UseItem(r, b).bag) /\ \A sent \in UseItem(r, b).out : AnswersTo(r.seq, sent)
  <2>1. CASE CanUse(b, r.id, r.num)
    <3>1. r.id \in DOMAIN b /\ r.num > 0 /\ b[r.id] >= r.num
      BY <2>1 DEF CanUse, GetNum, Requests
    <3>2. Numbers(left) /\ (r.id \in DOMAIN left => left[r.id] # 0)
      BY <3>1 DEF Sub, Restrict, Requests, Numbers
    <3>3. GetNum(left, r.id) \in Int
      BY <3>2 DEF GetNum, Numbers
    <3> HIDE DEF left
    <3>4. use \in Messages /\ use.pt = "resp" /\ use.seq = r.seq /\ use.kind = "use"
          /\ use.left = GetNum(left, r.id) /\ use.id = r.id
      BY <1>1, <3>3 DEF Kinds
    <3> HIDE DEF use
    <3>5. ItemPush(r, left) = LeftPush(use)
      BY <3>2, <3>4 DEF ItemPush, GetItem, LeftPush, GetNum
    <3>6. UseItem(r, b) = [bag |-> left, out |-> WrapReq(use, <<LeftPush(use)>>)]
      BY <2>1, <3>5 DEF UseItem, left, use
    <3>7. \A sent \in WrapReq(use, <<LeftPush(use)>>) : AnswersTo(use.seq, sent)
      BY <3>4, ReplyAndPush
    <3>8. QED
      BY <3>2, <3>4, <3>6, <3>7
  <2>2. CASE ~CanUse(b, r.id, r.num)
    BY <1>4, <2>2 DEF UseItem
  <2>3. QED
    BY <2>1, <2>2
<1>6. QED
  BY <1>4, <1>5 DEF Handle, NeedsLogin

-----------------------------------------------------------------------------
(* The path to the client *)

LEMMA PathTail ==
  ASSUME NEW d, Path(d), d # <<>>
  PROVE  Path(Tail(d)) /\ Head(d) \in Messages /\ Head(d).seq # 0
<1>1. /\ Len(d) \in Nat \ {0} /\ Tail(d) \in Seq(Messages) /\ Len(Tail(d)) = Len(d) - 1
      /\ \A i \in 1 .. Len(d) - 1 : Tail(d)[i] = d[i + 1] /\ i + 1 \in 1 .. Len(d)
      /\ Head(d) = d[1] /\ d[1] \in Messages
  BY DEF Path
<1>2. \A i, j \in 1 .. Len(d) - 1 : i < j => Follows(Tail(d)[i], Tail(d)[j])
  BY <1>1 DEF Path
<1>3. QED
  BY <1>1, <1>2 DEF Path, Messages

(* Requests travel in the order of their numbers, which are not yet those  *)
(* of anything that has been answered, and none is above seq.              *)
Order(u, d, seq) ==
  /\ \A i \in 1 .. Len(u) : u[i].seq <= seq
  /\ \A i, j \in 1 .. Len(u) : i < j => u[i].seq < u[j].seq
  /\ \A i \in 1 .. Len(d) : d[i].seq <= seq
  /\ \A i \in 1 .. Len(d), k \in 1 .. Len(u) : d[i].seq < u[k].seq

LEMMA OrderSend ==
  ASSUME NEW u \in Seq(Requests), NEW d \in Seq(Messages), NEW seq \in Nat, Order(u, d, seq),
         NEW r \in Requests, r.seq = seq + 1
  PROVE  Order(Append(u, r), d, seq + 1)
<1> DEFINE w == Append(u, r)
<1>1. /\ Len(w) = Len(u) + 1 /\ Len(u) \in Nat /\ w[Len(u) + 1] = r
      /\ \A i \in 1 .. Len(u) : w[i] = u[i] /\ u[i] \in Requests
      /\ \A i \in 1 .. Len(d) : d[i] \in Messages
  OBVIOUS
<1>0. /\ \A i \in 1 .. Len(u) : w[i] = u[i] /\ u[i].seq \in Nat
      /\ \A i \in 1 .. Len(d) : d[i].seq \in Nat
  BY <1>1 DEF Requests, Messages
<1> HIDE DEF w
<1>2. \A i \in 1 .. Len(w) : i \in 1 .. Len(u) \/ i = Len(u) + 1
  BY <1>1
<1>3. Order(w, d, seq + 1)
  <2>1. \A i \in 1 .. Len(w) : w[i].seq <= seq + 1
    BY <1>0, <1>1, <1>2 DEF Order
  <2>2. \A i, j \in 1 .. Len(w) : i < j => w[i].seq < w[j].seq
    <3> SUFFICES ASSUME NEW i \in 1 .. Len(w), NEW j \in 1 .. Len(w), i < j
                 PROVE  w[i].seq < w[j].seq
      OBVIOUS
    <3>1. i \in 1 .. Len(u) /\ w[i].seq = u[i].seq /\ u[i].seq \in Nat /\ u[i].seq <= seq
      BY <1>0, <1>1, <1>2 DEF Order
    <3>2. CASE j \in 1 .. Len(u)
      BY <1>0, <3>1, <3>2 DEF Order
    <3>3. CASE j = Len(u) + 1
      BY <1>1, <3>1, <3>3
    <3>4. QED
      BY <1>2, <3>2, <3>3
  <2>3. \A i \in 1 .. Len(d) : d[i].seq <= seq + 1
    BY <1>0 DEF Order
  <2>4. \A i \in 1 .. Len(d), k \in 1 .. Len(w) : d[i].seq < w[k].seq
    <3> SUFFICES ASSUME NEW i \in 1 .. Len(d), NEW k \in 1 .. Len(w)
                 PROVE  d[i].seq < w[k].seq
      OBVIOUS
    <3>1. d[i].seq \in Nat /\ d[i].seq <= seq
      BY <1>0 DEF Order
    <3>2. CASE k \in 1 .. Len(u)
      BY <1>0, <3>1, <3>2 DEF Order
    <3>3. CASE k = Len(u) + 1
      BY <1>1, <3>1, <3>3
    <3>4. QED
      BY <1>2, <3>2, <3>3
  <2>5. QED
    BY <2>1, <2>2, <2>3, <2>4 DEF Order
<1>4. QED
  BY <1>3 DEF w

LEMMA OrderLater ==
  ASSUME NEW u \in Seq(Requests), NEW d \in Seq(Messages), NEW seq \in Nat, Order(u, d, seq)
  PROVE  Order(u, d, seq + 1)
<1>1. /\ \A i \in 1 .. Len(u) : u[i] \in Requests
      /\ \A i \in 1 .. Len(d) : d[i] \in Messages
  OBVIOUS
<1>2. /\ \A i \in 1 .. Len(u) : u[i].seq \in Nat
      /\ \A i \in 1 .. Len(d) : d[i].seq \in Nat
  BY <1>1 DEF Requests, Messages
<1>3. QED
  BY <1>2 DEF Order

LEMMA OrderTail ==
  ASSUME NEW u, NEW d \in Seq(Messages), d # <<>>, NEW seq, Order(u, d, seq)
  PROVE  Order(u, Tail(d), seq)
<1>1. /\ Len(Tail(d)) = Len(d) - 1 /\ Len(d) \in Nat \ {0}
      /\ \A i \in 1 .. Len(d) - 1 : Tail(d)[i] = d[i + 1] /\ i + 1 \in 1 .. Len(d)
  OBVIOUS
<1>2. QED
  BY <1>1 DEF Order

(* The first request is answered. *)
LEMMA OrderAnswer ==
  ASSUME NEW u \in Seq(Requests), u # <<>>, NEW d, Path(d), NEW seq \in Nat, Order(u, d, seq),
         NEW sent, AnswersTo(Head(u).seq, sent)
  PROVE  Path(d \o sent) /\ Order(Tail(u), d \o sent, seq)
<1> DEFINE w == d \o sent
           t == Tail(u)
<1>1. /\ Len(d) \in Nat /\ Len(sent) \in Nat /\ Len(w) = Len(d) + Len(sent)
      /\ \A i \in 1 .. Len(d) : w[i] = d[i]
      /\ \A i \in Len(d) + 1 .. Len(w) : w[i] = sent[i - Len(d)] /\ i - Len(d) \in 1 .. Len(sent)
  BY DEF Path, AnswersTo
<1>2. /\ Len(u) \in Nat \ {0} /\ Head(u) = u[1] /\ Len(t) = Len(u) - 1
      /\ \A i \in 1 .. Len(t) : t[i] = u[i + 1] /\ i + 1 \in 1 .. Len(u) /\ 1 < i + 1
  OBVIOUS
<1> HIDE DEF w, t
<1>0. \A j \in 1 .. Len(sent) : sent[j].seq = u[1].seq
  BY <1>2 DEF AnswersTo
<1>3. \A i \in 1 .. Len(d), j \in 1 .. Len(sent) : d[i].seq < sent[j].seq
  BY <1>0, <1>2 DEF Order
<1>4. \A i \in 1 .. Len(w) : i \in 1 .. Len(d) \/ w[i].seq = u[1].seq
  BY <1>0, <1>1
<1>5. Order(t, w, seq)
  <2>1. \A i \in 1 .. Len(t) : t[i].seq <= seq /\ u[1].seq < t[i].seq
    BY <1>2 DEF Order
  <2>2. \A i, j \in 1 .. Len(t) : i < j => t[i].seq < t[j].seq
    BY <1>2 DEF Order
  <2>3. \A i \in 1 .. Len(w) : w[i].seq <= seq
    BY <1>1, <1>2, <1>4 DEF Order
  <2>4. \A i \in 1 .. Len(w), k \in 1 .. Len(t) : w[i].seq < t[k].seq
    BY <1>1, <1>2, <1>4, <2>1 DEF Order
  <2>5. QED
    BY <2>1, <2>2, <2>3, <2>4 DEF Order
<1>6. QED
  BY <1>3, <1>5, PathConcat DEF AnswersTo, w, t

(* What travels, and what the client keeps of it. *)
WireInv ==
  /\ Numbers(bag) /\ up \in Seq(Requests) /\ Path(down) /\ Order(up, down, seqIncr)
  /\ seqIncr \in Nat /\ reqSeq \in Nat
  /\ sending \in [by : Nat, kind : Kinds \cup {"none"}, seq : Nat]
  /\ holds \in Messages \cup {NoMsg} /\ chResp \in Seq(Messages)

LEMMA WireInit == Init => WireInv
<1> SUFFICES ASSUME Init PROVE WireInv
  OBVIOUS
<1>1. Path(<<>>) /\ Order(<<>>, <<>>, 0)
  BY DEF Path, Order
<1>2. Nobody \in Nat
  BY ClientAssumption DEF Nobody
<1>3. Numbers(InitBag)
  BY InitBagIsBag DEF Bags, Numbers
<1>4. QED
  BY <1>1, <1>2, <1>3 DEF Init, ClientInit, Idle, WireInv, Kinds

(* Each step of the client keeps what travels. *)
LEMMA WireClient == WireInv /\ ClientStep /\ UNCHANGED bag => WireInv'
<1> SUFFICES ASSUME WireInv, ClientStep, UNCHANGED bag PROVE WireInv'
  OBVIOUS
<1> USE DEF WireInv
<1>0. down \in Seq(Messages)
  BY DEF Path
<1>1. CASE UNCHANGED <<requestVars, up, down>>
  BY <1>1 DEF requestVars
<1>2. ASSUME NEW t \in Nat, NEW kind \in Kinds, Lock(t, kind) PROVE WireInv'
  BY <1>2 DEF Lock
<1>3. ASSUME NEW req \in Commands \cup {LoginReq, HeartbeatReq}, Send(req) PROVE WireInv'
  <2> DEFINE r == [seq |-> seqIncr + 1, kind |-> req.kind, id |-> req.id, num |-> req.num]
  <2>1. req \in [kind : {"login", "beat", "use", "unknown"}, id : Nat, num : Int]
    BY ClientAssumption DEF LoginReq, HeartbeatReq
  <2>2. r \in Requests /\ r.seq = seqIncr + 1
    BY <2>1 DEF Requests, Kinds
  <2>3. up' = Append(up, r) /\ seqIncr' = seqIncr + 1 /\ UNCHANGED down
    BY <1>3 DEF Send, WritePacket
  <2> HIDE DEF r
  <2>4. up' \in Seq(Requests) /\ Order(up', down', seqIncr')
    BY <1>0, <2>2, <2>3, OrderSend
  <2>5. sending' = [sending EXCEPT !.seq = seqIncr + 1] /\ reqSeq' = seqIncr + 1
    BY <1>3 DEF Send
  <2>6. sending' \in [by : Nat, kind : Kinds \cup {"none"}, seq : Nat]
    BY <2>5
  <2>7. QED
    BY <1>3, <2>3, <2>4, <2>5, <2>6 DEF Send
<1>4. Idle \in [by : Nat, kind : Kinds \cup {"none"}, seq : Nat]
  BY ClientAssumption DEF Idle, Nobody
<1>5. CASE SendFails
  <2>1. Order(up, down, seqIncr + 1)
    BY <1>0, OrderLater
  <2>2. /\ seqIncr' = seqIncr + 1 /\ reqSeq' = 0 /\ sending' = Idle
        /\ UNCHANGED <<up, down, holds, chResp>>
    BY <1>5 DEF SendFails, Return
  <2>3. QED
    BY <1>4, <2>1, <2>2
<1>6. CASE TakeResponse \/ TimesOut
  <2>1. sending' = Idle /\ UNCHANGED <<seqIncr, reqSeq, holds, up, down>>
    BY <1>6 DEF TakeResponse, TimesOut, Return
  <2>2. chResp' = <<>> \/ chResp' = chResp
    BY <1>6 DEF TakeResponse, TimesOut
  <2>3. chResp' \in Seq(Messages)
    <3>1. \A S : <<>> \in Seq(S)
      OBVIOUS
    <3>2. QED
      BY <2>2, <3>1
  <2>4. QED
    BY <1>4, <2>1, <2>3
<1>7. CASE ReadMsg
  <2>1. Path(Tail(down)) /\ Head(down) \in Messages /\ Order(up, Tail(down), seqIncr)
    BY <1>0, <1>7, PathTail, OrderTail DEF ReadMsg
  <2>2. QED
    BY <1>7, <2>1 DEF ReadMsg, ReadPacket
<1>8. CASE PutResponse
  BY <1>8 DEF PutResponse
<1>9. CASE \E req \in Commands : Command(req)
  <2>1. \A req \in Commands : req.kind \in Kinds
    BY ClientAssumption DEF Kinds
  <2>2. QED
    BY <1>2, <1>9, <2>1 DEF Command, loop
<1>10. CASE \E i \in 1 .. MaxTickers : Tick(i)
  BY <1>2, <1>10, ClientAssumption DEF Tick, Kinds
<1>11. CASE Lock(loop, "login")
  BY <1>2, <1>11 DEF loop, Kinds
<1>12. QED
  BY <1>1, <1>3, <1>5, <1>6, <1>7, <1>8, <1>9, <1>10, <1>11
     DEF ClientStep, GetCharacterList, CreateCharacter, LoginCharacter, HttpRequest, EndOfFile,
         Quit, ReadTimesOut

LEMMA WireNext == WireInv /\ [Next]_vars => WireInv'
<1> SUFFICES ASSUME WireInv, [Next]_vars PROVE WireInv'
  OBVIOUS
<1> USE DEF WireInv
<1>0. down \in Seq(Messages) /\ down \o <<>> = down
  BY DEF Path
<1>1. CASE UNCHANGED <<requestVars, up, down, bag>>
  BY <1>1 DEF requestVars
<1>2. ASSUME NextRequest(Kinds)
      PROVE  up # <<>> /\ Head(up) \in Requests /\ Tail(up) \in Seq(Requests)
  BY <1>2 DEF NextRequest
<1>3. \A K \in SUBSET Kinds : NextRequest(K) => NextRequest(Kinds)
  BY DEF NextRequest
<1>4. ASSUME NEW sent, AnswersTo(Head(up).seq, sent), NextRequest(Kinds), Numbers(bag'),
             up' = Tail(up), down' = down \o sent, UNCHANGED requestVars
      PROVE  WireInv'
  BY <1>2, <1>4, OrderAnswer DEF requestVars
<1>5. ASSUME NEW kind \in Kinds, NextRequest(Kinds)
      PROVE  LET m == Resp(Head(up), kind, 0)
             IN  AnswersTo(Head(up).seq, <<m>>) /\ Append(down, m) = down \o <<m>>
  <2> DEFINE m == Resp(Head(up), kind, 0)
  <2>1. m \in Messages /\ m.seq = Head(up).seq
    BY <1>2, <1>5 DEF Requests, Messages, Resp
  <2> HIDE DEF m
  <2>2. Append(down, m) = down \o <<m>>
    BY <1>0, <2>1
  <2>3. AnswersTo(Head(up).seq, <<m>>)
    BY <2>1, ShortAnswers
  <2>4. QED
    BY <2>2, <2>3 DEF m
<1>6. CASE RefuseLogin
  <2>1. NextRequest(Kinds) /\ "error" \in Kinds
    BY <1>3, <1>6 DEF RefuseLogin, Kinds
  <2>2. /\ up' = Tail(up) /\ down' = Append(down, Resp(Head(up), "error", 0))
        /\ UNCHANGED requestVars /\ bag' = bag
    BY <1>6 DEF RefuseLogin, ErrorResp, ReadPacket, WritePacket, actorVars
  <2>3. QED
    BY <1>4, <1>5, <2>1, <2>2
<1>7. CASE ActorLogsIn
  <2>1. NextRequest(Kinds) /\ {"login", "error"} \subseteq Kinds
    BY <1>3, <1>7 DEF ActorLogsIn, Kinds
  <2>2. up' = Tail(up) /\ UNCHANGED <<requestVars, bag>>
    BY <1>7 DEF ActorLogsIn
  <2>3. CASE UNCHANGED down
    <3>1. AnswersTo(Head(up).seq, <<>>)
      BY DEF AnswersTo, Path
    <3>2. QED
      BY <1>0, <1>4, <2>1, <2>2, <2>3, <3>1
  <2>4. ASSUME NEW kind \in {"login", "error"}, down' = Append(down, Resp(Head(up), kind, 0))
        PROVE  WireInv'
    BY <1>4, <1>5, <2>1, <2>2, <2>4
  <2>5. QED
    BY <1>7, <2>3, <2>4 DEF ActorLogsIn, ReadPacket, WritePacket
<1>8. CASE Connect
  <2> DEFINE w == [up EXCEPT ![1].kind = "character"]
  <2>1. \A r \in Requests : [r EXCEPT !.kind = "character"] \in Requests
                            /\ [r EXCEPT !.kind = "character"].seq = r.seq
    BY DEF Requests, Kinds
  <2>2. up \in [1 .. Len(up) -> Requests] /\ Len(up) \in Nat
    OBVIOUS
  <2>3. w \in [1 .. Len(up) -> Requests] /\ \A i \in 1 .. Len(up) : w[i].seq = up[i].seq
    BY <2>1, <2>2
  <2>4. w \in Seq(Requests) /\ Len(w) = Len(up)
    BY <2>2, <2>3
  <2> HIDE DEF w
  <2>5. Order(w, down, seqIncr)
    BY <2>3, <2>4 DEF Order
  <2>6. up' = w /\ UNCHANGED <<requestVars, bag, down>>
    BY <1>8 DEF Connect, actorVars, w
  <2>7. QED
    BY <2>4, <2>5, <2>6 DEF requestVars
<1>9. CASE ActorHandles
  <2>1. NextRequest(Kinds)
    BY <1>3, <1>9 DEF ActorHandles, Kinds
  <2>2. PICK sent \in Handle(Head(up), isLogin, bag).out : down' = down \o sent
    BY <1>9 DEF ActorHandles, ReadPacket
  <2>3. up' = Tail(up) /\ bag' = Handle(Head(up), isLogin, bag).bag /\ UNCHANGED requestVars
    BY <1>9 DEF ActorHandles, ReadPacket
  <2>4. Numbers(bag') /\ AnswersTo(Head(up).seq, sent)
    BY <1>2, <2>1, <2>3, Answers
  <2>5. QED
    BY <1>4, <2>1, <2>2, <2>3, <2>4
<1>10. CASE ClientStep /\ UNCHANGED actorVars
  BY <1>10, WireClient DEF actorVars
<1>11. CASE UNCHANGED <<clientVars, actorVars>>
  BY <1>1, <1>11 DEF clientVars, actorVars
<1>12. CASE Dial \/ StartStream \/ SeeClose \/ ReadLogin
  BY <1>1, <1>12 DEF Dial, StartStream, SeeClose, ReadLogin, clientVars, actorVars
<1>13. CASE Exchange
  BY <1>11, <1>13 DEF Exchange
<1>14. QED
  BY <1>6, <1>7, <1>8, <1>9, <1>10, <1>11, <1>12, <1>13 DEF Next, vars

(* What comes to the client is in the order of its requests, and a push    *)
(* follows the response to the request that changed the items, whichever   *)
(* replies and pushes are missing; both say how many are left              *)
(* (PushFollowsResponse).                                                  *)
THEOREM PushesFollowResponses == Spec => []PushFollowsResponse
<1>1. WireInv => PushFollowsResponse
  <2>1. \A m, n : Follows(m, n) =>
          \/ m.seq < n.seq
          \/ /\ m.seq = n.seq /\ m.pt = "resp" /\ m.kind = "use" /\ n.pt = "push"
             /\ n.left = m.left /\ n.id = IF m.left = 0 THEN 0 ELSE m.id
    BY DEF Follows, LeftPush
  <2>2. QED
    BY <2>1 DEF WireInv, Path, PushFollowsResponse
<1>2. QED
  BY <1>1, WireInit, WireNext, PTL DEF Spec

-----------------------------------------------------------------------------
(* Whose response a request takes *)

(* Once a request is sent, reqSeq is its number or 0, and, unless a        *)
(* response strayed, the reader and chResp hold responses to it only;      *)
(* between its emptying of chResp and its sending they hold none.          *)
RequestInv ==
  /\ sending.seq # 0 => reqSeq \in {0, sending.seq}
  /\ foreign => strayed
  /\ ~strayed /\ sending # Idle /\ sending.seq = 0 => holds = NoMsg /\ chResp = <<>>
  /\ ~strayed /\ sending.seq # 0 =>
       /\ holds # NoMsg => holds.seq = sending.seq
       /\ chResp # <<>> => Head(chResp).seq = sending.seq

LEMMA RequestInit == Init => RequestInv
  BY DEF Init, ClientInit, Idle, RequestInv

LEMMA RequestNext == WireInv /\ RequestInv /\ [Next]_vars => RequestInv'
<1> SUFFICES ASSUME WireInv, RequestInv, [Next]_vars PROVE RequestInv'
  OBVIOUS
<1>1. CASE UNCHANGED requestVars
  BY <1>1 DEF RequestInv, requestVars
<1>2. ASSUME NEW t, NEW kind, Lock(t, kind) PROVE RequestInv'
  BY <1>2 DEF Lock, RequestInv
<1>3. ASSUME NEW req, Send(req) PROVE RequestInv'
  <2>1. /\ sending # Idle /\ sending.seq = 0 /\ seqIncr + 1 # 0
        /\ reqSeq' = seqIncr + 1 /\ UNCHANGED <<chResp, holds, strayed, foreign>>
        /\ sending'.seq = seqIncr + 1
    BY <1>3 DEF Send, WireInv
  <2>2. QED
    BY <2>1 DEF RequestInv
<1>4. ASSUME sending' = Idle, UNCHANGED strayed, foreign' => strayed PROVE RequestInv'
  BY <1>4 DEF RequestInv, Idle
<1>5. CASE SendFails \/ TimesOut
  BY <1>4, <1>5 DEF SendFails, TimesOut, Return, RequestInv
<1>6. CASE TakeResponse
  BY <1>4, <1>6 DEF TakeResponse, Return, RequestInv
<1>7. CASE ReadMsg
  <2>1. Head(down) \in Messages /\ Head(down).seq # 0
    BY <1>7, PathTail DEF ReadMsg, WireInv
  <2>2. CASE Passes(Head(down))
    <3>1. /\ holds' = Head(down) /\ holds'.seq = reqSeq /\ reqSeq # 0 /\ reqSeq' = 0
          /\ strayed' = (strayed \/ (sending # Idle /\ sending.seq = 0))
          /\ UNCHANGED <<sending, chResp, foreign>>
      BY <1>7, <2>1, <2>2 DEF ReadMsg, ReadPacket, Passes
    <3>2. QED
      BY <3>1 DEF RequestInv
  <2>3. CASE ~Passes(Head(down))
    BY <1>1, <1>7, <2>3 DEF ReadMsg, ReadPacket, requestVars
  <2>4. QED
    BY <2>2, <2>3
<1>8. CASE PutResponse
  <2>1. /\ holds # NoMsg /\ chResp' = <<holds>> /\ holds' = NoMsg /\ Head(chResp') = holds
        /\ UNCHANGED <<sending, reqSeq, strayed, foreign>>
    BY <1>8 DEF PutResponse
  <2>2. QED
    BY <2>1 DEF RequestInv
<1>9. CASE ClientStep
  BY <1>1, <1>2, <1>3, <1>5, <1>6, <1>7, <1>8, <1>9
     DEF ClientStep, GetCharacterList, CreateCharacter, LoginCharacter, HttpRequest, EndOfFile,
         Quit, ReadTimesOut, Tick, Command
<1>10. CASE UNCHANGED vars
  BY <1>1, <1>10 DEF vars, clientVars
<1>11. QED
  BY <1>1, <1>9, <1>10
     DEF Next, clientVars, Dial, Exchange, StartStream, SeeClose, ReadLogin, RefuseLogin, Connect,
         ActorLogsIn, ActorHandles

(* A request takes its own response, unless one of an earlier request met  *)
(* it before it had set reqSeq (OwnResponse).                              *)
THEOREM OwnResponsesTaken == Spec => []OwnResponse
<1>1. RequestInv => OwnResponse
  BY DEF RequestInv, OwnResponse
<1>2. QED
  BY <1>1, WireInit, WireNext, RequestInit, RequestNext, PTL DEF Spec

-----------------------------------------------------------------------------
(* Types *)

(* The client has heartbeats only once it has played, and is in stateLogin *)
(* while the request of the login goes on, which it only makes once; a     *)
(* request is only begun where its number stays within the bound.          *)
ClientInv ==
  /\ state \in {"list", "create", "token", "dial", "exchange", "login", "play", "exited"}
  /\ tickers \in 0 .. MaxTickers
  /\ state \notin {"play", "exited"} => tickers = 0
  /\ sending.by \in 0 .. MaxTickers + 1
  /\ sending.kind = "login" => state \in {"login", "exited"}
  /\ seqIncr \in 0 .. MaxSeq /\ reqSeq \in 0 .. seqIncr
  /\ sending # Idle /\ sending.seq = 0 => seqIncr < MaxSeq
  /\ Len(chResp) <= 1

LEMMA ClientInvInit == Init => ClientInv
  BY ClientAssumption DEF Init, ClientInit, Idle, Nobody, ClientInv

LEMMA ClientInvStep == WireInv /\ ClientInv /\ ClientStep => ClientInv'
<1> SUFFICES ASSUME WireInv, ClientInv, ClientStep PROVE ClientInv'
  OBVIOUS
<1>0. MaxSeq \in Nat /\ MaxTickers \in Nat \ {0} /\ loop \in 0 .. MaxTickers /\ Idle.by = MaxTickers + 1
      /\ Idle.kind = "none" /\ Idle.seq = 0
  BY ClientAssumption DEF loop, Idle, Nobody
<1>1. CASE GetCharacterList \/ CreateCharacter \/ LoginCharacter
  <2>1. /\ state \in {"list", "create", "token"} /\ state' \in {"create", "token", "dial", "exited"}
        /\ UNCHANGED <<tickers, sending, seqIncr, reqSeq, chResp>>
    BY <1>1 DEF GetCharacterList, CreateCharacter, LoginCharacter, HttpRequest, Fatal, requestVars
  <2>2. QED
    BY <2>1 DEF ClientInv
<1>2. ASSUME NEW t \in 0 .. MaxTickers, NEW kind, Lock(t, kind), kind = "login" => state = "login"
      PROVE  ClientInv'
  <2>1. /\ seqIncr < MaxSeq /\ sending' = [by |-> t, kind |-> kind, seq |-> 0] /\ chResp' = <<>>
        /\ UNCHANGED <<state, tickers, seqIncr, reqSeq>>
    BY <1>2 DEF Lock
  <2>2. sending'.by = t /\ sending'.kind = kind /\ Len(chResp') = 0 /\ t \in 0 .. MaxTickers + 1
    BY <1>0, <2>1
  <2>3. QED
    BY <1>2, <2>1, <2>2 DEF ClientInv
<1>3. ASSUME NEW req, Send(req) PROVE ClientInv'
  <2>1. /\ sending # Idle /\ sending.seq = 0 /\ seqIncr' = seqIncr + 1 /\ reqSeq' = seqIncr + 1
        /\ UNCHANGED <<state, tickers, chResp>> /\ sending' = [sending EXCEPT !.seq = seqIncr + 1]
    BY <1>3 DEF Send
  <2>2. sending'.by = sending.by /\ sending'.kind = sending.kind /\ sending'.seq = seqIncr + 1
    BY <2>1 DEF WireInv
  <2>3. QED
    BY <1>0, <2>1, <2>2 DEF ClientInv
<1>4. ASSUME NEW ok, Return(ok), Running, seqIncr' \in 0 .. MaxSeq, reqSeq' \in 0 .. seqIncr',
             Len(chResp') <= 1
      PROVE  ClientInv'
  <2>1. sending' = Idle /\ sending'.by \in 0 .. MaxTickers + 1
    BY <1>0, <1>4 DEF Return
  <2>2. CASE sending.kind = "login" /\ state' = "play" /\ tickers' = tickers + 1
    <3>1. tickers' = 1
      BY <1>4, <2>2 DEF ClientInv, Running
    <3>2. QED
      BY <1>0, <1>4, <2>1, <2>2, <3>1 DEF ClientInv
  <2>3. CASE state' = "exited" /\ UNCHANGED tickers
    BY <1>0, <1>4, <2>1, <2>3 DEF ClientInv
  <2>4. CASE UNCHANGED <<state, tickers>>
    BY <1>0, <1>4, <2>1, <2>4 DEF ClientInv
  <2>5. QED
    BY <1>4, <2>2, <2>3, <2>4 DEF Return, Fatal
<1>5. CASE SendFails
  <2>1. /\ Running /\ Return(FALSE) /\ seqIncr' = seqIncr + 1 /\ reqSeq' = 0 /\ UNCHANGED chResp
        /\ seqIncr < MaxSeq
    BY <1>5 DEF SendFails, ClientInv
  <2>2. seqIncr' \in 0 .. MaxSeq /\ reqSeq' \in 0 .. seqIncr' /\ Len(chResp') <= 1
    BY <1>0, <2>1 DEF ClientInv
  <2>3. QED
    BY <1>4, <2>1, <2>2
<1>6. CASE TakeResponse
  <2>1. /\ Running /\ Return(Head(chResp).kind = sending.kind) /\ UNCHANGED <<seqIncr, reqSeq>>
        /\ chResp' = <<>> /\ Len(chResp') = 0
    BY <1>6 DEF TakeResponse
  <2>2. QED
    BY <1>4, <2>1 DEF ClientInv
<1>7. CASE TimesOut
  <2>1. Running /\ Return(FALSE) /\ UNCHANGED <<seqIncr, reqSeq, chResp>>
    BY <1>7 DEF TimesOut
  <2>2. QED
    BY <1>4, <2>1 DEF ClientInv
<1>8. CASE EndOfFile
  BY <1>0, <1>8 DEF EndOfFile, requestVars, ClientInv
<1>9. CASE Quit \/ ReadTimesOut
  BY <1>9 DEF Quit, ReadTimesOut, Fatal, requestVars, ClientInv
<1>10. CASE ReadMsg
  BY <1>0, <1>10 DEF ReadMsg, ClientInv
<1>11. CASE PutResponse
  <2>1. Len(chResp') = 1 /\ UNCHANGED <<state, tickers, sending, seqIncr, reqSeq>>
    BY <1>11 DEF PutResponse
  <2>2. QED
    BY <2>1 DEF ClientInv
<1>12. CASE state = "login" /\ Lock(loop, "login")
  BY <1>0, <1>2, <1>12
<1>13. CASE \E i \in 1 .. MaxTickers : Tick(i)
  BY <1>0, <1>2, <1>13 DEF Tick
<1>14. CASE \E req \in Commands : Command(req)
  BY <1>0, <1>2, <1>14, ClientAssumption DEF Command
<1>15. QED
  BY <1>1, <1>3, <1>5, <1>6, <1>7, <1>8, <1>9, <1>10, <1>11, <1>12, <1>13, <1>14 DEF ClientStep

LEMMA ClientInvNext == WireInv /\ ClientInv /\ [Next]_vars => ClientInv'
<1> SUFFICES ASSUME WireInv, ClientInv, [Next]_vars PROVE ClientInv'
  OBVIOUS
<1>1. CASE UNCHANGED <<state, tickers, requestVars>>
  BY <1>1 DEF ClientInv, requestVars
<1>2. CASE ClientStep
  BY <1>2, ClientInvStep
<1>3. CASE Dial
  BY <1>3 DEF Dial, Fatal, requestVars, ClientInv
<1>4. CASE StartStream \/ SeeClose
  BY <1>4 DEF StartStream, SeeClose, Fatal, requestVars, ClientInv
<1>5. QED
  BY <1>1, <1>2, <1>3, <1>4
     DEF Next, vars, clientVars, Exchange, ReadLogin, RefuseLogin, Connect, ActorLogsIn, ActorHandles

(* How far the gateway is with its start, its stop and the connection. *)
GateInv ==
  /\ stopped \in 0 .. 6
  /\ conn \in {"none", "backlog", "keys", "loop", "locate", "connect", "connected", "stopped",
               "closed"}

LEMMA GateNext == GateInv /\ [Next]_vars => GateInv'
<1> SUFFICES ASSUME GateInv, [Next]_vars PROVE GateInv'
  OBVIOUS
<1> USE DEF GateInv
<1>1. CASE UNCHANGED <<stopped, conn>>
  BY <1>1
<1>2. CASE StopStep
  <2>1. stopped' = stopped + 1 /\ stopped < 6
    BY <1>2 DEF StopStep, StopOrder
  <2>2. conn' \in {"closed", "stopped", conn}
    BY <1>2 DEF StopStep
  <2>3. QED
    BY <2>1, <2>2
<1>3. CASE StartFails \/ Exit
  BY <1>3 DEF StartFails, Exit
<1>4. CASE Serve
  BY <1>4 DEF Serve, Accept, HandshakeFails, Locate, LocateFails, ConnectFails, AgentStops,
              AgentCloses, ConnGoes
<1>5. CASE GatewayStep
  BY <1>1, <1>2, <1>3, <1>4, <1>5
     DEF GatewayStep, StartStep, OnNodesSync, OnNodeEvents, LocationExpires, gateVars
<1>6. CASE Dial \/ Exchange \/ StartStream \/ SeeClose
  BY <1>6 DEF Dial, Exchange, ExchangeKeys, ConnGoes, StartStream, SeeClose, gateVars
<1>7. QED
  BY <1>1, <1>5, <1>6
     DEF Next, vars, gateVars, ReadLogin, RefuseLogin, Connect, ConnGoes, ActorLogsIn, ActorHandles

(* The player never has more of an item than it got. *)
BagInv ==
  /\ DOMAIN bag \subseteq DOMAIN InitBag
  /\ \A id \in DOMAIN bag : bag[id] \in 1 .. InitBag[id]

LEMMA BagHandled ==
  ASSUME NEW r \in Requests, NEW isIn, Numbers(bag), BagInv, bag' = Handle(r, isIn, bag).bag
  PROVE  BagInv'
<1>1. /\ bag \in [DOMAIN bag -> Int] /\ DOMAIN bag \subseteq DOMAIN InitBag
      /\ \A id \in DOMAIN bag : InitBag[id] \in Int /\ bag[id] \in 1 .. InitBag[id]
  BY InitBagIsBag DEF Bags, Numbers, BagInv
<1>2. CASE bag' = bag
  BY <1>1, <1>2 DEF BagInv
<1>3. CASE CanUse(bag, r.id, r.num) /\ bag' = Sub(bag, r.id, r.num)
  <2>1. r.id \in DOMAIN bag /\ r.num > 0 /\ bag[r.id] >= r.num /\ r.num \in Int
    BY <1>3 DEF CanUse, GetNum, Requests
  <2>2. CASE bag[r.id] = r.num
    BY <1>1, <1>3, <2>2 DEF Sub, Restrict, BagInv
  <2>3. CASE bag[r.id] # r.num
    <3>1. bag' = [bag EXCEPT ![r.id] = bag[r.id] - r.num]
      BY <1>3, <2>3 DEF Sub
    <3>2. bag[r.id] - r.num \in 1 .. InitBag[r.id]
      BY <1>1, <2>1, <2>3
    <3>3. DOMAIN bag' = DOMAIN bag /\ bag'[r.id] = bag[r.id] - r.num
          /\ \A id \in DOMAIN bag \ {r.id} : bag'[id] = bag[id]
      BY <1>1, <2>1, <3>1
    <3>4. QED
      BY <1>1, <3>2, <3>3 DEF BagInv
  <2>4. QED
    BY <2>2, <2>3
<1>4. QED
  BY <1>2, <1>3 DEF Handle, UseItem

LEMMA BagNext == WireInv /\ BagInv /\ [Next]_vars => BagInv'
<1> SUFFICES ASSUME WireInv, BagInv, [Next]_vars PROVE BagInv'
  OBVIOUS
<1>1. CASE UNCHANGED bag
  BY <1>1 DEF BagInv
<1>2. CASE ActorHandles
  <2>1. Head(up) \in Requests /\ bag' = Handle(Head(up), isLogin, bag).bag
    BY <1>2 DEF ActorHandles, NextRequest, ReadPacket, WireInv
  <2>2. QED
    BY <2>1, BagHandled DEF WireInv
<1>3. QED
  BY <1>1, <1>2
     DEF Next, vars, actorVars, Dial, Exchange, StartStream, SeeClose, ReadLogin, RefuseLogin,
         Connect, ActorLogsIn

(* Types, and a bag holds at least one of each of its items and never more *)
(* than the player got (TypeOK).                                           *)
THEOREM TypeCorrect == Spec => []TypeOK
<1>1. Init => GateInv /\ BagInv /\ LocationInv
  <2>1. \A id \in DOMAIN InitBag : InitBag[id] \in Nat \ {0}
    BY InitBagIsBag DEF Bags
  <2>2. Init => BagInv
    BY <2>1 DEF Init, BagInv
  <2>3. QED
    BY <2>2, NodeAssumption DEF Init, GateInit, GateInv, LocationInv, acceptNode
<1>2. RingInv /\ StartInv /\ GateInv /\ LocationInv /\ ClientInv /\ BagInv => TypeOK
  <2>1. Len(StopOrder) = 6
    BY DEF StopOrder
  <2>2. QED
    BY <2>1, OrderOfStart DEF RingInv, StartInv, GateInv, LocationInv, ClientInv, BagInv, TypeOK
<1>3. QED
  BY <1>1, <1>2, RingInit, RingNext, StartInit, StartNext, GateNext, LocationNext, WireInit, WireNext,
     ClientInvInit, ClientInvNext, BagNext, PTL DEF Spec

=============================================================================
