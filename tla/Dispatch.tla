------------------------------- MODULE Dispatch -------------------------------
(***************************************************************************)
(* How a player actor answers a request of its client:                     *)
(* internal/infra/actor/handler (the handler map and the wrapper that      *)
(* replies and then pushes), the handlers of app/game/internal/handler/    *)
(* player, systems/item.go and the bag of items of the model.              *)
(* A bag maps the items a player has to their numbers.                     *)
(***************************************************************************)
EXTENDS Integers, Sequences, SequencesExt, Functions

CONSTANTS
  ItemIds,    \* item ids, 0 is none of them
  InitItems,  \* Global.InitItems: a sequence of [id, count]
  MaxNum      \* the largest int64 (a small number here)

ASSUME ItemAssumption ==
  /\ 0 \notin ItemIds
  /\ InitItems \in Seq([id : ItemIds \cup {0}, count : Int])
  /\ MaxNum \in Nat

\* A sum of two int64.
Wrapped(n) == IF n > MaxNum THEN n - 2 * (MaxNum + 1) ELSE n

GetNum(bag, id) == IF id \in DOMAIN bag THEN bag[id] ELSE 0

\* Items.Add: a number that wraps around to zero or less removes the item.
AddItem(bag, item) ==
  LET n == Wrapped(GetNum(bag, item.id) + item.count) IN
    IF item.id = 0 \/ item.count <= 0 THEN bag
    ELSE IF n <= 0 THEN Restrict(bag, DOMAIN bag \ {item.id})
    ELSE [id \in DOMAIN bag \cup {item.id} |-> IF id = item.id THEN n ELSE bag[id]]

\* Items.init: the bag of a new player.
InitBag == FoldLeft(AddItem, [id \in {} |-> 0], InitItems)

\* Mutant: the number is not compared with what the player has.
CanUseAny(bag, id, num) == id # 0 /\ num > 0 /\ id \in DOMAIN bag

\* UseItem and Sub are refused without the item, or with too few of it.
CanUse(bag, id, num) == id # 0 /\ num > 0 /\ GetNum(bag, id) >= num

\* Items.Sub: nothing left removes the item.
Sub(bag, id, num) ==
  IF bag[id] = num THEN Restrict(bag, DOMAIN bag \ {id})
  ELSE [bag EXCEPT ![id] = @ - num]

\* GetItem: the zero item when the bag has none.
GetItem(bag, id) ==
  IF id \in DOMAIN bag THEN [id |-> id, num |-> bag[id]] ELSE [id |-> 0, num |-> 0]

\* Reply, and replyC2SError.
Resp(r, kind, left) == [pt |-> "resp", seq |-> r.seq, kind |-> kind, id |-> r.id, left |-> left]
ErrorResp(r) == Resp(r, "error", 0)

\* The item pushed after a use is read from the bag: when nothing is left of
\* it, it is the zero item.  A push has no sequence number, its seq here is
\* history: that of the request it is about.
ItemPush(r, bag) ==
  LET item == GetItem(bag, r.id)
  IN  [pt |-> "push", seq |-> r.seq, kind |-> "items", id |-> item.id, left |-> item.num]

\* Of a message whose sending may fail, which nobody looks at: it is sent or not.
SentOrNot(msgs) == {msgs, <<>>}

\* Mutant: the queue of pushes is sent before the reply.
WrapReqPushFirst(reply, pushes) ==
  {p \o r : r \in SentOrNot(<<reply>>), p \in SentOrNot(pushes)}

\* WrapReqFunc: the reply, then what the handler has queued, at most one push.
\* The errors of Reply and of PushRawMessage are ignored: either may be missing.
WrapReq(reply, pushes) ==
  {r \o p : r \in SentOrNot(<<reply>>), p \in SentOrNot(pushes)}

\* handleUseItem
UseItem(r, bag) ==
  IF CanUse(bag, r.id, r.num)
  THEN LET left == Sub(bag, r.id, r.num) IN
       [bag |-> left,
        out |-> WrapReq(Resp(r, "use", GetNum(left, r.id)), <<ItemPush(r, left)>>)]
  ELSE [bag |-> bag, out |-> WrapReq(ErrorResp(r), <<>>)]

\* The requests that were registered with checkLogin.
NeedsLogin(kind) == kind \in {"beat", "use"}

\* C2SHandler.Handle, with the messages that may be sent: an error when nobody handles the message, nothing at all
\* when mdCheckLogin aborts it.
Handle(r, isLogin, bag) ==
  CASE NeedsLogin(r.kind) /\ ~isLogin -> [bag |-> bag, out |-> {<<>>}]
    [] r.kind = "use" /\ isLogin       -> UseItem(r, bag)
    [] r.kind = "beat" /\ isLogin      -> [bag |-> bag, out |-> WrapReq(Resp(r, "beat", 0), <<>>)]
    [] OTHER                           -> [bag |-> bag, out |-> SentOrNot(<<ErrorResp(r)>>)]
=============================================================================
