----------------------------- MODULE MCGameServer -----------------------------
(* An instance of GameServer: one player, one item per level, three saves. *)
EXTENDS GameServer, TLC

CONSTANTS w1, w2, o1, o2, o3, p1, s1

MCWorkerOf == o1 :> w1 @@ o2 :> w1 @@ o3 :> w2
MCOwnerOf == o1 :> p1 @@ o2 :> p1 @@ o3 :> s1
MCSuffixOf == 1 :> "Req" @@ 2 :> "Resp" @@ 3 :> ""
MCCommonFor == 1 :> {"c2s", "s2s"} @@ 2 :> {"s2s"}
MCLevel == [i \in Items |-> 1]
=============================================================================
