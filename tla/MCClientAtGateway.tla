-------------------------- MODULE MCClientAtGateway --------------------------
(* An instance of ClientAtGateway: two servers, one of them with a node, and *)
(* a gateway, which is a node of the cluster too.                            *)
EXTENDS ClientAtGateway, TLC

CONSTANTS g1, g2, a1

MCCategoryOf == g1 :> "game" @@ g2 :> "game" @@ a1 :> "agent"
MCServerOf == g1 :> 1 @@ g2 :> 2 @@ a1 :> 0
\* The second portion of item 1 makes its number wrap around.
MCInitItems ==
  <<[id |-> 1, count |-> 3], [id |-> 0, count |-> 2], [id |-> 1, count |-> 3], [id |-> 1, count |-> 2]>>
MCCommands == {[kind |-> "use", id |-> 1, num |-> n] : n \in {1, 2}}
=============================================================================
