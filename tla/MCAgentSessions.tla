--------------------------- MODULE MCAgentSessions ---------------------------
(* Instances of AgentSessions for TLC. *)
EXTENDS AgentSessions, TLC

CONSTANTS p1, p2, u1

MCPlayers  == {p1, p2}
MCAccountOf == [p \in Players |-> u1]

Symm == Permutations(Agents)
=============================================================================
