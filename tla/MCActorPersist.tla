--------------------------- MODULE MCActorPersist ---------------------------
(* Instances of ActorPersist for TLC. *)
EXTENDS ActorPersist, TLC

Symm == Permutations(Consumers)
=============================================================================
