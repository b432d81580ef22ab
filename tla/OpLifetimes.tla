----------------------------- MODULE OpLifetimes -----------------------------
(***************************************************************************)
(* What the background database promises the actors that queue their       *)
(* saves: an operation that was accepted is executed once, then its        *)
(* callback runs once, and Stop returns only when nothing is left.         *)
(***************************************************************************)
CONSTANT Ops
VARIABLES waiting, executed, called, open

vars == <<waiting, executed, called, open>>

Init == waiting = {} /\ executed = {} /\ called = {} /\ open = TRUE

Accept(o) ==
  /\ open /\ o \notin waiting \cup executed \cup called
  /\ waiting' = waiting \cup {o}
  /\ UNCHANGED <<executed, called, open>>

Execute(o) ==
  /\ open /\ o \in waiting
  /\ waiting' = waiting \ {o} /\ executed' = executed \cup {o}
  /\ UNCHANGED <<called, open>>

Call(o) ==
  /\ open /\ o \in executed
  /\ executed' = executed \ {o} /\ called' = called \cup {o}
  /\ UNCHANGED <<waiting, open>>

Stopped ==
  /\ waiting = {} /\ executed = {} /\ open
  /\ open' = FALSE
  /\ UNCHANGED <<waiting, executed, called>>

Next == Stopped \/ \E o \in Ops : Accept(o) \/ Execute(o) \/ Call(o)
Spec == Init /\ [][Next]_vars
=============================================================================
