---------------------------- MODULE ModuleStore ----------------------------
(***************************************************************************)
(* What the persistence of one actor promises to whoever uses the actor:   *)
(* every part of its model (the version field and the modules) has a value *)
(* in memory and a value in the store, counted in changes.  The store only *)
(* moves forward, towards values the memory has held, and an actor that    *)
(* starts begins from exactly what the store holds.                        *)
(***************************************************************************)
EXTENDS Naturals

CONSTANT Parts      \* the version field and the modules of the model

VARIABLES
    open,   \* the actor object exists
    cur,    \* the value its memory holds (or held last)
    saved   \* the value the store holds

storeVars == <<open, cur, saved>>

StoreTypeOK ==
    /\ open \in BOOLEAN
    /\ cur \in [Parts -> Nat]
    /\ saved \in [Parts -> Nat]

StoreInit ==
    /\ open = FALSE
    /\ cur = [p \in Parts |-> 0]
    /\ saved = [p \in Parts |-> 0]

(* The store catches up with some of the changes made in memory. *)
Forward ==
    /\ saved' \in [Parts -> Nat]
    /\ \A p \in Parts : saved[p] <= saved'[p] /\ saved'[p] <= cur[p]

Open ==
    /\ ~open
    /\ open' = TRUE
    /\ cur' = saved
    /\ UNCHANGED saved

(* Some parts change in memory, each once. *)
Modify ==
    /\ open
    /\ \E S \in SUBSET Parts :
          cur' = [p \in Parts |-> IF p \in S THEN cur[p] + 1 ELSE cur[p]]
    /\ UNCHANGED <<open, saved>>

Persist == Forward /\ UNCHANGED <<open, cur>>

(* A stop may persist what it still has; a crash persists nothing. *)
Close == open /\ open' = FALSE /\ Forward /\ UNCHANGED cur

StoreNext == Open \/ Modify \/ Persist \/ Close

StoreSpec == StoreInit /\ [][StoreNext]_storeVars
=============================================================================
