--------------------------- MODULE MCAggregates ---------------------------
(* What the engine's goroutine keeps of live aggregates: who owns them      *)
(* (Ownership), what they remember (EntityMemory) and what they owe to      *)
(* PostgreSQL (Reconcile), for TLC.  The three share no variable, so each   *)
(* is explored while the other two rest in their initial state: an          *)
(* interleaving of them shows each no state that it does not reach alone.   *)
EXTENDS Ownership, Reconcile, EntityMemory

(* Four positions: two in the western cell, one in each of two others.      *)
Spots == {"w1", "w2", "e1", "n1"}
SpotCell ==
  [p \in Spots |->
     CASE p = "e1" -> "east" [] p = "n1" -> "north" [] OTHER -> "west"]

(* Bound: one entity that is sent inputs and operations, or several that    *)
(* are sent neither.                                                        *)
Unsent ==
  /\ newest = [i \in IDs |-> None] /\ route = [o \in Ops |-> NoRoute]
  /\ life = [i \in IDs |-> "alive"]
OwnershipNext == Next /\ (nextID' <= 2 \/ Unsent')

MCInit == Init /\ ReconcileInit /\ MemoryInit

MCNext ==
  \/ ReconcileInit /\ MemoryInit /\ OwnershipNext /\ UNCHANGED <<reconcileVars, memoryVars>>
  \/ Init /\ MemoryInit /\ ReconcileNext /\ UNCHANGED <<vars, memoryVars>>
  \/ Init /\ ReconcileInit /\ MemoryNext /\ UNCHANGED <<vars, reconcileVars>>

MCSpec == MCInit /\ [][MCNext]_<<vars, reconcileVars, memoryVars>>

===========================================================================
