---------------------------- MODULE RecentOpIDs ----------------------------
(* The recent-op cache of internal/sim/crosscell.go: a ring of OpIDs and    *)
(* the set of those in it.  It is to behave as the bounded memory of the    *)
(* last RecentOpIDCapacity distinct operations that Ownership and Reconcile *)
(* use.  An unused slot of the ring holds OpID(0).                          *)
EXTENDS Integers, FiniteSets

CONSTANTS OpIDs, RecentOpIDCapacity

ASSUME RecentOpIDsConstants ==
  /\ OpIDs \subseteq Nat \ {0}
  /\ RecentOpIDCapacity \in Nat \ {0}

VARIABLES index, ring, start, count

cacheVars == <<index, ring, start, count>>

CacheSlots == 0..(RecentOpIDCapacity - 1)

CacheSlot(i) == (start + i) % RecentOpIDCapacity

newRecentOpIDs ==
  /\ index = {}
  /\ ring = [s \in CacheSlots |-> 0]
  /\ start = 0
  /\ count = 0

IsRecent(id) == id \in index

(* Mutant: a full ring overwrites the slot after the oldest.                *)
EvictNext(id) ==
  /\ ~IsRecent(id)
  /\ count = RecentOpIDCapacity
  /\ index' = (index \ {ring[start]}) \cup {id}
  /\ ring' = [ring EXCEPT ![CacheSlot(1)] = id]
  /\ start' = CacheSlot(1)
  /\ UNCHANGED count

(* insert at capacity: the oldest gives up its slot and the start moves.    *)
Evict(id) ==
  /\ ~IsRecent(id)
  /\ count = RecentOpIDCapacity
  /\ index' = (index \ {ring[start]}) \cup {id}
  /\ ring' = [ring EXCEPT ![start] = id]
  /\ start' = CacheSlot(1)
  /\ UNCHANGED count

(* insert below capacity; an operation in the index is not inserted again.  *)
Insert(id) ==
  /\ ~IsRecent(id)
  /\ count # RecentOpIDCapacity
  /\ index' = index \cup {id}
  /\ ring' = [ring EXCEPT ![CacheSlot(count)] = id]
  /\ count' = count + 1
  /\ UNCHANGED start

CacheNext == \E id \in OpIDs : Insert(id) \/ Evict(id)

CacheSpec == newRecentOpIDs /\ [][CacheNext]_cacheVars

-----------------------------------------------------------------------------

Kept == [i \in 1..count |-> ring[CacheSlot(i - 1)]]

OpMemory == INSTANCE BoundedMemory
            WITH Things <- OpIDs, Capacity <- RecentOpIDCapacity, kept <- Kept

(* The cache keeps the last distinct operations in the order they came.     *)
KeepsTheLastOps == OpMemory!DistinctSpec

=============================================================================
