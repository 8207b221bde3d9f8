---------------------------- MODULE EntityMemory ----------------------------
(* What one entity remembers, and the identities it remembers: workers      *)
(* issue operation identities, the entity inserts those it applied into its *)
(* recent-op cache, in any order and with repetitions, and each tick adds a *)
(* sample to its position history (entity.go keeps both rings).             *)
EXTENDS OpIDGenerator, RecentOpIDs, PositionHistory

memoryVars == <<generatorVars, cacheVars, historyVars>>

MemoryInit == GeneratorInit /\ newRecentOpIDs /\ newPositionHistory

(* Only an identity that was issued reaches the cache.                      *)
Remember == \E id \in issued : Insert(id) \/ Evict(id)

MemoryNext ==
  \/ GeneratorNext /\ UNCHANGED <<cacheVars, historyVars>>
  \/ Remember /\ UNCHANGED <<generatorVars, historyVars>>
  \/ HistoryNext /\ UNCHANGED <<generatorVars, cacheVars>>

MemorySpec == MemoryInit /\ [][MemoryNext]_memoryVars

(* The identities the generators can form.                                  *)
Identities == 1..((MaxDelta + 1) * (MaxWorker + 1) * (MaxSequence + 1) - 1)

(* Both rings are the bounded memories the other modules take them for: the *)
(* cache keeps the last distinct operations in the order they came, and the *)
(* history the samples since the last Reset.                                *)
MemoriesKeepTheLast == KeepsTheLastOps /\ KeepsTheLastSamples

=============================================================================
