----------------------------- MODULE Ownership -----------------------------
(***************************************************************************)
(* Cell ownership of entities in internal/sim: the registry (world.go),    *)
(* handoff between cells (ownership.go), the movement intents that arrive  *)
(* while an entity migrates (engine.go), the operations other cells send   *)
(* it (crosscell.go), and what a player's death and its penalties do to    *)
(* them (death_lifecycle.go, death_runtime.go, death_penalty_runtime.go).  *)
(*                                                                         *)
(* One goroutine owns all of it, so every call is one action.  The engine  *)
(* begins and commits a handoff within one Step; the registry's own calls  *)
(* also allow other calls between the two, and the package's tests make    *)
(* them: both forms are modelled.  An intent is its sequence number.       *)
(***************************************************************************)
EXTENDS FiniteSets, Serial, KeepLast

CONSTANTS
  MaxEntities,    \* bound on the entities added
  Positions,      \* world positions
  CellOf,         \* CellOf[p]: the cell of position p (CellForPosition)
  MaxGeneration,  \* math.MaxUint64: the last ownership generation
  Modulus,        \* 2^32: the input sequence numbers wrap there
  Inputs,         \* the input sequence numbers clients send
  QueueCapacity,  \* MigrationMoveQueueCapacity
  Ops,            \* operations of other cells
  OpCapacity      \* RecentOpIDCapacity

Cells == {CellOf[p] : p \in Positions}
NoCell == "none"

(* An operation is retried only while its cache entry cannot be evicted.    *)
ASSUME OwnershipConstants ==
  /\ MaxEntities \in Nat
  /\ NoCell \notin Cells
  /\ MaxGeneration \in Nat \ {0}
  /\ Modulus \in Nat \ {0} /\ Modulus % 2 = 0
  /\ Inputs \subseteq 0..(Modulus - 1)
  /\ QueueCapacity \in Nat
  /\ OpCapacity \in Nat \ {0}
  /\ IsFiniteSet(Ops) /\ Cardinality(Ops) <= OpCapacity

VARIABLES
  nextID,     \* the next EntityID
  entity,     \* entity[i]: the entity object of i
  locator,    \* locator[i]: the cell i is resident in (entityCell)
  active,     \* the cells the registry has
  members,    \* members[c]: the residents of an active cell
  migration,  \* migration[i]: the open migration record of i
  tokens,     \* handoff tokens issued, any of which may come again
  life,       \* life[i]: i's lifeState
  held,       \* held[i]: the input whose directions i holds (activeHeldDirs)
  newest,     \* history, newest[i]: the last input accepted from i's client
  due,        \* history, due[i]: the one that should move i, None if a death
              \* came after it
  route,      \* route[o]: the target and owner the sender of o last read
  times       \* times[o]: how often o was applied

registry == <<locator, active, members, migration>>
player == <<life, held, newest, due>>
vars == <<nextID, entity, registry, tokens, player, route, times>>

-----------------------------------------------------------------------------
(* Types and null values *)

IDs == 1..MaxEntities
None == -1
Seqs == (0..(Modulus - 1)) \cup {None}

Owner == [cell: Cells, gen: 1..MaxGeneration]
Token == [id: IDs, from: Owner, to: Owner]

(* Alive, PlayerLifeDeathPersisting, PlayerLifeAwaitingRespawn and           *)
(* PlayerLifeDeathPenaltyPersisting.                                        *)
Lives == {"alive", "dying", "awaiting", "penalty"}

Entity == [owner: Owner, pos: Positions, accepted: Seqs, pending: Seqs,
           processed: Seqs, ops: Seq(Ops)]
Record == [from: Owner, to: Owner, source: Positions, queue: Seq(Inputs),
           frontier: Seqs]
Route == [target: IDs, owner: Owner]

NoEntity == [live |-> FALSE]
NoRecord == [open |-> FALSE]
NoRoute == [read |-> FALSE]

Live(i) == entity[i] # NoEntity
Migrating(i) == migration[i] # NoRecord
Resident(i) == locator[i] # NoCell

-----------------------------------------------------------------------------
(* The registry *)

AddEntity(p) ==
  LET c == CellOf[p] IN
  /\ nextID <= MaxEntities
  /\ entity' = [entity EXCEPT ![nextID] =
       [owner |-> [cell |-> c, gen |-> 1], pos |-> p, accepted |-> None,
        pending |-> None, processed |-> None, ops |-> <<>>]]
  /\ locator' = [locator EXCEPT ![nextID] = c]
  /\ active' = active \cup {c}
  /\ members' = [members EXCEPT ![c] = members[c] \cup {nextID}]
  /\ nextID' = nextID + 1
  /\ UNCHANGED <<migration, tokens, player, route, times>>

(* The object goes, with its life and its control.                          *)
ForgetPlayer(i) ==
  /\ life' = [life EXCEPT ![i] = "alive"]
  /\ held' = [held EXCEPT ![i] = None]
  /\ UNCHANGED <<newest, due>>

RemoveResident(i) ==
  LET c == locator[i] IN
  /\ Resident(i)
  /\ entity' = [entity EXCEPT ![i] = NoEntity]
  /\ locator' = [locator EXCEPT ![i] = NoCell]
  /\ members' = [members EXCEPT ![c] = members[c] \ {i}]
  /\ active' = IF members[c] = {i} THEN active \ {c} ELSE active
  /\ ForgetPlayer(i)
  /\ UNCHANGED <<nextID, migration, tokens, route, times>>

(* The record goes, and the entity with it; the source cell stays.          *)
RemoveMigrating(i) ==
  /\ Migrating(i)
  /\ entity' = [entity EXCEPT ![i] = NoEntity]
  /\ migration' = [migration EXCEPT ![i] = NoRecord]
  /\ ForgetPlayer(i)
  /\ UNCHANGED <<nextID, locator, active, members, tokens, route, times>>

SetPosition(i, p) ==
  /\ Resident(i)
  /\ life[i] = "alive"
  /\ CellOf[p] = locator[i]
  /\ entity' = [entity EXCEPT ![i] = [entity[i] EXCEPT !.pos = p]]
  /\ UNCHANGED <<nextID, registry, tokens, player, route, times>>

-----------------------------------------------------------------------------
(* Movement intents *)

(* classifyMoveIntent accepts the first input and any serially later one;   *)
(* duplicates, stale ones and the ambiguous half range change nothing.      *)
Newer(accepted, s) == accepted = None \/ After(Modulus, s, accepted)

Controlled(e, s) == [e EXCEPT !.accepted = s, !.pending = s]

Sequenced(x, s) == IF Newer(x.accepted, s) THEN Controlled(x, s) ELSE x

(* replayMigrationMoves: the resident sequencing over the queued intents.   *)
Replay(control, queue) ==
  LET after[k \in 0..Len(queue)] ==
        IF k = 0 THEN control ELSE Sequenced(after[k - 1], queue[k])
  IN after[Len(queue)]

Replayed(e, queue) ==
  LET last == Replay([accepted |-> e.accepted, pending |-> e.pending], queue)
  IN [e EXCEPT !.accepted = last.accepted, !.pending = last.pending]

(* The intent s is accepted.                                                *)
Accepts(i, s) ==
  /\ newest' = [newest EXCEPT ![i] = s]
  /\ due' = [due EXCEPT ![i] = s]
  /\ UNCHANGED <<life, held>>

(* A player that is dead, or held for its penalties, accepts none.          *)
SubmitMove(i, s) ==
  /\ Resident(i)
  /\ life[i] = "alive"
  /\ Newer(entity[i].accepted, s)
  /\ entity' = [entity EXCEPT ![i] = Controlled(entity[i], s)]
  /\ Accepts(i, s)
  /\ UNCHANGED <<nextID, registry, tokens, route, times>>

(* A full queue rejects the intent and its number stays unused.             *)
SubmitMigrating(i, s) ==
  /\ Migrating(i)
  /\ life[i] = "alive"
  /\ Newer(migration[i].frontier, s)
  /\ Len(migration[i].queue) < QueueCapacity
  /\ migration' = [migration EXCEPT ![i] =
       [migration[i] EXCEPT !.queue = Append(migration[i].queue, s), !.frontier = s]]
  /\ Accepts(i, s)
  /\ UNCHANGED <<nextID, entity, locator, active, members, tokens, route, times>>

-----------------------------------------------------------------------------
(* Handoff *)

NextOwner(o, c) == [cell |-> c, gen |-> o.gen + 1]

(* Mutant: the source keeps its member.                                     *)
BeginHandoffCopying(i, p) ==
  LET e == entity[i]
      to == NextOwner(e.owner, CellOf[p])
  IN
  /\ Resident(i)
  /\ CellOf[p] # locator[i]
  /\ e.owner.gen < MaxGeneration
  /\ migration' = [migration EXCEPT ![i] =
       [from |-> e.owner, to |-> to, source |-> e.pos, queue |-> <<>>,
        frontier |-> e.accepted]]
  /\ entity' = [entity EXCEPT ![i] = [e EXCEPT !.pos = p]]
  /\ locator' = [locator EXCEPT ![i] = NoCell]
  /\ tokens' = tokens \cup {[id |-> i, from |-> e.owner, to |-> to]}
  /\ UNCHANGED <<nextID, active, members, player, route, times>>

(* The record takes the entity out of its cell; an exhausted generation     *)
(* and a destination that is the source are refused.                        *)
BeginHandoff(i, p) ==
  LET e == entity[i]
      to == NextOwner(e.owner, CellOf[p])
  IN
  /\ Resident(i)
  /\ CellOf[p] # locator[i]
  /\ e.owner.gen < MaxGeneration
  /\ migration' = [migration EXCEPT ![i] =
       [from |-> e.owner, to |-> to, source |-> e.pos, queue |-> <<>>,
        frontier |-> e.accepted]]
  /\ entity' = [entity EXCEPT ![i] = [e EXCEPT !.pos = p]]
  /\ locator' = [locator EXCEPT ![i] = NoCell]
  /\ members' = [members EXCEPT ![e.owner.cell] = members[e.owner.cell] \ {i}]
  /\ tokens' = tokens \cup {[id |-> i, from |-> e.owner, to |-> to]}
  /\ UNCHANGED <<nextID, active, player, route, times>>

(* A token installs its transfer only while that transfer is open; without  *)
(* one it answers duplicate, stale or mismatch and changes nothing.         *)
Opens(t) ==
  /\ Migrating(t.id)
  /\ migration[t.id].from = t.from
  /\ migration[t.id].to = t.to

InstallBy(t, e) ==
  /\ entity' = [entity EXCEPT ![t.id] = e]
  /\ locator' = [locator EXCEPT ![t.id] = t.to.cell]
  /\ members' = [members EXCEPT ![t.to.cell] = members[t.to.cell] \cup {t.id}]
  /\ migration' = [migration EXCEPT ![t.id] = NoRecord]
  /\ active' = (active \cup {t.to.cell}) \
                  {c \in {t.from.cell} : members[c] = {}}

(* Mutant: the destination builds a new entity, without the op cache.       *)
CommitHandoffFresh(t) ==
  /\ Opens(t)
  /\ InstallBy(t, [Replayed(entity[t.id], migration[t.id].queue)
                     EXCEPT !.owner = t.to, !.ops = <<>>])
  /\ UNCHANGED <<nextID, tokens, player, route, times>>

(* commitHandoff's branch for an entity that is a member of its destination *)
(* already is not modelled: RegistryWhole says there is none.               *)
CommitHandoff(t) ==
  /\ Opens(t)
  /\ InstallBy(t, [Replayed(entity[t.id], migration[t.id].queue)
                     EXCEPT !.owner = t.to])
  /\ UNCHANGED <<nextID, tokens, player, route, times>>

(* Mutant: the queued intents of an aborted migration are dropped.          *)
AbortHandoffDropping(i) ==
  LET r == migration[i]
      c == r.from.cell
  IN
  /\ Migrating(i)
  /\ entity' = [entity EXCEPT ![i] = [entity[i] EXCEPT !.owner = r.from, !.pos = r.source]]
  /\ locator' = [locator EXCEPT ![i] = c]
  /\ members' = [members EXCEPT ![c] = members[c] \cup {i}]
  /\ active' = active \cup {c}
  /\ migration' = [migration EXCEPT ![i] = NoRecord]
  /\ UNCHANGED <<nextID, tokens, player, route, times>>

AbortHandoff(i) ==
  LET r == migration[i]
      c == r.from.cell
  IN
  /\ Migrating(i)
  /\ entity' = [entity EXCEPT ![i] =
       [Replayed(entity[i], r.queue) EXCEPT !.owner = r.from, !.pos = r.source]]
  /\ locator' = [locator EXCEPT ![i] = c]
  /\ members' = [members EXCEPT ![c] = members[c] \cup {i}]
  /\ active' = active \cup {c}
  /\ migration' = [migration EXCEPT ![i] = NoRecord]
  /\ UNCHANGED <<nextID, tokens, player, route, times>>

-----------------------------------------------------------------------------
(* One entity's turn in Step: its pending control is consumed, and its      *)
(* movement ends at p, where it was unless it holds a direction.  A player  *)
(* that is held for its penalties has no turn.                              *)

Consumed(e) ==
  IF e.pending = None THEN e
  ELSE [e EXCEPT !.pending = None, !.processed = e.pending]

Control(i) == IF entity[i].pending = None THEN held[i] ELSE entity[i].pending

Turn(i) ==
  /\ Resident(i)
  /\ life[i] # "penalty"
  /\ held' = [held EXCEPT ![i] = Control(i)]
  /\ UNCHANGED <<life, newest, due>>

StepWithin(i, p) ==
  /\ Turn(i)
  /\ CellOf[p] = locator[i]
  /\ p # entity[i].pos => Control(i) # None
  /\ entity' = [entity EXCEPT ![i] = [Consumed(entity[i]) EXCEPT !.pos = p]]
  /\ UNCHANGED <<nextID, registry, tokens, route, times>>

(* beginHandoff and commitHandoff at once: the member i of one cell is x at *)
(* p, in another.                                                           *)
Transfer(i, x, p) ==
  LET o == entity[i].owner
      to == NextOwner(o, CellOf[p])
  IN
  /\ CellOf[p] # locator[i]
  /\ o.gen < MaxGeneration
  /\ entity' = [entity EXCEPT ![i] = [x EXCEPT !.pos = p, !.owner = to]]
  /\ locator' = [locator EXCEPT ![i] = to.cell]
  /\ members' = [members EXCEPT ![o.cell] = members[o.cell] \ {i},
                                ![to.cell] = members[to.cell] \cup {i}]
  /\ active' = (active \cup {to.cell}) \ {c \in {o.cell} : members[c] = {i}}
  /\ tokens' = tokens \cup {[id |-> i, from |-> o, to |-> to]}
  /\ UNCHANGED <<nextID, migration, route, times>>

StepAcross(i, p) ==
  /\ Turn(i)
  /\ Control(i) # None
  /\ Transfer(i, Consumed(entity[i]), p)

(* Without a generation left the entity holds its position.                 *)
StepHeld(i, p) ==
  /\ Turn(i)
  /\ Control(i) # None
  /\ CellOf[p] # locator[i]
  /\ entity[i].owner.gen = MaxGeneration
  /\ entity' = [entity EXCEPT ![i] = Consumed(entity[i])]
  /\ UNCHANGED <<nextID, registry, tokens, route, times>>

-----------------------------------------------------------------------------
(* The death of a player, once it is a member of a cell: one that migrates  *)
(* is refused each of these calls.                                          *)

Quiesced(e) == [e EXCEPT !.pending = None]

LifeBecomes(i, from, to) ==
  /\ Resident(i)
  /\ life[i] = from
  /\ life' = [life EXCEPT ![i] = to]

(* The pending intent is discarded and the held directions are cleared; the *)
(* accepted and the processed number stay (PlayerQuiesceForDeath).          *)
Stops(i) ==
  /\ held' = [held EXCEPT ![i] = None]
  /\ due' = [due EXCEPT ![i] = None]
  /\ UNCHANGED newest

PlayerBeginDeathPersistence(i) ==
  /\ LifeBecomes(i, "alive", "dying")
  /\ entity' = [entity EXCEPT ![i] = Quiesced(entity[i])]
  /\ Stops(i)
  /\ UNCHANGED <<nextID, registry, tokens, route, times>>

(* PlayerAcceptPostDeathState and PlayerAcceptImmediateDeathCompletion put  *)
(* the player where PlayerInstallPostDeathState places it.  A repeated      *)
(* completion, and one that would need a generation too many, change        *)
(* nothing.                                                                 *)
PostDeathWithin(i, p) ==
  /\ LifeBecomes(i, "dying", "awaiting")
  /\ CellOf[p] = locator[i]
  /\ entity' = [entity EXCEPT ![i] = [Quiesced(entity[i]) EXCEPT !.pos = p]]
  /\ Stops(i)
  /\ UNCHANGED <<nextID, registry, tokens, route, times>>

PostDeathAcross(i, p) ==
  /\ LifeBecomes(i, "dying", "awaiting")
  /\ Transfer(i, Quiesced(entity[i]), p)
  /\ Stops(i)

PlayerReleaseRespawn(i) ==
  /\ LifeBecomes(i, "awaiting", "alive")
  /\ UNCHANGED <<nextID, entity, registry, tokens, held, newest, due, route, times>>

(* The lock for the penalties leaves the pending intent and the held        *)
(* directions as they are.                                                  *)
PlayerOrchestrateDeathPenalties(i) ==
  /\ LifeBecomes(i, "alive", "penalty")
  /\ UNCHANGED <<nextID, entity, registry, tokens, held, newest, due, route, times>>

PlayerAcceptDeathPenaltyCompletion(i) ==
  /\ LifeBecomes(i, "penalty", "alive")
  /\ UNCHANGED <<nextID, entity, registry, tokens, held, newest, due, route, times>>

-----------------------------------------------------------------------------
(* Operations of other cells *)

(* The sender reads the target's owner, and reads it again before a retry.  *)
ReadRoute(o, i) ==
  /\ Live(i)
  /\ route[o] # NoRoute => route[o].target = i
  /\ route' = [route EXCEPT ![o] = [target |-> i, owner |-> entity[i].owner]]
  /\ UNCHANGED <<nextID, entity, registry, tokens, player, times>>

(* deliverCrossCellOp where the callback succeeds; a duplicate, a stale     *)
(* route, a migrating target and a failing callback change nothing.         *)
Deliver(o) ==
  LET i == route[o].target IN
  /\ route[o] # NoRoute
  /\ Resident(i)
  /\ entity[i].owner = route[o].owner
  /\ ~Holds(entity[i].ops, o)
  /\ entity' = [entity EXCEPT ![i] = [entity[i] EXCEPT
                  !.ops = Pushed(OpCapacity, entity[i].ops, o)]]
  /\ times' = [times EXCEPT ![o] = times[o] + 1]
  /\ UNCHANGED <<nextID, registry, tokens, player, route>>

-----------------------------------------------------------------------------

Init ==
  /\ nextID = 1
  /\ entity = [i \in IDs |-> NoEntity]
  /\ locator = [i \in IDs |-> NoCell]
  /\ active = {}
  /\ members = [c \in Cells |-> {}]
  /\ migration = [i \in IDs |-> NoRecord]
  /\ tokens = {}
  /\ life = [i \in IDs |-> "alive"]
  /\ held = [i \in IDs |-> None]
  /\ newest = [i \in IDs |-> None]
  /\ due = [i \in IDs |-> None]
  /\ route = [o \in Ops |-> NoRoute]
  /\ times = [o \in Ops |-> 0]

Next ==
  \/ \E p \in Positions : AddEntity(p)
  \/ \E i \in IDs :
       \/ RemoveResident(i) \/ RemoveMigrating(i) \/ AbortHandoff(i)
       \/ PlayerBeginDeathPersistence(i) \/ PlayerReleaseRespawn(i)
       \/ PlayerOrchestrateDeathPenalties(i) \/ PlayerAcceptDeathPenaltyCompletion(i)
  \/ \E i \in IDs, p \in Positions :
       \/ SetPosition(i, p) \/ BeginHandoff(i, p)
       \/ StepWithin(i, p) \/ StepAcross(i, p) \/ StepHeld(i, p)
       \/ PostDeathWithin(i, p) \/ PostDeathAcross(i, p)
  \/ \E i \in IDs, s \in Inputs : SubmitMove(i, s) \/ SubmitMigrating(i, s)
  \/ \E t \in tokens : CommitHandoff(t)
  \/ \E o \in Ops : Deliver(o) \/ \E i \in IDs : ReadRoute(o, i)

Spec == Init /\ [][Next]_vars

-----------------------------------------------------------------------------
(* Properties *)

(* Every variable has its type, and the intents of a migration fit its      *)
(* queue.                                                                   *)
TypeOK ==
  /\ nextID \in 1..(MaxEntities + 1)
  /\ entity \in [IDs -> Entity \cup {NoEntity}]
  /\ locator \in [IDs -> Cells \cup {NoCell}]
  /\ active \subseteq Cells
  /\ members \in [Cells -> SUBSET IDs]
  /\ migration \in [IDs -> Record \cup {NoRecord}]
  /\ \A i \in IDs : Migrating(i) => Len(migration[i].queue) <= QueueCapacity
  /\ tokens \subseteq Token
  /\ life \in [IDs -> Lives]
  /\ held \in [IDs -> Seqs]
  /\ newest \in [IDs -> Seqs]
  /\ due \in [IDs -> Seqs]
  /\ route \in [Ops -> Route \cup {NoRoute}]
  /\ times \in [Ops -> Nat]

(* A live entity is either a member of exactly the cell its locator and its  *)
(* owner name, or in one migration record and in no cell.  Its position lies *)
(* in its cell, or in the destination while it migrates, and an abort puts   *)
(* it back into the source exactly (beginHandoff .. abortHandoff).           *)
Residency ==
  \A i \in IDs :
    /\ Live(i) <=> Resident(i) \/ Migrating(i)
    /\ ~(Resident(i) /\ Migrating(i))
    /\ {c \in Cells : i \in members[c]} = {locator[i]} \ {NoCell}
    /\ Resident(i) =>
         /\ entity[i].owner.cell = locator[i]
         /\ locator[i] \in active
         /\ CellOf[entity[i].pos] = locator[i]
    /\ Migrating(i) =>
         /\ entity[i].owner = migration[i].from
         /\ CellOf[entity[i].pos] = migration[i].to.cell
         /\ CellOf[migration[i].source] = migration[i].from.cell

(* No entity is lost or doubled, whatever tokens come again, and every       *)
(* variable has its type.                                                    *)
RegistryWhole == TypeOK /\ Residency

(* The last input the engine accepted from a client is the one that moves    *)
(* its entity, queued through a migration or waiting for a turn or not, and  *)
(* no earlier one does; after a death none does until another is accepted,   *)
(* and none that was accepted before is accepted again (SubmitMove,          *)
(* submitMigrating, replayMigrationMoves, PlayerQuiesceForDeath).            *)
NewestInputControls ==
  \A i \in IDs :
    /\ Resident(i) =>
         /\ entity[i].accepted = newest[i]
         /\ Control(i) = due[i]
    /\ Migrating(i) =>
         LET e == Replayed(entity[i], migration[i].queue) IN
         /\ migration[i].frontier = newest[i]
         /\ e.accepted = newest[i]
         /\ (IF e.pending = None THEN held[i] ELSE e.pending) = due[i]
    /\ life[i] \in {"dying", "awaiting"} => due[i] = None

(* While its target lives, an operation is in the target's cache exactly     *)
(* when it was applied, and it is never applied twice, across retries,       *)
(* re-read routes and handoffs (deliverCrossCellOp).                         *)
AppliedOnce ==
  \A o \in Ops :
    /\ times[o] <= 1
    /\ route[o] # NoRoute /\ Live(route[o].target) =>
         (Holds(entity[route[o].target].ops, o) <=> times[o] = 1)

=============================================================================
