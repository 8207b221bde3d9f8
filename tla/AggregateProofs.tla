--------------------------- MODULE AggregateProofs ---------------------------
(***************************************************************************)
(* Theorems of what the engine's goroutine keeps of live aggregates.       *)
(* Ownership.tla, for every number of entities, every geometry of cells    *)
(* and every set of operations: no entity is lost or doubled, no operation *)
(* is applied twice, and the input accepted last controls.  Reconcile.tla, *)
(* for every set of aggregates, every bound on revisions and every         *)
(* capacity of the recent-op cache: memory is a prefix of what PostgreSQL  *)
(* committed, and blocks until it is all of it.  EntityMemory.tla, for any  *)
(* workers, widths and capacities: identities are never issued twice, and   *)
(* the rings keep the last of what was put into them.                       *)
(***************************************************************************)
EXTENDS Ownership, Reconcile, EntityMemory, FiniteSetTheorems, WellFoundedInduction, TLAPS

-----------------------------------------------------------------------------
(* Induction over the naturals *)

LEMMA LeastElement ==
  ASSUME NEW T \in SUBSET Nat, T # {}
  PROVE  \E x \in T : \A y \in T : x <= y
<1>1. PICK x \in T : \A y \in T : ~(<<y, x>> \in OpToRel(<, Nat))
  BY WFMin, NatLessThanWellFounded
<1>2. ASSUME NEW y \in T PROVE x <= y
  <2>1. x \in Nat /\ y \in Nat
    OBVIOUS
  <2>2. ~(y < x)
    BY <1>1, <2>1 DEF OpToRel
  <2> QED
    BY <2>1, <2>2
<1> QED
  BY <1>2

(* Induction: the property is given as the set of the numbers that have it.  *)
LEMMA SetInduction ==
  ASSUME NEW T, 0 \in T, \A n \in Nat : n \in T => n + 1 \in T
  PROVE  Nat \subseteq T
<1> SUFFICES ASSUME Nat \ T # {} PROVE FALSE
  OBVIOUS
<1>1. PICK x \in Nat \ T : \A y \in Nat \ T : x <= y
  BY LeastElement, Zenon
<1>2. x # 0 /\ x - 1 \in Nat /\ x - 1 \notin Nat \ T
  BY <1>1
<1> QED
  BY <1>1, <1>2

-----------------------------------------------------------------------------
(* What pushing onto a bounded memory keeps, for any capacity *)

(* Pushing keeps a sequence, and holds nothing but the old and the new.     *)
LEMMA PushedType ==
  ASSUME NEW S, NEW s \in Seq(S), NEW x \in S, NEW n \in Nat \ {0}
  PROVE  Pushed(n, s, x) \in Seq(S)
<1>1. CASE Len(s) = n
  <2>1. s # <<>>
    BY <1>1
  <2>2. Tail(s) \in Seq(S)
    BY <2>1
  <2> QED
    BY <1>1, <2>2 DEF Pushed
<1>2. CASE Len(s) # n
  BY <1>2 DEF Pushed
<1> QED
  BY <1>1, <1>2

LEMMA PushedHolds ==
  ASSUME NEW S, NEW s \in Seq(S), NEW x \in S, NEW n \in Nat \ {0}, NEW y \in S,
         Holds(Pushed(n, s, x), y)
  PROVE  y = x \/ Holds(s, y)
<1>1. CASE Len(s) = n
  <2>1. s # <<>>
    BY <1>1
  <2>2. /\ Tail(s) \in Seq(S)
        /\ Len(Tail(s)) = Len(s) - 1
        /\ \A i \in 1..(Len(s) - 1) : Tail(s)[i] = s[i + 1]
    BY <2>1
  <2>3. Pushed(n, s, x) = Append(Tail(s), x)
    BY <1>1 DEF Pushed
  <2>4. PICK i \in 1..Len(Append(Tail(s), x)) : Append(Tail(s), x)[i] = y
    BY <2>3 DEF Holds
  <2>5. CASE i = Len(s)
    BY <2>2, <2>4, <2>5
  <2>6. CASE i # Len(s)
    <3>1. i \in 1..(Len(s) - 1) /\ i + 1 \in 1..Len(s)
      <4>1. Len(Append(Tail(s), x)) = Len(s) /\ Len(s) \in Nat
        BY <2>2
      <4>2. i \in 1..Len(s)
        BY <4>1, Zenon
      <4> QED
        BY <2>6, <4>1, <4>2
    <3>2. s[i + 1] = y
      BY <2>2, <2>4, <3>1
    <3> QED
      BY <3>1, <3>2 DEF Holds
  <2> QED
    BY <2>5, <2>6
<1>2. CASE Len(s) # n
  <2>1. Pushed(n, s, x) = Append(s, x)
    BY <1>2 DEF Pushed
  <2>2. PICK i \in 1..Len(Append(s, x)) : Append(s, x)[i] = y
    BY <2>1 DEF Holds
  <2>3. CASE i = Len(s) + 1
    BY <2>2, <2>3
  <2>4. CASE i # Len(s) + 1
    <3>1. i \in 1..Len(s) /\ s[i] = y
      BY <2>2, <2>4
    <3> QED
      BY <3>1 DEF Holds
  <2> QED
    BY <2>3, <2>4
<1> QED
  BY <1>1, <1>2

(* Below capacity nothing is forgotten.                                     *)
LEMMA PushedBelow ==
  ASSUME NEW S, NEW s \in Seq(S), NEW x \in S, NEW n \in Nat \ {0}, Len(s) < n,
         NEW y
  PROVE  /\ Pushed(n, s, x) = Append(s, x)
         /\ Holds(Pushed(n, s, x), y) <=> y = x \/ Holds(s, y)
<1>1. Pushed(n, s, x) = Append(s, x)
  BY DEF Pushed
<1>2. /\ Len(Append(s, x)) = Len(s) + 1
      /\ Len(s) \in Nat
      /\ \A i \in 1..Len(s) : Append(s, x)[i] = s[i]
      /\ Append(s, x)[Len(s) + 1] = x
  OBVIOUS
<1>3. Holds(Append(s, x), y) => y = x \/ Holds(s, y)
  <2> SUFFICES ASSUME NEW i \in 1..(Len(s) + 1), Append(s, x)[i] = y
               PROVE  y = x \/ Holds(s, y)
    BY <1>2 DEF Holds
  <2>1. CASE i = Len(s) + 1
    BY <1>2, <2>1
  <2>2. CASE i # Len(s) + 1
    BY <1>2, <2>2 DEF Holds
  <2> QED
    BY <2>1, <2>2
<1>4. y = x => Holds(Append(s, x), y)
  BY <1>2 DEF Holds
<1>5. Holds(s, y) => Holds(Append(s, x), y)
  <2> SUFFICES ASSUME NEW i \in 1..Len(s), s[i] = y
               PROVE  Holds(Append(s, x), y)
    BY DEF Holds
  <2>1. i \in 1..Len(Append(s, x)) /\ Append(s, x)[i] = y
    BY <1>2
  <2> QED
    BY <2>1 DEF Holds
<1> QED
  BY <1>1, <1>3, <1>4, <1>5

-----------------------------------------------------------------------------
(* Entities and migration records *)

(* An entity object, whatever inputs its client sent.                       *)
IsEntity(e) ==
  /\ e = [owner |-> e.owner, pos |-> e.pos, accepted |-> e.accepted,
          pending |-> e.pending, processed |-> e.processed, ops |-> e.ops]
  /\ e.owner \in Owner
  /\ e.pos \in Positions
  /\ e.ops \in Seq(Ops)

(* A migration record: it leads from one cell to another.                   *)
IsRecord(r) ==
  /\ r = [from |-> r.from, to |-> r.to, source |-> r.source, queue |-> r.queue,
          frontier |-> r.frontier]
  /\ r.from \in Owner
  /\ r.to \in Owner
  /\ r.source \in Positions
  /\ r.from.cell # r.to.cell

LEMMA EntityIsLive ==
  ASSUME NEW e, IsEntity(e)
  PROVE  e # NoEntity
<1>1. DOMAIN e = {"owner", "pos", "accepted", "pending", "processed", "ops"}
  BY DEF IsEntity
<1>2. DOMAIN NoEntity = {"live"}
  BY DEF NoEntity
<1> QED
  BY <1>1, <1>2

LEMMA RecordIsOpen ==
  ASSUME NEW r, IsRecord(r)
  PROVE  r # NoRecord
<1>1. DOMAIN r = {"from", "to", "source", "queue", "frontier"}
  BY DEF IsRecord
<1>2. DOMAIN NoRecord = {"open"}
  BY DEF NoRecord
<1> QED
  BY <1>1, <1>2

(* Inputs and positions change, the owner and the cache stay.               *)
LEMMA MovedEntity ==
  ASSUME NEW e, IsEntity(e), NEW p \in Positions
  PROVE  /\ IsEntity([e EXCEPT !.pos = p])
         /\ [e EXCEPT !.pos = p].pos = p
         /\ [e EXCEPT !.pos = p].owner = e.owner
         /\ [e EXCEPT !.pos = p].ops = e.ops
BY DEF IsEntity

LEMMA ControlledEntity ==
  ASSUME NEW e, IsEntity(e), NEW s
  PROVE  /\ IsEntity(Controlled(e, s))
         /\ Controlled(e, s).pos = e.pos
         /\ Controlled(e, s).owner = e.owner
         /\ Controlled(e, s).ops = e.ops
<1>1. Controlled(e, s) = [e EXCEPT !.accepted = s, !.pending = s]
  BY DEF Controlled
<1> QED
  BY <1>1 DEF IsEntity

LEMMA ConsumedEntity ==
  ASSUME NEW e, IsEntity(e)
  PROVE  /\ IsEntity(Consumed(e))
         /\ Consumed(e).pos = e.pos
         /\ Consumed(e).owner = e.owner
         /\ Consumed(e).ops = e.ops
BY DEF IsEntity, Consumed

LEMMA QuiescedEntity ==
  ASSUME NEW e, IsEntity(e)
  PROVE  /\ IsEntity(Quiesced(e))
         /\ Quiesced(e).pos = e.pos
         /\ Quiesced(e).owner = e.owner
         /\ Quiesced(e).ops = e.ops
BY DEF IsEntity, Quiesced

(* Whatever the replay accepts, it changes the control of the entity only.  *)
LEMMA ReplayedEntity ==
  ASSUME NEW e, IsEntity(e), NEW q
  PROVE  /\ IsEntity(Replayed(e, q))
         /\ Replayed(e, q).pos = e.pos
         /\ Replayed(e, q).owner = e.owner
         /\ Replayed(e, q).ops = e.ops
<1> DEFINE last == Replay([accepted |-> e.accepted, pending |-> e.pending], q)
<1>1. Replayed(e, q) = [e EXCEPT !.accepted = last.accepted, !.pending = last.pending]
  BY DEF Replayed
<1> HIDE DEF last
<1> QED
  BY <1>1 DEF IsEntity

LEMMA OwnedEntity ==
  ASSUME NEW e, IsEntity(e), NEW w \in Owner
  PROVE  /\ IsEntity([e EXCEPT !.owner = w])
         /\ [e EXCEPT !.owner = w].pos = e.pos
         /\ [e EXCEPT !.owner = w].owner = w
         /\ [e EXCEPT !.owner = w].ops = e.ops
BY DEF IsEntity

(* An entity put somewhere else under an owner.                             *)
Placed(e, w, p) == [e EXCEPT !.owner = w, !.pos = p]

LEMMA PlacedEntity ==
  ASSUME NEW e, IsEntity(e), NEW w \in Owner, NEW p \in Positions
  PROVE  /\ IsEntity(Placed(e, w, p))
         /\ Placed(e, w, p).pos = p
         /\ Placed(e, w, p).owner = w
         /\ Placed(e, w, p).ops = e.ops
<1> DEFINE a == e.accepted
           b == e.pending
           c == e.processed
           d == e.ops
           o == e.owner
           l == e.pos
<1>1. e = [owner |-> o, pos |-> l, accepted |-> a, pending |-> b, processed |-> c, ops |-> d]
      /\ d \in Seq(Ops)
  BY DEF IsEntity
<1>2. e.ops = d
  OBVIOUS
<1> HIDE DEF a, b, c, d, o, l
<1> DEFINE y == Placed(e, w, p)
<1>3. y = [e EXCEPT !.owner = w, !.pos = p]
  BY DEF Placed
<1> HIDE DEF y
<1>4. y.owner = w /\ y.pos = p /\ y.ops = d /\ y.accepted = a /\ y.pending = b
      /\ y.processed = c
  BY <1>1, <1>3
<1>6. y = [owner |-> y.owner, pos |-> y.pos, accepted |-> y.accepted,
           pending |-> y.pending, processed |-> y.processed, ops |-> y.ops]
  BY <1>1, <1>3
<1>9. IsEntity(y)
  BY <1>1, <1>4, <1>6 DEF IsEntity
<1> QED
  BY <1>2, <1>4, <1>9 DEF y

LEMMA PlacedEitherWay ==
  ASSUME NEW e, IsEntity(e), NEW w \in Owner, NEW p \in Positions
  PROVE  [e EXCEPT !.pos = p, !.owner = w] = Placed(e, w, p)
<1> DEFINE a == e.accepted
           b == e.pending
           c == e.processed
           d == e.ops
           o == e.owner
           l == e.pos
<1>1. e = [owner |-> o, pos |-> l, accepted |-> a, pending |-> b, processed |-> c, ops |-> d]
      /\ d \in Seq(Ops)
  BY DEF IsEntity
<1> HIDE DEF a, b, c, d, o, l
<1> DEFINE y == Placed(e, w, p)
           z == [e EXCEPT !.pos = p, !.owner = w]
<1>3. y = [e EXCEPT !.owner = w, !.pos = p] /\ z = [e EXCEPT !.pos = p, !.owner = w]
  BY DEF Placed
<1> HIDE DEF y, z
<1>4. y.owner = w /\ y.pos = p /\ y.ops = d /\ y.accepted = a /\ y.pending = b
      /\ y.processed = c
  BY <1>1, <1>3
<1>5. z.owner = w /\ z.pos = p /\ z.ops = d /\ z.accepted = a /\ z.pending = b
      /\ z.processed = c
  BY <1>1, <1>3
<1>6. y = [owner |-> y.owner, pos |-> y.pos, accepted |-> y.accepted,
           pending |-> y.pending, processed |-> y.processed, ops |-> y.ops]
  BY <1>1, <1>3
<1>7. z = [owner |-> z.owner, pos |-> z.pos, accepted |-> z.accepted,
           pending |-> z.pending, processed |-> z.processed, ops |-> z.ops]
  BY <1>1, <1>3
<1>8. z = y
  BY <1>4, <1>5, <1>6, <1>7
<1> QED
  BY <1>8 DEF y, z

(* A record that queues an intent still leads where it led.                 *)
Queued(r, q, f) == [r EXCEPT !.queue = q, !.frontier = f]

LEMMA QueuedRecord ==
  ASSUME NEW r, IsRecord(r), NEW q, NEW f
  PROVE  /\ IsRecord(Queued(r, q, f))
         /\ Queued(r, q, f).from = r.from
         /\ Queued(r, q, f).to = r.to
         /\ Queued(r, q, f).source = r.source
<1> DEFINE a == r.from
           b == r.to
           c == r.source
           d == r.queue
           g == r.frontier
<1>1. r = [from |-> a, to |-> b, source |-> c, queue |-> d, frontier |-> g]
      /\ a \in Owner /\ b \in Owner /\ c \in Positions /\ a.cell # b.cell
  BY DEF IsRecord
<1>2. r.from = a /\ r.to = b /\ r.source = c
  OBVIOUS
<1> HIDE DEF a, b, c, d, g
<1> DEFINE z == Queued(r, q, f)
<1>3. z = [r EXCEPT !.queue = q, !.frontier = f]
  BY DEF Queued
<1> HIDE DEF z
<1>4. z.from = a /\ z.to = b /\ z.source = c
  BY <1>1, <1>3
<1>5. z = [from |-> z.from, to |-> z.to, source |-> z.source, queue |-> z.queue,
           frontier |-> z.frontier]
  BY <1>1, <1>3
<1>6. IsRecord(z)
  BY <1>1, <1>4, <1>5 DEF IsRecord
<1> QED
  BY <1>2, <1>4, <1>6 DEF z

LEMMA NextOwnerType ==
  ASSUME NEW w \in Owner, NEW c \in Cells, w.gen < MaxGeneration
  PROVE  /\ NextOwner(w, c) \in Owner
         /\ NextOwner(w, c).cell = c
BY OwnershipConstants DEF Owner, NextOwner

LEMMA CellIsCell ==
  ASSUME NEW p \in Positions
  PROVE  CellOf[p] \in Cells /\ CellOf[p] # NoCell
BY OwnershipConstants DEF Cells

-----------------------------------------------------------------------------
(* The inductive invariant *)

Shaped ==
  /\ nextID \in Nat \ {0}
  /\ entity = [i \in IDs |-> entity[i]]
  /\ migration = [i \in IDs |-> migration[i]]
  /\ locator \in [IDs -> Cells \cup {NoCell}]
  /\ members \in [Cells -> SUBSET IDs]
  /\ tokens \subseteq Token

(* One entity, on its own.                                                  *)
Whole(i) ==
  /\ Live(i) => IsEntity(entity[i]) /\ i < nextID
  /\ Migrating(i) => IsRecord(migration[i])
  /\ Live(i) <=> Resident(i) \/ Migrating(i)
  /\ ~(Resident(i) /\ Migrating(i))
  /\ \A c \in Cells : i \in members[c] <=> locator[i] = c
  /\ Resident(i) =>
       /\ entity[i].owner.cell = locator[i]
       /\ locator[i] \in active
       /\ CellOf[entity[i].pos] = locator[i]
  /\ Migrating(i) =>
       /\ entity[i].owner = migration[i].from
       /\ CellOf[entity[i].pos] = migration[i].to.cell
       /\ CellOf[migration[i].source] = migration[i].from.cell

WholeInv == Shaped /\ \A i \in IDs : Whole(i)

(* A step that touches one entity leaves the others whole, if it gives up   *)
(* no cell in which another is a member.                                    *)
LEMMA OthersWhole ==
  ASSUME WholeInv, NEW i \in IDs,
         nextID' \in Nat, nextID <= nextID',
         \A j \in IDs \ {i} : /\ entity'[j] = entity[j]
                              /\ locator'[j] = locator[j]
                              /\ migration'[j] = migration[j],
         \A c \in Cells : members'[c] \ {i} = members[c] \ {i},
         \A c \in active \ active' : members[c] \subseteq {i}
  PROVE  \A j \in IDs \ {i} : Whole(j)'
<1> SUFFICES ASSUME NEW j \in IDs \ {i} PROVE Whole(j)'
  OBVIOUS
<1>1. Whole(j) /\ j \in Nat /\ nextID \in Nat
  BY DEF WholeInv, Shaped, IDs
<1>2. entity'[j] = entity[j] /\ locator'[j] = locator[j] /\ migration'[j] = migration[j]
  OBVIOUS
<1>3. (Live(j)' <=> Live(j)) /\ (Resident(j)' <=> Resident(j))
      /\ (Migrating(j)' <=> Migrating(j))
  BY <1>2 DEF Live, Resident, Migrating
<1>4. \A c \in Cells : j \in members'[c] <=> j \in members[c]
  OBVIOUS
<1>5. j < nextID => j < nextID'
  BY <1>1
<1>6. ASSUME Resident(j) PROVE locator[j] \in active'
  <2>1. locator[j] \in Cells /\ locator[j] \in active /\ j \in members[locator[j]]
    BY <1>1, <1>6 DEF Whole, Resident, WholeInv, Shaped
  <2> QED
    BY <2>1
<1> QED
  BY <1>1, <1>2, <1>3, <1>4, <1>5, <1>6 DEF Whole

-----------------------------------------------------------------------------
(* Steps that change an entity where it is *)

(* A step that leaves the registry and every entity alone.                   *)
LEMMA UntouchedKeeps ==
  ASSUME WholeInv, UNCHANGED <<nextID, entity, registry, tokens>>
  PROVE  WholeInv'
BY DEF WholeInv, Shaped, Whole, Live, Resident, Migrating, registry

(* A member stays what it is, at a position of its cell.                     *)
LEMMA StaysResident ==
  ASSUME WholeInv, NEW i \in IDs, NEW e, Resident(i),
         IsEntity(e), e.owner = entity[i].owner, CellOf[e.pos] = locator[i],
         entity' = [entity EXCEPT ![i] = e],
         UNCHANGED <<nextID, registry, tokens>>
  PROVE  WholeInv'
<1>1. Shaped'
  BY DEF WholeInv, Shaped, registry
<1>2. entity'[i] = e /\ \A j \in IDs \ {i} : entity'[j] = entity[j]
  BY DEF WholeInv, Shaped
<1>3. \A j \in IDs \ {i} : Whole(j)'
  BY <1>2, OthersWhole DEF registry, WholeInv, Shaped
<1>4. Whole(i)'
  <2>1. Whole(i) /\ ~Migrating(i) /\ Live(i)
    BY DEF WholeInv, Whole
  <2>2. Live(i)' /\ Resident(i)' /\ ~Migrating(i)'
    BY <1>2, <2>1, EntityIsLive DEF Live, Resident, Migrating, registry
  <2> QED
    BY <1>2, <2>1, <2>2 DEF Whole, registry
<1> QED
  BY <1>1, <1>3, <1>4 DEF WholeInv

LEMMA ResidentIsEntity ==
  ASSUME WholeInv, NEW i \in IDs, Resident(i)
  PROVE  /\ Live(i) /\ ~Migrating(i) /\ IsEntity(entity[i]) /\ i < nextID
         /\ locator[i] \in Cells /\ locator[i] \in active
         /\ entity[i].owner.cell = locator[i]
         /\ CellOf[entity[i].pos] = locator[i]
         /\ \A c \in Cells : i \in members[c] <=> locator[i] = c
BY DEF WholeInv, Whole, Shaped, Resident

LEMMA SetPositionKeeps ==
  ASSUME WholeInv, NEW i \in IDs, NEW p \in Positions, SetPosition(i, p)
  PROVE  WholeInv'
<1> DEFINE e == [entity[i] EXCEPT !.pos = p]
<1>1. Resident(i) /\ IsEntity(entity[i])
  BY ResidentIsEntity DEF SetPosition
<1>2. IsEntity(e) /\ e.owner = entity[i].owner /\ e.pos = p
  BY <1>1, MovedEntity
<1>3. entity' = [entity EXCEPT ![i] = e] /\ CellOf[p] = locator[i]
      /\ UNCHANGED <<nextID, registry, tokens>>
  BY DEF SetPosition
<1> HIDE DEF e
<1> QED
  BY <1>1, <1>2, <1>3, StaysResident

LEMMA SubmitMoveKeeps ==
  ASSUME WholeInv, NEW i \in IDs, NEW s, SubmitMove(i, s)
  PROVE  WholeInv'
<1> DEFINE e == Controlled(entity[i], s)
<1>1. Resident(i) /\ IsEntity(entity[i]) /\ CellOf[entity[i].pos] = locator[i]
  BY ResidentIsEntity DEF SubmitMove
<1>2. IsEntity(e) /\ e.owner = entity[i].owner /\ e.pos = entity[i].pos
  BY <1>1, ControlledEntity
<1>3. entity' = [entity EXCEPT ![i] = e] /\ UNCHANGED <<nextID, registry, tokens>>
  BY DEF SubmitMove
<1> HIDE DEF e
<1> QED
  BY <1>1, <1>2, <1>3, StaysResident

LEMMA StepWithinKeeps ==
  ASSUME WholeInv, NEW i \in IDs, NEW p \in Positions, StepWithin(i, p)
  PROVE  WholeInv'
<1> DEFINE e == [Consumed(entity[i]) EXCEPT !.pos = p]
<1>1. Resident(i) /\ IsEntity(entity[i])
  BY ResidentIsEntity DEF StepWithin, Turn
<1>2. IsEntity(e) /\ e.owner = entity[i].owner /\ e.pos = p
  BY <1>1, ConsumedEntity, MovedEntity
<1>3. entity' = [entity EXCEPT ![i] = e] /\ CellOf[p] = locator[i]
      /\ UNCHANGED <<nextID, registry, tokens>>
  BY DEF StepWithin
<1> HIDE DEF e
<1> QED
  BY <1>1, <1>2, <1>3, StaysResident

LEMMA StepHeldKeeps ==
  ASSUME WholeInv, NEW i \in IDs, NEW p \in Positions, StepHeld(i, p)
  PROVE  WholeInv'
<1> DEFINE e == Consumed(entity[i])
<1>1. Resident(i) /\ IsEntity(entity[i]) /\ CellOf[entity[i].pos] = locator[i]
  BY ResidentIsEntity DEF StepHeld, Turn
<1>2. IsEntity(e) /\ e.owner = entity[i].owner /\ e.pos = entity[i].pos
  BY <1>1, ConsumedEntity
<1>3. entity' = [entity EXCEPT ![i] = e] /\ UNCHANGED <<nextID, registry, tokens>>
  BY DEF StepHeld
<1> HIDE DEF e
<1> QED
  BY <1>1, <1>2, <1>3, StaysResident

(* A player dies, is placed in the cell it is in, is released, or is held    *)
(* for its penalties and let go.                                             *)
DeathInPlace(i) ==
  \/ PlayerBeginDeathPersistence(i) \/ PlayerReleaseRespawn(i)
  \/ PlayerOrchestrateDeathPenalties(i) \/ PlayerAcceptDeathPenaltyCompletion(i)

LEMMA DeathInPlaceIs ==
  ASSUME WholeInv, NEW i \in IDs, DeathInPlace(i)
  PROVE  \/ UNCHANGED <<nextID, entity, registry, tokens, route, times>>
         \/ /\ Resident(i) /\ entity' = [entity EXCEPT ![i] = Quiesced(entity[i])]
            /\ UNCHANGED <<nextID, registry, tokens, route, times>>
BY DEF DeathInPlace, PlayerBeginDeathPersistence, PlayerReleaseRespawn,
       PlayerOrchestrateDeathPenalties, PlayerAcceptDeathPenaltyCompletion, LifeBecomes

LEMMA DeathInPlaceKeeps ==
  ASSUME WholeInv, NEW i \in IDs, DeathInPlace(i)
  PROVE  WholeInv'
<1> DEFINE e == Quiesced(entity[i])
<1>1. CASE /\ Resident(i) /\ entity' = [entity EXCEPT ![i] = e]
           /\ UNCHANGED <<nextID, registry, tokens>>
  <2>1. IsEntity(entity[i]) /\ CellOf[entity[i].pos] = locator[i]
    BY <1>1, ResidentIsEntity
  <2>2. IsEntity(e) /\ e.owner = entity[i].owner /\ e.pos = entity[i].pos
    BY <2>1, QuiescedEntity
  <2> HIDE DEF e
  <2> QED
    BY <1>1, <2>1, <2>2, StaysResident
<1>2. CASE UNCHANGED <<nextID, entity, registry, tokens>>
  BY <1>2, UntouchedKeeps
<1> QED
  BY <1>1, <1>2, DeathInPlaceIs

LEMMA PostDeathWithinKeeps ==
  ASSUME WholeInv, NEW i \in IDs, NEW p \in Positions, PostDeathWithin(i, p)
  PROVE  WholeInv'
<1> DEFINE e == [Quiesced(entity[i]) EXCEPT !.pos = p]
<1>1. Resident(i) /\ IsEntity(entity[i])
  BY ResidentIsEntity DEF PostDeathWithin, LifeBecomes
<1>2. IsEntity(e) /\ e.owner = entity[i].owner /\ e.pos = p
  BY <1>1, QuiescedEntity, MovedEntity
<1>3. entity' = [entity EXCEPT ![i] = e] /\ CellOf[p] = locator[i]
      /\ UNCHANGED <<nextID, registry, tokens>>
  BY DEF PostDeathWithin
<1> HIDE DEF e
<1> QED
  BY <1>1, <1>2, <1>3, StaysResident

(* Applying an operation changes only the cache.                             *)
LEMMA OpsEntity ==
  ASSUME NEW e, IsEntity(e), NEW q \in Seq(Ops)
  PROVE  /\ IsEntity([e EXCEPT !.ops = q])
         /\ [e EXCEPT !.ops = q].owner = e.owner
         /\ [e EXCEPT !.ops = q].pos = e.pos
         /\ [e EXCEPT !.ops = q].ops = q
BY DEF IsEntity

LEMMA DeliverKeeps ==
  ASSUME WholeInv, NEW o \in Ops, NEW i \in IDs, i = route[o].target, Deliver(o)
  PROVE  WholeInv'
<1> DEFINE q == Pushed(OpCapacity, entity[i].ops, o)
           e == [entity[i] EXCEPT !.ops = q]
<1>1. Resident(i) /\ IsEntity(entity[i]) /\ CellOf[entity[i].pos] = locator[i]
  BY ResidentIsEntity DEF Deliver
<1>2. q \in Seq(Ops)
  BY <1>1, PushedType, OwnershipConstants DEF IsEntity
<1>3. entity' = [entity EXCEPT ![i] = e] /\ UNCHANGED <<nextID, registry, tokens>>
  BY DEF Deliver
<1> HIDE DEF q
<1>4. IsEntity(e) /\ e.owner = entity[i].owner /\ e.pos = entity[i].pos
  BY <1>1, <1>2, OpsEntity
<1> HIDE DEF e
<1> QED
  BY <1>1, <1>3, <1>4, StaysResident

-----------------------------------------------------------------------------
(* Steps that change where an entity is *)

(* What such a step has to show: its own entity whole, and no cell given up  *)
(* that has another member.                                                  *)
LEMMA OneEntity ==
  ASSUME WholeInv, NEW i \in IDs, NEW e, NEW l \in Cells \cup {NoCell}, NEW r,
         nextID' \in Nat \ {0}, nextID <= nextID',
         entity' = [entity EXCEPT ![i] = e],
         locator' = [locator EXCEPT ![i] = l],
         migration' = [migration EXCEPT ![i] = r],
         members' \in [Cells -> SUBSET IDs],
         \A c \in Cells : members'[c] = IF l = c THEN members[c] \cup {i} ELSE members[c] \ {i},
         \A c \in active \ active' : members[c] \subseteq {i},
         tokens' \subseteq Token,
         e # NoEntity => IsEntity(e) /\ i < nextID',
         r # NoRecord => IsRecord(r) /\ e.owner = r.from /\ CellOf[e.pos] = r.to.cell
                         /\ CellOf[r.source] = r.from.cell,
         l # NoCell => e.owner.cell = l /\ l \in active' /\ CellOf[e.pos] = l,
         e # NoEntity <=> l # NoCell \/ r # NoRecord,
         l = NoCell \/ r = NoRecord
  PROVE  WholeInv'
<1>1. Shaped'
  BY DEF WholeInv, Shaped
<1>2. /\ entity'[i] = e /\ locator'[i] = l /\ migration'[i] = r
      /\ \A j \in IDs \ {i} : /\ entity'[j] = entity[j]
                              /\ locator'[j] = locator[j]
                              /\ migration'[j] = migration[j]
  BY DEF WholeInv, Shaped
<1>3. \A c \in Cells : members'[c] \ {i} = members[c] \ {i}
  OBVIOUS
<1>4. \A j \in IDs \ {i} : Whole(j)'
  BY <1>2, <1>3, OthersWhole
<1>5. Whole(i)'
  <2>1. \A c \in Cells : i \in members'[c] <=> l = c
    OBVIOUS
  <2>2. (Live(i)' <=> e # NoEntity) /\ (Resident(i)' <=> l # NoCell)
        /\ (Migrating(i)' <=> r # NoRecord)
    BY <1>2 DEF Live, Resident, Migrating
  <2> QED
    BY <1>2, <2>1, <2>2 DEF Whole
<1> QED
  BY <1>1, <1>4, <1>5 DEF WholeInv

LEMMA ShapedNow ==
  ASSUME WholeInv
  PROVE  /\ Shaped /\ nextID \in Nat \ {0} /\ nextID <= nextID
         /\ locator = [j \in IDs |-> locator[j]]
BY DEF WholeInv, Shaped

LEMMA AddEntityKeeps ==
  ASSUME WholeInv, NEW p \in Positions, AddEntity(p)
  PROVE  WholeInv'
<1> DEFINE i == nextID
           c == CellOf[p]
           e == [owner |-> [cell |-> c, gen |-> 1], pos |-> p, accepted |-> None,
                 pending |-> None, processed |-> None, ops |-> <<>>]
<1>1. i \in IDs /\ nextID' = i + 1 /\ nextID' \in Nat \ {0} /\ nextID <= nextID'
      /\ i < nextID'
  BY OwnershipConstants DEF AddEntity, WholeInv, Shaped, IDs
<1>2. ~Live(i)
  BY <1>1 DEF WholeInv, Whole, Shaped
<1>3. migration[i] = NoRecord /\ locator[i] = NoCell
      /\ \A d \in Cells : i \notin members[d]
  BY <1>1, <1>2, OwnershipConstants DEF WholeInv, Whole, Migrating, Resident
<1>4. c \in Cells /\ c # NoCell /\ c \in Cells \cup {NoCell}
  BY CellIsCell
<1>5. IsEntity(e) /\ e.owner.cell = c /\ e.pos = p
  BY <1>4, OwnershipConstants DEF IsEntity, Owner
<1>6. /\ entity' = [entity EXCEPT ![i] = e]
      /\ locator' = [locator EXCEPT ![i] = c]
      /\ active' = active \cup {c}
      /\ members' = [members EXCEPT ![c] = members[c] \cup {i}]
      /\ migration' = migration /\ tokens' = tokens
  BY DEF AddEntity
<1> HIDE DEF e, c
<1>7. migration' = [migration EXCEPT ![i] = NoRecord]
  BY <1>3, <1>6 DEF WholeInv, Shaped
<1>8. members' \in [Cells -> SUBSET IDs]
      /\ \A d \in Cells : members'[d] = IF c = d THEN members[d] \cup {i} ELSE members[d] \ {i}
  BY <1>1, <1>3, <1>4, <1>6 DEF WholeInv, Shaped
<1>9. e # NoEntity
  BY <1>5, EntityIsLive
<1>10. tokens' \subseteq Token
  BY <1>6 DEF WholeInv, Shaped
<1> HIDE DEF i
<1> QED
  BY <1>1, <1>4, <1>5, <1>6, <1>7, <1>8, <1>9, <1>10, OneEntity DEF c

LEMMA RemoveResidentKeeps ==
  ASSUME WholeInv, NEW i \in IDs, RemoveResident(i)
  PROVE  WholeInv'
<1> DEFINE c == locator[i]
<1>1. Resident(i) /\ migration[i] = NoRecord /\ c \in Cells
      /\ \A d \in Cells : i \in members[d] <=> c = d
  BY ResidentIsEntity DEF RemoveResident, Migrating
<1>2. /\ entity' = [entity EXCEPT ![i] = NoEntity]
      /\ locator' = [locator EXCEPT ![i] = NoCell]
      /\ members' = [members EXCEPT ![c] = members[c] \ {i}]
      /\ active' = IF members[c] = {i} THEN active \ {c} ELSE active
      /\ UNCHANGED <<nextID, migration, tokens>>
  BY DEF RemoveResident
<1>3. migration' = [migration EXCEPT ![i] = NoRecord]
  BY <1>1, <1>2 DEF WholeInv, Shaped
<1> HIDE DEF c
<1>4. members' \in [Cells -> SUBSET IDs]
      /\ \A d \in Cells : members'[d] = IF NoCell = d THEN members[d] \cup {i} ELSE members[d] \ {i}
  BY <1>1, <1>2, OwnershipConstants DEF WholeInv, Shaped
<1>5. \A d \in active \ active' : members[d] \subseteq {i}
  BY <1>2
<1>6. tokens' \subseteq Token /\ nextID' \in Nat \ {0} /\ nextID <= nextID'
  BY <1>2 DEF WholeInv, Shaped
<1> QED
  BY <1>2, <1>3, <1>4, <1>5, <1>6, OneEntity

(* A migrating entity is in no cell.                                         *)
LEMMA MigratingIsRecord ==
  ASSUME WholeInv, NEW i \in IDs, Migrating(i)
  PROVE  /\ IsRecord(migration[i]) /\ IsEntity(entity[i]) /\ i < nextID
         /\ locator[i] = NoCell /\ ~Resident(i) /\ Live(i)
         /\ \A c \in Cells : i \notin members[c]
         /\ entity[i].owner = migration[i].from
         /\ CellOf[entity[i].pos] = migration[i].to.cell
         /\ CellOf[migration[i].source] = migration[i].from.cell
BY OwnershipConstants DEF WholeInv, Whole, Shaped, Resident

LEMMA RemoveMigratingKeeps ==
  ASSUME WholeInv, NEW i \in IDs, RemoveMigrating(i)
  PROVE  WholeInv'
<1>1. Migrating(i) /\ locator[i] = NoCell /\ \A c \in Cells : i \notin members[c]
  BY MigratingIsRecord DEF RemoveMigrating
<1>2. /\ entity' = [entity EXCEPT ![i] = NoEntity]
      /\ migration' = [migration EXCEPT ![i] = NoRecord]
      /\ UNCHANGED <<nextID, locator, active, members, tokens>>
  BY DEF RemoveMigrating
<1>3. locator' = [locator EXCEPT ![i] = NoCell]
  BY <1>1, <1>2 DEF WholeInv, Shaped
<1>4. members' \in [Cells -> SUBSET IDs]
      /\ \A d \in Cells : members'[d] = IF NoCell = d THEN members[d] \cup {i} ELSE members[d] \ {i}
  BY <1>1, <1>2, OwnershipConstants DEF WholeInv, Shaped
<1>5. tokens' \subseteq Token /\ nextID' \in Nat \ {0} /\ nextID <= nextID'
      /\ \A d \in active \ active' : members[d] \subseteq {i}
  BY <1>2 DEF WholeInv, Shaped
<1> QED
  BY <1>2, <1>3, <1>4, <1>5, OneEntity

LEMMA SubmitMigratingKeeps ==
  ASSUME WholeInv, NEW i \in IDs, NEW s, SubmitMigrating(i, s)
  PROVE  WholeInv'
<1> DEFINE q == Append(migration[i].queue, s)
           r == Queued(migration[i], q, s)
<1>1. Migrating(i) /\ IsRecord(migration[i])
  BY MigratingIsRecord DEF SubmitMigrating
<1>3. migration' = [migration EXCEPT ![i] = r]
      /\ UNCHANGED <<nextID, entity, locator, active, members, tokens>>
  BY DEF SubmitMigrating, Queued
<1> HIDE DEF q
<1>2. IsRecord(r) /\ r.from = migration[i].from /\ r.to = migration[i].to
      /\ r.source = migration[i].source
  BY <1>1, QueuedRecord
<1> HIDE DEF r
<1>4. Shaped'
  BY <1>3 DEF WholeInv, Shaped
<1>5. migration'[i] = r /\ \A j \in IDs \ {i} : migration'[j] = migration[j]
  BY <1>3 DEF WholeInv, Shaped
<1>6. Migrating(i)' /\ r # NoRecord
  BY <1>2, <1>5, RecordIsOpen DEF Migrating
<1>7. ASSUME NEW j \in IDs PROVE Whole(j)'
  <2>1. CASE j = i
    BY <1>1, <1>2, <1>3, <1>5, <1>6, <2>1 DEF WholeInv, Whole, Live, Resident
  <2>2. CASE j # i
    BY <1>3, <1>5, <2>2 DEF WholeInv, Whole, Live, Resident, Migrating
  <2> QED
    BY <2>1, <2>2
<1> QED
  BY <1>4, <1>7 DEF WholeInv

(* The record takes the entity out of its cell.                              *)
LEMMA BeginHandoffKeeps ==
  ASSUME WholeInv, NEW i \in IDs, NEW p \in Positions, BeginHandoff(i, p)
  PROVE  WholeInv'
<1> DEFINE w == entity[i].owner
           to == NextOwner(w, CellOf[p])
           e == [entity[i] EXCEPT !.pos = p]
           r == [from |-> w, to |-> to, source |-> entity[i].pos, queue |-> <<>>,
                 frontier |-> entity[i].accepted]
           t == [id |-> i, from |-> w, to |-> to]
<1>1. /\ Resident(i) /\ CellOf[p] # locator[i] /\ w.gen < MaxGeneration
      /\ migration' = [migration EXCEPT ![i] = r]
      /\ entity' = [entity EXCEPT ![i] = e]
      /\ locator' = [locator EXCEPT ![i] = NoCell]
      /\ members' = [members EXCEPT ![w.cell] = members[w.cell] \ {i}]
      /\ tokens' = tokens \cup {t}
      /\ nextID' = nextID /\ active' = active
  BY DEF BeginHandoff
<1>2. /\ IsEntity(entity[i]) /\ i < nextID
      /\ locator[i] \in Cells /\ w.cell = locator[i]
      /\ CellOf[entity[i].pos] = locator[i]
      /\ \A c \in Cells : i \in members[c] <=> locator[i] = c
  BY <1>1, ResidentIsEntity
<1>3. w \in Owner /\ entity[i].pos \in Positions
  BY <1>2 DEF IsEntity
<1>4. to \in Owner /\ to.cell = CellOf[p]
  BY <1>1, <1>3, CellIsCell, NextOwnerType
<1>5. IsEntity(e) /\ e.owner = w /\ e.pos = p
  BY <1>2, MovedEntity
<1> HIDE DEF e, to, w
<1>6. IsRecord(r) /\ r.from = w /\ r.to = to /\ r.source = entity[i].pos
  BY <1>1, <1>2, <1>3, <1>4 DEF IsRecord
<1>7. t \in Token
  BY <1>3, <1>4 DEF Token
<1> HIDE DEF r, t
<1>8. tokens' \subseteq Token /\ nextID' \in Nat \ {0} /\ nextID <= nextID'
      /\ \A d \in active \ active' : members[d] \subseteq {i}
  BY <1>1, <1>7 DEF WholeInv, Shaped
<1>9. members' \in [Cells -> SUBSET IDs]
      /\ \A d \in Cells : members'[d] = IF NoCell = d THEN members[d] \cup {i} ELSE members[d] \ {i}
  <2>1. members \in [Cells -> SUBSET IDs] /\ w.cell \in Cells /\ \A d \in Cells : d # NoCell
    BY <1>2, OwnershipConstants DEF WholeInv, Shaped
  <2>2. \A d \in Cells : members'[d] = members[d] \ {i}
    BY <1>1, <1>2, <2>1
  <2>3. members' \in [Cells -> SUBSET IDs]
    BY <1>1, <2>1
  <2> QED
    BY <2>1, <2>2, <2>3
<1>10. e # NoEntity /\ r # NoRecord
  BY <1>5, <1>6, EntityIsLive, RecordIsOpen
<1>11. e.owner = r.from /\ CellOf[e.pos] = r.to.cell /\ CellOf[r.source] = r.from.cell
  BY <1>2, <1>4, <1>5, <1>6
<1>12. i < nextID'
  BY <1>1, <1>2
<1> QED
  BY <1>1, <1>5, <1>6, <1>8, <1>9, <1>10, <1>11, <1>12, OneEntity

(* A record that is closed puts its entity into one of its two cells.        *)
LEMMA Installed ==
  ASSUME WholeInv, NEW i \in IDs, Migrating(i), NEW e, NEW c \in Cells,
         IsEntity(e), e.owner.cell = c, CellOf[e.pos] = c,
         entity' = [entity EXCEPT ![i] = e],
         locator' = [locator EXCEPT ![i] = c],
         members' = [members EXCEPT ![c] = members[c] \cup {i}],
         migration' = [migration EXCEPT ![i] = NoRecord],
         c \in active', \A d \in active \ active' : members[d] = {},
         UNCHANGED <<nextID, tokens>>
  PROVE  WholeInv'
<1>1. i < nextID /\ \A d \in Cells : i \notin members[d]
  BY MigratingIsRecord
<1>2. members' \in [Cells -> SUBSET IDs]
      /\ \A d \in Cells : members'[d] = IF c = d THEN members[d] \cup {i} ELSE members[d] \ {i}
  BY <1>1 DEF WholeInv, Shaped
<1>3. tokens' \subseteq Token /\ nextID' \in Nat \ {0} /\ nextID <= nextID' /\ i < nextID'
  BY <1>1 DEF WholeInv, Shaped
<1>4. e # NoEntity /\ c # NoCell /\ c \in Cells \cup {NoCell}
  BY EntityIsLive, OwnershipConstants
<1>5. \A d \in active \ active' : members[d] \subseteq {i}
  OBVIOUS
<1> QED
  BY <1>2, <1>3, <1>4, <1>5, OneEntity

(* A token comes again: only the one of the open record installs it.         *)
LEMMA CommitHandoffKeeps ==
  ASSUME WholeInv, NEW t \in tokens, CommitHandoff(t)
  PROVE  WholeInv'
<1> DEFINE i == t.id
           c == t.to.cell
           x == Replayed(entity[i], migration[i].queue)
           e == [x EXCEPT !.owner = t.to]
<1>1. i \in IDs /\ t.to \in Owner /\ t.from \in Owner /\ c \in Cells
  BY DEF WholeInv, Shaped, Token, Owner
<1>2. /\ Migrating(i) /\ migration[i].from = t.from /\ migration[i].to = t.to
      /\ entity' = [entity EXCEPT ![i] = e]
      /\ locator' = [locator EXCEPT ![i] = c]
      /\ members' = [members EXCEPT ![c] = members[c] \cup {i}]
      /\ migration' = [migration EXCEPT ![i] = NoRecord]
      /\ active' = (active \cup {c}) \ {d \in {t.from.cell} : members[d] = {}}
      /\ UNCHANGED <<nextID, tokens>>
  BY DEF CommitHandoff, Opens, InstallBy
<1>3. IsEntity(entity[i]) /\ CellOf[entity[i].pos] = c /\ t.from.cell # c
  BY <1>1, <1>2, MigratingIsRecord DEF IsRecord
<1>4. IsEntity(x) /\ x.pos = entity[i].pos
  BY <1>3, ReplayedEntity
<1> HIDE DEF x
<1>5. IsEntity(e) /\ e.pos = x.pos /\ e.owner = t.to
  BY <1>1, <1>4, OwnedEntity
<1>6. c \in active' /\ \A d \in active \ active' : members[d] = {}
  BY <1>2, <1>3
<1>7. e.owner.cell = c /\ CellOf[e.pos] = c
  BY <1>3, <1>4, <1>5
<1> HIDE DEF e, c, i
<1> QED
  BY <1>1, <1>2, <1>5, <1>6, <1>7, Installed

LEMMA AbortHandoffKeeps ==
  ASSUME WholeInv, NEW i \in IDs, AbortHandoff(i)
  PROVE  WholeInv'
<1> DEFINE r == migration[i]
           c == r.from.cell
           x == Replayed(entity[i], r.queue)
           e == Placed(x, r.from, r.source)
<1>1. /\ Migrating(i)
      /\ entity' = [entity EXCEPT ![i] = e]
      /\ locator' = [locator EXCEPT ![i] = c]
      /\ members' = [members EXCEPT ![c] = members[c] \cup {i}]
      /\ active' = active \cup {c}
      /\ migration' = [migration EXCEPT ![i] = NoRecord]
      /\ UNCHANGED <<nextID, tokens>>
  BY DEF AbortHandoff, Placed
<1>2. IsEntity(entity[i]) /\ IsRecord(r) /\ CellOf[r.source] = c
  BY <1>1, MigratingIsRecord
<1>3. r.from \in Owner /\ r.source \in Positions /\ c \in Cells
  BY <1>2 DEF IsRecord, Owner
<1>4. IsEntity(x)
  BY <1>2, ReplayedEntity
<1> HIDE DEF x, r
<1>5. IsEntity(e) /\ e.pos = r.source /\ e.owner = r.from
  <2>1. r.from \in Owner /\ r.source \in Positions
    BY <1>3
  <2> DEFINE w == r.from
             p == r.source
  <2> HIDE DEF w, p
  <2>2. IsEntity(Placed(x, w, p)) /\ Placed(x, w, p).pos = p /\ Placed(x, w, p).owner = w
    BY <1>4, <2>1, PlacedEntity DEF w, p
  <2> QED
    BY <2>2 DEF w, p
<1>6. c \in active' /\ (\A d \in active \ active' : members[d] = {})
      /\ e.owner.cell = c /\ CellOf[e.pos] = c
  BY <1>1, <1>2, <1>5
<1> HIDE DEF e, c
<1> QED
  BY <1>1, <1>3, <1>5, <1>6, Installed DEF c

(* A member is moved to another cell at once.                                *)
LEMMA TransferKeeps ==
  ASSUME WholeInv, NEW i \in IDs, NEW p \in Positions, NEW x, IsEntity(x),
         Resident(i), Transfer(i, x, p)
  PROVE  WholeInv'
<1> DEFINE w == entity[i].owner
           c == CellOf[p]
           to == NextOwner(w, c)
           e == Placed(x, to, p)
           t == [id |-> i, from |-> w, to |-> to]
<1>1. /\ Resident(i) /\ c # locator[i] /\ w.gen < MaxGeneration
      /\ entity' = [entity EXCEPT ![i] = [x EXCEPT !.pos = p, !.owner = to]]
      /\ locator' = [locator EXCEPT ![i] = to.cell]
      /\ members' = [members EXCEPT ![w.cell] = members[w.cell] \ {i},
                                    ![to.cell] = members[to.cell] \cup {i}]
      /\ active' = (active \cup {to.cell}) \ {d \in {w.cell} : members[d] = {i}}
      /\ tokens' = tokens \cup {t}
      /\ nextID' = nextID /\ migration' = migration
  BY DEF Transfer
<1>2. /\ IsEntity(entity[i]) /\ i < nextID /\ ~Migrating(i)
      /\ locator[i] \in Cells /\ w.cell = locator[i]
      /\ \A d \in Cells : i \in members[d] <=> locator[i] = d
  BY <1>1, ResidentIsEntity
<1>3. w \in Owner
  BY <1>2 DEF IsEntity
<1>4. to \in Owner /\ to.cell = c /\ c \in Cells /\ c # NoCell
  BY <1>1, <1>3, CellIsCell, NextOwnerType
<1>5. IsEntity(x)
  OBVIOUS
<1> HIDE DEF to, w
<1>6. IsEntity(e) /\ e.owner = to /\ e.pos = p
  BY <1>4, <1>5, PlacedEntity
<1>15. entity' = [entity EXCEPT ![i] = e]
  <2>1. [x EXCEPT !.pos = p, !.owner = to] = e
    BY <1>4, <1>5, PlacedEitherWay
  <2> HIDE DEF e
  <2> QED
    BY <1>1, <2>1
<1>7. t \in Token
  BY <1>3, <1>4 DEF Token
<1>8. CellOf[e.pos] = c
  BY <1>6
<1> HIDE DEF e, t, c
<1>9. migration' = [migration EXCEPT ![i] = NoRecord]
  BY <1>1, <1>2 DEF WholeInv, Shaped, Migrating
<1>10. members' \in [Cells -> SUBSET IDs]
       /\ \A d \in Cells : members'[d] = IF c = d THEN members[d] \cup {i} ELSE members[d] \ {i}
  BY <1>1, <1>2, <1>4 DEF WholeInv, Shaped
<1>11. tokens' \subseteq Token /\ nextID' \in Nat \ {0} /\ nextID <= nextID' /\ i < nextID'
  BY <1>1, <1>2, <1>7 DEF WholeInv, Shaped
<1>12. c \in active' /\ \A d \in active \ active' : members[d] \subseteq {i}
  BY <1>1, <1>2, <1>4
<1>13. e # NoEntity
  BY <1>6, EntityIsLive
<1>14. c \in Cells \cup {NoCell} /\ locator' = [locator EXCEPT ![i] = c] /\ e.owner.cell = c
  BY <1>1, <1>4, <1>6
<1> QED
  <2> DEFINE r == NoRecord
  <2>1. migration' = [migration EXCEPT ![i] = r] /\ ~(r # NoRecord)
    BY <1>9
  <2>2. c # NoCell
    BY <1>4
  <2> HIDE DEF r
  <2> QED
    BY <1>6, <1>8, <1>10, <1>11, <1>12, <1>13, <1>14, <1>15, <2>1, <2>2, OneEntity

LEMMA AcrossKeeps ==
  ASSUME WholeInv, NEW i \in IDs, NEW p \in Positions,
         StepAcross(i, p) \/ PostDeathAcross(i, p)
  PROVE  WholeInv'
<1>1. Resident(i)
  BY DEF StepAcross, Turn, PostDeathAcross, LifeBecomes
<1>2. IsEntity(Consumed(entity[i])) /\ IsEntity(Quiesced(entity[i]))
  BY <1>1, ResidentIsEntity, ConsumedEntity, QuiescedEntity
<1>3. Transfer(i, Consumed(entity[i]), p) \/ Transfer(i, Quiesced(entity[i]), p)
  BY DEF StepAcross, PostDeathAcross
<1> QED
  BY <1>1, <1>2, <1>3, TransferKeeps

-----------------------------------------------------------------------------
(* No entity is lost or doubled *)

LEMMA WholeInitially == Init => WholeInv
<1> SUFFICES ASSUME Init PROVE WholeInv
  OBVIOUS
<1>1. Shaped
  BY DEF Init, Shaped
<1>2. ASSUME NEW i \in IDs PROVE Whole(i)
  BY OwnershipConstants DEF Init, Whole, Live, Resident, Migrating
<1> QED
  BY <1>1, <1>2 DEF WholeInv

-----------------------------------------------------------------------------
(* The caches of operations *)

Distinct(q) == \A a, b \in 1..Len(q) : q[a] = q[b] => a = b

(* An operation is in the cache of its target, once, if it was applied and   *)
(* the target lives, and in no other cache.                                  *)
CacheOK ==
  /\ route \in [Ops -> Route \cup {NoRoute}]
  /\ times \in [Ops -> {0, 1}]
  /\ \A o \in Ops :
       IF route[o] = NoRoute THEN times[o] = 0
       ELSE /\ route[o].target < nextID
            /\ times[o] = 1 /\ Live(route[o].target) => Holds(entity[route[o].target].ops, o)
  /\ \A i \in IDs :
       Live(i) =>
         /\ Distinct(entity[i].ops)
         /\ \A o \in Ops : Holds(entity[i].ops, o) =>
              route[o] # NoRoute /\ route[o].target = i /\ times[o] = 1

OwnInv == WholeInv /\ CacheOK

LEMMA RouteTarget ==
  ASSUME CacheOK, NEW o \in Ops, route[o] # NoRoute
  PROVE  route[o].target \in IDs /\ route[o] \in Route
BY DEF CacheOK, Route

(* Nothing is in an empty cache.                                             *)
LEMMA EmptyCache ==
  /\ Distinct(<<>>)
  /\ \A o : ~Holds(<<>>, o)
BY DEF Distinct, Holds

(* Caches are what they were; a new entity has an empty one and is nobody's  *)
(* target yet.                                                               *)
LEMMA CachesKept ==
  ASSUME OwnInv, UNCHANGED <<route, times>>, nextID' \in Nat, nextID <= nextID',
         \A i \in IDs : Live(i)' =>
            \/ Live(i) /\ entity'[i].ops = entity[i].ops
            \/ i = nextID /\ entity'[i].ops = <<>>
  PROVE  CacheOK'
<1>1. nextID \in Nat
  BY DEF OwnInv, WholeInv, Shaped
<1>2. ASSUME NEW o \in Ops
      PROVE  IF route[o] = NoRoute THEN times[o] = 0
             ELSE /\ route[o].target < nextID'
                  /\ times[o] = 1 /\ Live(route[o].target)'
                       => Holds(entity'[route[o].target].ops, o)
  <2>1. CASE route[o] = NoRoute
    BY <2>1 DEF OwnInv, CacheOK
  <2>2. CASE route[o] # NoRoute
    <3> DEFINE i == route[o].target
    <3>1. i \in IDs /\ i < nextID /\ (times[o] = 1 /\ Live(i) => Holds(entity[i].ops, o))
      BY <2>2, RouteTarget DEF OwnInv, CacheOK
    <3>2. i < nextID' /\ i # nextID
      BY <1>1, <3>1 DEF IDs
    <3>3. ASSUME times[o] = 1, Live(i)' PROVE Holds(entity'[i].ops, o)
      BY <3>1, <3>2, <3>3
    <3> HIDE DEF i
    <3> QED
      BY <2>2, <3>2, <3>3 DEF i
  <2> QED
    BY <2>1, <2>2
<1>3. ASSUME NEW i \in IDs, Live(i)'
      PROVE  /\ Distinct(entity'[i].ops)
             /\ \A o \in Ops : Holds(entity'[i].ops, o) =>
                  route[o] # NoRoute /\ route[o].target = i /\ times[o] = 1
  <2>1. CASE Live(i) /\ entity'[i].ops = entity[i].ops
    BY <2>1 DEF OwnInv, CacheOK
  <2>2. CASE entity'[i].ops = <<>>
    BY <2>2, EmptyCache
  <2> QED
    BY <1>3, <2>1, <2>2
<1> QED
  BY <1>2, <1>3 DEF OwnInv, CacheOK

(* One entity is changed, or removed, and its cache is not.                  *)
LEMMA SameCache ==
  ASSUME OwnInv, NEW i \in IDs, NEW e,
         entity' = [entity EXCEPT ![i] = e],
         e # NoEntity => Live(i) /\ e.ops = entity[i].ops,
         UNCHANGED <<nextID, route, times>>
  PROVE  CacheOK'
<1>1. ASSUME NEW j \in IDs, Live(j)' PROVE Live(j) /\ entity'[j].ops = entity[j].ops
  BY <1>1 DEF OwnInv, WholeInv, Shaped, Live
<1>2. nextID' \in Nat /\ nextID <= nextID'
  BY DEF OwnInv, WholeInv, Shaped
<1> QED
  BY <1>1, <1>2, CachesKept

LEMMA ResidentStepsKeepCaches ==
  ASSUME OwnInv, NEW i \in IDs, NEW p \in Positions,
         SetPosition(i, p) \/ StepWithin(i, p) \/ StepHeld(i, p) \/ BeginHandoff(i, p)
  PROVE  CacheOK'
<1>1. Resident(i)
  BY DEF SetPosition, StepWithin, StepHeld, BeginHandoff, Turn
<1>2. IsEntity(entity[i]) /\ Live(i)
  BY <1>1, ResidentIsEntity DEF OwnInv
<1>3. CASE SetPosition(i, p)
  <2> DEFINE e == [entity[i] EXCEPT !.pos = p]
  <2>1. e.ops = entity[i].ops
    BY <1>2, MovedEntity
  <2>2. entity' = [entity EXCEPT ![i] = e] /\ UNCHANGED <<nextID, route, times>>
    BY <1>3 DEF SetPosition
  <2> HIDE DEF e
  <2> QED
    BY <1>2, <2>1, <2>2, SameCache
<1>4. CASE StepWithin(i, p)
  <2> DEFINE x == Consumed(entity[i])
             e == [x EXCEPT !.pos = p]
  <2>1. IsEntity(x) /\ x.ops = entity[i].ops
    BY <1>2, ConsumedEntity
  <2>2. entity' = [entity EXCEPT ![i] = e] /\ UNCHANGED <<nextID, route, times>>
    BY <1>4 DEF StepWithin
  <2> HIDE DEF x
  <2>3. e.ops = entity[i].ops
    BY <2>1, MovedEntity
  <2> HIDE DEF e
  <2> QED
    BY <1>2, <2>2, <2>3, SameCache
<1>5. CASE StepHeld(i, p)
  <2> DEFINE x == Consumed(entity[i])
  <2>1. x.ops = entity[i].ops
    BY <1>2, ConsumedEntity
  <2>2. entity' = [entity EXCEPT ![i] = x] /\ UNCHANGED <<nextID, route, times>>
    BY <1>5 DEF StepHeld
  <2> HIDE DEF x
  <2> QED
    BY <1>2, <2>1, <2>2, SameCache
<1>6. CASE BeginHandoff(i, p)
  <2> DEFINE e == [entity[i] EXCEPT !.pos = p]
  <2>1. e.ops = entity[i].ops
    BY <1>2, MovedEntity
  <2>2. entity' = [entity EXCEPT ![i] = e] /\ UNCHANGED <<nextID, route, times>>
    BY <1>6 DEF BeginHandoff
  <2> HIDE DEF e
  <2> QED
    BY <1>2, <2>1, <2>2, SameCache
<1> QED
  BY <1>3, <1>4, <1>5, <1>6

LEMMA TransferKeepsCaches ==
  ASSUME OwnInv, NEW i \in IDs, NEW p \in Positions, NEW x, IsEntity(x),
         x.ops = entity[i].ops, Resident(i), Transfer(i, x, p)
  PROVE  CacheOK'
<1> DEFINE w == entity[i].owner
           to == NextOwner(w, CellOf[p])
           y == [x EXCEPT !.pos = p, !.owner = to]
           e == Placed(x, to, p)
<1>1. w.gen < MaxGeneration /\ entity' = [entity EXCEPT ![i] = y]
      /\ UNCHANGED <<nextID, route, times>>
  BY DEF Transfer
<1>2. IsEntity(entity[i]) /\ Live(i) /\ w \in Owner
  BY ResidentIsEntity DEF OwnInv, IsEntity
<1>3. to \in Owner
  BY <1>1, <1>2, CellIsCell, NextOwnerType
<1> HIDE DEF to, w
<1>5. y = e
  BY <1>3, PlacedEitherWay
<1>6. e.ops = entity[i].ops
  BY <1>3, PlacedEntity
<1> HIDE DEF e, y
<1> QED
  BY <1>1, <1>2, <1>5, <1>6, SameCache

LEMMA AcrossKeepsCaches ==
  ASSUME OwnInv, NEW i \in IDs, NEW p \in Positions,
         StepAcross(i, p) \/ PostDeathAcross(i, p)
  PROVE  CacheOK'
<1>1. Resident(i)
  BY DEF StepAcross, Turn, PostDeathAcross, LifeBecomes
<1>2. /\ IsEntity(Consumed(entity[i])) /\ Consumed(entity[i]).ops = entity[i].ops
      /\ IsEntity(Quiesced(entity[i])) /\ Quiesced(entity[i]).ops = entity[i].ops
  BY <1>1, ResidentIsEntity, ConsumedEntity, QuiescedEntity DEF OwnInv
<1>3. Transfer(i, Consumed(entity[i]), p) \/ Transfer(i, Quiesced(entity[i]), p)
  BY DEF StepAcross, PostDeathAcross
<1> QED
  BY <1>1, <1>2, <1>3, TransferKeepsCaches

LEMMA DeathsKeepCaches ==
  ASSUME OwnInv, NEW i \in IDs,
         DeathInPlace(i) \/ \E p \in Positions : PostDeathWithin(i, p)
  PROVE  CacheOK'
<1>1. CASE UNCHANGED <<nextID, entity, registry, tokens, route, times>>
  BY <1>1 DEF OwnInv, CacheOK, Live
<1>2. ASSUME NEW e, Resident(i), entity' = [entity EXCEPT ![i] = e],
             e.ops = entity[i].ops, UNCHANGED <<nextID, route, times>>
      PROVE  CacheOK'
  BY <1>2, ResidentIsEntity, SameCache DEF OwnInv
<1>3. ASSUME Resident(i)
      PROVE  IsEntity(Quiesced(entity[i])) /\ Quiesced(entity[i]).ops = entity[i].ops
  BY <1>3, ResidentIsEntity, QuiescedEntity DEF OwnInv
<1>4. CASE DeathInPlace(i)
  BY <1>1, <1>2, <1>3, <1>4, DeathInPlaceIs DEF OwnInv
<1>5. ASSUME NEW p \in Positions, PostDeathWithin(i, p) PROVE CacheOK'
  <2> DEFINE x == Quiesced(entity[i])
             e == [x EXCEPT !.pos = p]
  <2>1. Resident(i) /\ entity' = [entity EXCEPT ![i] = e] /\ UNCHANGED <<nextID, route, times>>
    BY <1>5 DEF PostDeathWithin, LifeBecomes
  <2>2. IsEntity(x) /\ x.ops = entity[i].ops
    BY <1>3, <2>1
  <2> HIDE DEF x
  <2>3. e.ops = entity[i].ops
    BY <2>2, MovedEntity
  <2> HIDE DEF e
  <2> QED
    BY <1>2, <2>1, <2>3
<1> QED
  BY <1>4, <1>5

LEMMA SubmitMoveKeepsCaches ==
  ASSUME OwnInv, NEW i \in IDs, NEW s, SubmitMove(i, s)
  PROVE  CacheOK'
<1> DEFINE e == Controlled(entity[i], s)
<1>1. entity' = [entity EXCEPT ![i] = e] /\ UNCHANGED <<nextID, route, times>>
      /\ Resident(i)
  BY DEF SubmitMove
<1>2. Live(i) /\ e.ops = entity[i].ops
  BY <1>1, ResidentIsEntity, ControlledEntity DEF OwnInv
<1> HIDE DEF e
<1> QED
  BY <1>1, <1>2, SameCache

LEMMA InstallsKeepCaches ==
  ASSUME OwnInv,
         (\E t \in tokens : CommitHandoff(t)) \/ (\E i \in IDs : AbortHandoff(i))
  PROVE  CacheOK'
<1>1. ASSUME NEW t \in tokens, CommitHandoff(t) PROVE CacheOK'
  <2> DEFINE i == t.id
             x == Replayed(entity[i], migration[i].queue)
             e == [x EXCEPT !.owner = t.to]
  <2>1. i \in IDs /\ t.to \in Owner
    BY DEF OwnInv, WholeInv, Shaped, Token
  <2>2. Migrating(i) /\ entity' = [entity EXCEPT ![i] = e]
        /\ UNCHANGED <<nextID, route, times>>
    BY <1>1 DEF CommitHandoff, Opens, InstallBy
  <2>3. Live(i) /\ IsEntity(entity[i])
    BY <2>1, <2>2, MigratingIsRecord DEF OwnInv
  <2>4. IsEntity(x) /\ x.ops = entity[i].ops
    BY <2>3, ReplayedEntity
  <2> HIDE DEF x
  <2>5. e.ops = entity[i].ops
    BY <2>1, <2>4, OwnedEntity
  <2> HIDE DEF e, i
  <2> QED
    BY <2>1, <2>2, <2>3, <2>5, SameCache
<1>2. ASSUME NEW i \in IDs, AbortHandoff(i) PROVE CacheOK'
  <2> DEFINE r == migration[i]
             x == Replayed(entity[i], r.queue)
             e == Placed(x, r.from, r.source)
  <2>1. Migrating(i) /\ entity' = [entity EXCEPT ![i] = e]
        /\ UNCHANGED <<nextID, route, times>>
    BY <1>2 DEF AbortHandoff, Placed
  <2>2. Live(i) /\ IsEntity(entity[i]) /\ r.from \in Owner /\ r.source \in Positions
    BY <2>1, MigratingIsRecord DEF OwnInv, IsRecord
  <2>3. IsEntity(x) /\ x.ops = entity[i].ops
    BY <2>2, ReplayedEntity
  <2> HIDE DEF x, r
  <2>4. e.ops = entity[i].ops
    BY <2>2, <2>3, PlacedEntity
  <2> HIDE DEF e
  <2> QED
    BY <2>1, <2>2, <2>4, SameCache
<1> QED
  BY <1>1, <1>2

LEMMA AddEntityKeepsCaches ==
  ASSUME OwnInv, NEW p \in Positions, AddEntity(p)
  PROVE  CacheOK'
<1> DEFINE e == [owner |-> [cell |-> CellOf[p], gen |-> 1], pos |-> p, accepted |-> None,
                 pending |-> None, processed |-> None, ops |-> <<>>]
<1>1. entity' = [entity EXCEPT ![nextID] = e] /\ nextID' = nextID + 1
      /\ UNCHANGED <<route, times>>
  BY DEF AddEntity
<1>2. e.ops = <<>>
  OBVIOUS
<1> HIDE DEF e
<1>3. ASSUME NEW i \in IDs, Live(i)'
      PROVE  \/ Live(i) /\ entity'[i].ops = entity[i].ops
             \/ i = nextID /\ entity'[i].ops = <<>>
  BY <1>1, <1>2, <1>3 DEF OwnInv, WholeInv, Shaped, Live
<1>4. nextID' \in Nat /\ nextID <= nextID'
  BY <1>1 DEF OwnInv, WholeInv, Shaped
<1> QED
  BY <1>1, <1>3, <1>4, CachesKept

LEMMA RemovalsKeepCaches ==
  ASSUME OwnInv, NEW i \in IDs, RemoveResident(i) \/ RemoveMigrating(i)
  PROVE  CacheOK'
<1>1. entity' = [entity EXCEPT ![i] = NoEntity] /\ UNCHANGED <<nextID, route, times>>
  BY DEF RemoveResident, RemoveMigrating
<1> QED
  BY <1>1, SameCache

LEMMA SubmitMigratingKeepsCaches ==
  ASSUME OwnInv, NEW i \in IDs, NEW s, SubmitMigrating(i, s)
  PROVE  CacheOK'
BY CachesKept DEF SubmitMigrating, OwnInv, WholeInv, Shaped, Live

(* The sender reads the owner of a new target, or of the same one again.     *)
LEMMA ReadRouteKeepsCaches ==
  ASSUME OwnInv, NEW o \in Ops, NEW i \in IDs, ReadRoute(o, i)
  PROVE  CacheOK'
<1> DEFINE r == [target |-> i, owner |-> entity[i].owner]
<1>1. /\ Live(i) /\ (route[o] # NoRoute => route[o].target = i)
      /\ route' = [route EXCEPT ![o] = r]
      /\ UNCHANGED <<nextID, entity, times>>
  BY DEF ReadRoute
<1>2. r \in Route /\ r.target = i /\ i < nextID
  BY <1>1 DEF OwnInv, WholeInv, Whole, IsEntity, Route
<1>3. r # NoRoute
  <2>1. DOMAIN r = {"target", "owner"} /\ DOMAIN NoRoute = {"read"}
    BY DEF NoRoute
  <2> HIDE DEF r
  <2> QED
    BY <2>1
<1> HIDE DEF r
<1>4. route' \in [Ops -> Route \cup {NoRoute}]
      /\ \A q \in Ops : route'[q] = IF q = o THEN r ELSE route[q]
  BY <1>1, <1>2 DEF OwnInv, CacheOK
<1>5. ASSUME NEW j \in IDs, Live(j)
      PROVE  /\ Distinct(entity[j].ops)
             /\ \A q \in Ops : Holds(entity[j].ops, q) =>
                  route'[q] # NoRoute /\ route'[q].target = j /\ times[q] = 1
  BY <1>1, <1>2, <1>3, <1>4, <1>5 DEF OwnInv, CacheOK
<1>6. ASSUME NEW q \in Ops
      PROVE  IF route'[q] = NoRoute THEN times[q] = 0
             ELSE /\ route'[q].target < nextID
                  /\ times[q] = 1 /\ Live(route'[q].target)
                       => Holds(entity[route'[q].target].ops, q)
  <2>1. CASE q # o
    BY <1>4, <2>1 DEF OwnInv, CacheOK
  <2>2. CASE q = o
    <3>1. times[o] = 1 => Holds(entity[i].ops, o)
      BY <1>1 DEF OwnInv, CacheOK
    <3> QED
      BY <1>2, <1>3, <1>4, <2>2, <3>1
  <2> QED
    BY <2>1, <2>2
<1> QED
  BY <1>1, <1>4, <1>5, <1>6 DEF OwnInv, CacheOK, Live

(* A cache of distinct operations without o has room for it: nothing is      *)
(* evicted while there are no more operations than places.                   *)
LEMMA RoomForOne ==
  ASSUME NEW q \in Seq(Ops), Distinct(q), NEW o \in Ops, ~Holds(q, o)
  PROVE  Len(q) < OpCapacity
<1> DEFINE T == Ops \ {o}
<1>1. IsFiniteSet(T) /\ Cardinality(T) = Cardinality(Ops) - 1
  BY OwnershipConstants, FS_RemoveElement
<1>2. Cardinality(Ops) \in Nat /\ Cardinality(Ops) <= OpCapacity /\ OpCapacity \in Nat
  BY OwnershipConstants, FS_CardinalityType
<1>3. Len(q) \in Nat /\ IsFiniteSet(1..Len(q)) /\ Cardinality(1..Len(q)) = Len(q)
  <2>1. Len(q) \in Nat
    OBVIOUS
  <2>2. \A n \in Nat : IsFiniteSet(1..n) /\ Cardinality(1..n) = n
    BY FS_Interval
  <2> QED
    BY <2>1, <2>2
<1>4. q \in [1..Len(q) -> T]
  <2>1. \A k \in 1..Len(q) : q[k] \in Ops /\ q[k] # o
    BY DEF Holds
  <2>2. q = [k \in 1..Len(q) |-> q[k]]
    OBVIOUS
  <2> QED
    BY <2>1, <2>2
<1>5. ~(Cardinality(T) < Len(q))
  <2> SUFFICES ASSUME Cardinality(T) < Len(q) PROVE FALSE
    OBVIOUS
  <2> HIDE DEF T
  <2>1. \E x, y \in 1..Len(q) : x # y /\ q[x] = q[y]
    BY <1>1, <1>3, <1>4, FS_PigeonHole
  <2> QED
    BY <2>1 DEF Distinct
<1> QED
  BY <1>1, <1>2, <1>3, <1>5

LEMMA DistinctAppend ==
  ASSUME NEW q \in Seq(Ops), Distinct(q), NEW o \in Ops, ~Holds(q, o)
  PROVE  Distinct(Append(q, o))
<1>1. /\ Len(Append(q, o)) = Len(q) + 1 /\ Len(q) \in Nat
      /\ \A k \in 1..Len(q) : Append(q, o)[k] = q[k] /\ q[k] # o
      /\ Append(q, o)[Len(q) + 1] = o
  BY DEF Holds
<1> SUFFICES ASSUME NEW a \in 1..(Len(q) + 1), NEW b \in 1..(Len(q) + 1),
                    Append(q, o)[a] = Append(q, o)[b]
             PROVE  a = b
  BY <1>1 DEF Distinct
<1>2. CASE a = Len(q) + 1 \/ b = Len(q) + 1
  BY <1>1, <1>2
<1>3. CASE a # Len(q) + 1 /\ b # Len(q) + 1
  <2>1. a \in 1..Len(q) /\ b \in 1..Len(q)
    BY <1>1, <1>3
  <2> QED
    BY <1>1, <2>1 DEF Distinct
<1> QED
  BY <1>2, <1>3

LEMMA PushedOps ==
  ASSUME NEW q \in Seq(Ops), NEW o \in Ops, Len(q) < OpCapacity
  PROVE  /\ Pushed(OpCapacity, q, o) = Append(q, o)
         /\ \A x \in Ops : Holds(Pushed(OpCapacity, q, o), x) <=> x = o \/ Holds(q, x)
BY PushedBelow, OwnershipConstants

(* The operation is applied and remembered; it was neither before.           *)
LEMMA DeliverKeepsCaches ==
  ASSUME OwnInv, NEW o \in Ops, Deliver(o)
  PROVE  CacheOK'
<1> DEFINE i == route[o].target
           q == entity[i].ops
           e == [entity[i] EXCEPT !.ops = Pushed(OpCapacity, q, o)]
<1>1. /\ route[o] # NoRoute /\ Resident(i) /\ ~Holds(q, o)
      /\ entity' = [entity EXCEPT ![i] = e]
      /\ times' = [times EXCEPT ![o] = times[o] + 1]
      /\ UNCHANGED <<nextID, route>>
  BY DEF Deliver
<1>2. i \in IDs
  BY <1>1, RouteTarget DEF OwnInv
<1>3. Live(i) /\ IsEntity(entity[i]) /\ q \in Seq(Ops) /\ Distinct(q)
  BY <1>1, <1>2, ResidentIsEntity DEF OwnInv, CacheOK, IsEntity
<1>4. times[o] = 0
  BY <1>1, <1>3 DEF OwnInv, CacheOK
<1>5. Len(q) < OpCapacity
  BY <1>1, <1>3, RoomForOne
<1>6. /\ Pushed(OpCapacity, q, o) = Append(q, o)
      /\ \A x \in Ops : Holds(Pushed(OpCapacity, q, o), x) <=> x = o \/ Holds(q, x)
  BY <1>3, <1>5, PushedOps
<1>7. Pushed(OpCapacity, q, o) \in Seq(Ops) /\ Distinct(Pushed(OpCapacity, q, o))
  <2>1. Append(q, o) \in Seq(Ops)
    BY <1>3
  <2>2. Distinct(Append(q, o))
    BY <1>1, <1>3, DistinctAppend
  <2> QED
    BY <1>6, <2>1, <2>2
<1> DEFINE pushed == Pushed(OpCapacity, q, o)
<1> HIDE DEF pushed
<1>8. e.ops = pushed /\ IsEntity(e) /\ e # NoEntity
  BY <1>3, <1>7, OpsEntity, EntityIsLive DEF pushed
<1> HIDE DEF e
<1>9. /\ \A j \in IDs : entity'[j] = IF j = i THEN e ELSE entity[j]
      /\ \A x \in Ops : times'[x] = IF x = o THEN 1 ELSE times[x]
      /\ times' \in [Ops -> {0, 1}]
  BY <1>1, <1>4 DEF OwnInv, WholeInv, Shaped, CacheOK
<1>10. \A j \in IDs : Live(j)' <=> Live(j)
  BY <1>3, <1>8, <1>9 DEF Live
<1>11. /\ Distinct(pushed)
       /\ \A x \in Ops : Holds(pushed, x) <=> x = o \/ Holds(q, x)
  BY <1>6, <1>7 DEF pushed
<1> HIDE DEF q
<1>12. ASSUME NEW j \in IDs, Live(j)'
       PROVE  /\ Distinct(entity'[j].ops)
              /\ \A x \in Ops : Holds(entity'[j].ops, x) =>
                   route[x] # NoRoute /\ route[x].target = j /\ times'[x] = 1
  <2>1. CASE j = i
    BY <1>1, <1>3, <1>8, <1>9, <1>11, <2>1 DEF OwnInv, CacheOK, q
  <2>2. CASE j # i
    BY <1>9, <1>10, <1>12, <2>2 DEF OwnInv, CacheOK
  <2> QED
    BY <2>1, <2>2
<1>13. ASSUME NEW x \in Ops
       PROVE  IF route[x] = NoRoute THEN times'[x] = 0
              ELSE /\ route[x].target < nextID
                   /\ times'[x] = 1 /\ Live(route[x].target)'
                        => Holds(entity'[route[x].target].ops, x)
  <2>1. CASE route[x] = NoRoute
    BY <1>1, <1>9, <2>1 DEF OwnInv, CacheOK
  <2>2. CASE route[x] # NoRoute
    <3>1. PICK j \in IDs : j = route[x].target
      BY <2>2, RouteTarget DEF OwnInv
    <3>2. j < nextID /\ (times[x] = 1 /\ Live(j) => Holds(entity[j].ops, x))
      BY <2>2, <3>1 DEF OwnInv, CacheOK
    <3>3. ASSUME times'[x] = 1, Live(j)' PROVE Holds(entity'[j].ops, x)
      <4>1. CASE j = i
        <5>1. entity'[j].ops = pushed
          BY <1>8, <1>9, <4>1
        <5>2. x = o \/ Holds(q, x)
          BY <1>3, <1>9, <3>2, <3>3, <4>1 DEF q
        <5> QED
          BY <1>11, <5>1, <5>2
      <4>2. CASE j # i
        BY <1>9, <1>10, <3>1, <3>2, <3>3, <4>2
      <4> QED
        BY <4>1, <4>2
    <3>4. route'[x] = route[x]
      BY <1>1
    <3> QED
      BY <2>2, <3>1, <3>2, <3>3, <3>4 DEF Live
  <2> QED
    BY <2>1, <2>2
<1> QED
  BY <1>1, <1>9, <1>12, <1>13 DEF OwnInv, CacheOK

-----------------------------------------------------------------------------
(* The replay of queued intents, one by one *)

(* Replay(c, q) is the last entry of a table that satisfies its recursion.   *)
IsReplay(f, c, q, n) ==
  f = [k \in 0..n |-> IF k = 0 THEN c ELSE Sequenced(f[k - 1], q[k])]

LEMMA ReplayExists ==
  ASSUME NEW c, NEW q, NEW n \in Nat
  PROVE  \E f : IsReplay(f, c, q, n)
<1> DEFINE T == {m \in Nat :
                  \E f : f = [k \in 0..m |-> IF k = 0 THEN c ELSE Sequenced(f[k - 1], q[k])]}
<1>1. 0 \in T
  <2> DEFINE f == [k \in 0..0 |-> c]
  <2>1. f = [k \in 0..0 |-> IF k = 0 THEN c ELSE Sequenced(f[k - 1], q[k])]
    OBVIOUS
  <2> QED
    BY <2>1
<1>2. ASSUME NEW m \in Nat, m \in T PROVE m + 1 \in T
  <2>1. PICK f : f = [k \in 0..m |-> IF k = 0 THEN c ELSE Sequenced(f[k - 1], q[k])]
    BY <1>2
  <2> DEFINE g == [k \in 0..(m + 1) |->
                     IF k = m + 1 THEN Sequenced(f[m], q[m + 1]) ELSE f[k]]
  <2>2. ASSUME NEW k \in 0..(m + 1)
        PROVE  g[k] = IF k = 0 THEN c ELSE Sequenced(g[k - 1], q[k])
    <3>1. CASE k = 0
      BY <2>1, <3>1
    <3>2. CASE k = m + 1
      BY <3>2
    <3>3. CASE k # 0 /\ k # m + 1
      <4>1. k \in 0..m /\ k - 1 \in 0..m /\ k - 1 \in 0..(m + 1) /\ k - 1 # m + 1
        BY <3>3
      <4>2. f[k] = Sequenced(f[k - 1], q[k])
        BY <2>1, <3>3, <4>1
      <4> QED
        BY <3>3, <4>1, <4>2
    <3> QED
      BY <3>1, <3>2, <3>3
  <2>3. g = [k \in 0..(m + 1) |-> IF k = 0 THEN c ELSE Sequenced(g[k - 1], q[k])]
    <3>1. g = [k \in 0..(m + 1) |-> g[k]]
      OBVIOUS
    <3> HIDE DEF g
    <3> QED
      BY <2>2, <3>1
  <2> HIDE DEF g
  <2> QED
    BY <2>3
<1> HIDE DEF T
<1>3. n \in T
  BY <1>1, <1>2, SetInduction
<1> QED
  BY <1>3 DEF T, IsReplay

(* Nothing queued changes nothing; the last intent is sequenced last.        *)
LEMMA ReplayEmpty ==
  ASSUME NEW c
  PROVE  Replay(c, <<>>) = c
<1> DEFINE F(f) == [k \in 0..0 |-> IF k = 0 THEN c ELSE Sequenced(f[k - 1], <<>>[k])]
           after == CHOOSE f : f = F(f)
<1>1. Replay(c, <<>>) = after[0]
  BY DEF Replay
<1>2. after = F(after)
  BY ReplayExists DEF IsReplay
<1> HIDE DEF after
<1> QED
  BY <1>1, <1>2

LEMMA ReplayIs ==
  ASSUME NEW c, NEW q, Len(q) \in Nat
  PROVE  \E f : IsReplay(f, c, q, Len(q)) /\ Replay(c, q) = f[Len(q)]
<1> DEFINE F(f) == [k \in 0..Len(q) |-> IF k = 0 THEN c ELSE Sequenced(f[k - 1], q[k])]
           after == CHOOSE f : f = F(f)
<1>1. Replay(c, q) = after[Len(q)]
  BY DEF Replay
<1>2. \E f : f = F(f)
  <2>1. \E f : IsReplay(f, c, q, Len(q))
    BY ReplayExists
  <2> QED
    BY <2>1 DEF IsReplay
<1>3. after = F(after)
  BY <1>2
<1> HIDE DEF after
<1> QED
  BY <1>1, <1>3 DEF IsReplay

LEMMA ReplayAppend ==
  ASSUME NEW c, NEW S, NEW q \in Seq(S), NEW s \in S
  PROVE  Replay(c, Append(q, s)) = Sequenced(Replay(c, q), s)
<1> DEFINE r == Append(q, s)
<1>1. /\ Len(q) \in Nat /\ Len(r) \in Nat /\ Len(r) = Len(q) + 1 /\ r[Len(r)] = s
      /\ \A k \in 1..Len(q) : r[k] = q[k]
  OBVIOUS
<1> HIDE DEF r
<1>2. PICK old : IsReplay(old, c, q, Len(q)) /\ Replay(c, q) = old[Len(q)]
  BY <1>1, ReplayIs
<1>3. PICK now : IsReplay(now, c, r, Len(r)) /\ Replay(c, r) = now[Len(r)]
  BY <1>1, ReplayIs
<1>4. /\ \A k \in 0..Len(q) : old[k] = IF k = 0 THEN c ELSE Sequenced(old[k - 1], q[k])
      /\ \A k \in 0..Len(r) : now[k] = IF k = 0 THEN c ELSE Sequenced(now[k - 1], r[k])
  BY <1>2, <1>3 DEF IsReplay
<1> DEFINE T == {k \in Nat : k <= Len(q) => now[k] = old[k]}
<1>5. Nat \subseteq T
  <2>1. 0 \in T
    BY <1>1, <1>4
  <2>2. ASSUME NEW k \in Nat, k \in T PROVE k + 1 \in T
    <3>1. SUFFICES ASSUME k + 1 <= Len(q) PROVE now[k + 1] = old[k + 1]
      OBVIOUS
    <3>2. now[k] = old[k] /\ r[k + 1] = q[k + 1] /\ k + 1 \in 0..Len(q) /\ k + 1 \in 0..Len(r)
          /\ (k + 1) - 1 = k /\ k + 1 # 0
      BY <1>1, <2>2, <3>1
    <3> QED
      BY <1>4, <3>2
  <2> HIDE DEF T
  <2> QED
    BY <2>1, <2>2, SetInduction
<1>6. now[Len(q)] = old[Len(q)]
  BY <1>1, <1>5
<1>7. now[Len(r)] = Sequenced(now[Len(q)], s)
  BY <1>1, <1>4
<1> QED
  BY <1>2, <1>3, <1>6, <1>7 DEF r

-----------------------------------------------------------------------------
(* The input that controls an entity *)

InputPair == [accepted: Seqs, pending: Seqs]
ControlOf(e) == [accepted |-> e.accepted, pending |-> e.pending]

(* The input that moves an entity once it had its turn, of a pending one and *)
(* the one whose directions it holds.                                        *)
Moving(e, h) == IF e.pending = None THEN h ELSE e.pending

(* n was accepted last, and d moves e.                                       *)
Controls(e, n, d, h) ==
  /\ n \in Seqs /\ h \in Seqs
  /\ e.accepted = n
  /\ e.pending \in Seqs
  /\ e.processed \in Seqs
  /\ Moving(e, h) = d

(* It will be so once the intents that r queues for e are replayed.         *)
WillControl(e, r, n, d, h) ==
  /\ r.queue \in Seq(Inputs) /\ Len(r.queue) <= QueueCapacity
  /\ r.frontier = n
  /\ ControlOf(e) \in InputPair
  /\ e.processed \in Seqs
  /\ h \in Seqs
  /\ LET x == Replay(ControlOf(e), r.queue) IN
       /\ x \in InputPair
       /\ x.accepted = n
       /\ Moving(x, h) = d

Dead(l) == l \in {"dying", "awaiting"}

Led(i) ==
  /\ Resident(i) => Controls(entity[i], newest[i], due[i], held[i])
  /\ Migrating(i) => WillControl(entity[i], migration[i], newest[i], due[i], held[i])
  /\ Dead(life[i]) => due[i] = None

Fresh(i) == newest[i] = None /\ due[i] = None /\ held[i] = None /\ life[i] = "alive"

PlayerOK ==
  /\ newest \in [IDs -> Seqs]
  /\ due \in [IDs -> Seqs]
  /\ held \in [IDs -> Seqs]
  /\ life \in [IDs -> Lives]

ControlOK ==
  /\ PlayerOK
  /\ \A i \in IDs : i >= nextID => Fresh(i)
  /\ nextID <= MaxEntities + 1
  /\ active \subseteq Cells
  /\ \A i \in IDs : Led(i)

SameControl(f, e) ==
  f.accepted = e.accepted /\ f.pending = e.pending /\ f.processed = e.processed

LEMMA InputsAreSeqs == Inputs \subseteq Seqs /\ None \in Seqs /\ None \notin Inputs
BY OwnershipConstants DEF Seqs, None

LEMMA SameControlled ==
  ASSUME NEW e, NEW f, NEW n, NEW d, NEW h, SameControl(f, e), Controls(e, n, d, h)
  PROVE  Controls(f, n, d, h)
BY DEF SameControl, Controls, Moving

LEMMA MovedControl ==
  ASSUME NEW e, IsEntity(e), NEW p
  PROVE  SameControl([e EXCEPT !.pos = p], e)
BY DEF IsEntity, SameControl

LEMMA OwnedControl ==
  ASSUME NEW e, IsEntity(e), NEW w
  PROVE  SameControl([e EXCEPT !.owner = w], e)
BY DEF IsEntity, SameControl

LEMMA CachedControl ==
  ASSUME NEW e, IsEntity(e), NEW q
  PROVE  SameControl([e EXCEPT !.ops = q], e)
BY DEF IsEntity, SameControl

LEMMA PlacedControl ==
  ASSUME NEW e, IsEntity(e), NEW w, NEW p
  PROVE  SameControl(Placed(e, w, p), e)
BY DEF IsEntity, SameControl, Placed

(* An accepted input controls; a turn moves it from waiting to held.         *)
LEMMA ControlledControls ==
  ASSUME NEW e, IsEntity(e), e.processed \in Seqs, NEW s \in Inputs, NEW h \in Seqs
  PROVE  Controls(Controlled(e, s), s, s, h)
<1> DEFINE f == Controlled(e, s)
<1>1. f = [e EXCEPT !.accepted = s, !.pending = s]
  BY DEF Controlled
<1> HIDE DEF f
<1>2. f.accepted = s /\ f.pending = s /\ f.processed = e.processed
  BY <1>1 DEF IsEntity
<1> QED
  BY <1>2, InputsAreSeqs DEF Controls, Moving, f

LEMMA ConsumedControls ==
  ASSUME NEW e, IsEntity(e), NEW n, NEW d, NEW h, Controls(e, n, d, h)
  PROVE  Controls(Consumed(e), n, d, Moving(e, h))
<1>1. CASE e.pending = None
  BY <1>1 DEF Consumed, Controls, Moving
<1>2. CASE e.pending # None
  <2> DEFINE f == Consumed(e)
  <2>1. f = [e EXCEPT !.pending = None, !.processed = e.pending]
    BY <1>2 DEF Consumed
  <2> HIDE DEF f
  <2>2. f.accepted = e.accepted /\ f.pending = None /\ f.processed = e.pending
    BY <2>1 DEF IsEntity
  <2> QED
    BY <1>2, <2>2, InputsAreSeqs DEF Controls, Moving, f
<1> QED
  BY <1>1, <1>2

(* Nothing moves a player that is quiesced, and its numbers stay.            *)
LEMMA QuiescedControls ==
  ASSUME NEW e, IsEntity(e), NEW n, NEW d, NEW h, Controls(e, n, d, h)
  PROVE  Controls(Quiesced(e), n, None, None)
<1> DEFINE f == Quiesced(e)
<1>1. f = [e EXCEPT !.pending = None]
  BY DEF Quiesced
<1> HIDE DEF f
<1>2. f.accepted = e.accepted /\ f.pending = None /\ f.processed = e.processed
  BY <1>1 DEF IsEntity
<1> QED
  BY <1>2, InputsAreSeqs DEF Controls, Moving, f

(* What is replayed at the end of a migration controls from then on.        *)
LEMMA ReplayedControls ==
  ASSUME NEW e, IsEntity(e), NEW r, NEW n, NEW d, NEW h, WillControl(e, r, n, d, h)
  PROVE  Controls(Replayed(e, r.queue), n, d, h)
<1> DEFINE x == Replay(ControlOf(e), r.queue)
           f == Replayed(e, r.queue)
<1>1. f = [e EXCEPT !.accepted = x.accepted, !.pending = x.pending]
  BY DEF Replayed, ControlOf
<1>2. /\ x \in InputPair
      /\ x.accepted = n
      /\ Moving(x, h) = d
      /\ e.processed \in Seqs
      /\ h \in Seqs
  BY DEF WillControl
<1> HIDE DEF f, x
<1>3. f.accepted = x.accepted /\ f.pending = x.pending /\ f.processed = e.processed
  BY <1>1 DEF IsEntity
<1>4. n \in Seqs /\ x.pending \in Seqs
  BY <1>2 DEF InputPair
<1> QED
  BY <1>2, <1>3, <1>4 DEF Controls, Moving, f

(* A migration begins with nothing to replay.                               *)
LEMMA BeginsControlled ==
  ASSUME NEW e, NEW f, NEW r, NEW n, NEW d, NEW h, Controls(e, n, d, h), SameControl(f, e),
         r.queue = <<>>, r.frontier = e.accepted
  PROVE  WillControl(f, r, n, d, h)
<1>1. ControlOf(f) \in InputPair /\ f.processed \in Seqs /\ h \in Seqs
  BY DEF Controls, SameControl, ControlOf, InputPair
<1>2. Replay(ControlOf(f), r.queue) = ControlOf(f)
  BY ReplayEmpty
<1>3. ControlOf(f).accepted = n /\ ControlOf(f).pending = e.pending
  BY DEF Controls, SameControl, ControlOf
<1>4. r.queue \in Seq(Inputs) /\ Len(r.queue) = 0 /\ 0 <= QueueCapacity
  BY OwnershipConstants
<1>5. Moving(ControlOf(f), h) = d
  BY <1>3 DEF Controls, Moving
<1> QED
  BY <1>1, <1>2, <1>3, <1>4, <1>5 DEF Controls, WillControl

(* The intent that is queued last will control.                             *)
LEMMA QueuedControls ==
  ASSUME NEW e, NEW r, IsRecord(r), NEW n, NEW d, NEW h, WillControl(e, r, n, d, h),
         NEW s \in Inputs, Newer(n, s), Len(r.queue) < QueueCapacity
  PROVE  WillControl(e, Queued(r, Append(r.queue, s), s), s, s, h)
<1> DEFINE q == r.queue
           x == Replay(ControlOf(e), q)
           y == Replay(ControlOf(e), Append(q, s))
           z == Queued(r, Append(q, s), s)
<1>1. /\ q \in Seq(Inputs)
      /\ ControlOf(e) \in InputPair /\ e.processed \in Seqs /\ h \in Seqs
      /\ x \in InputPair /\ x.accepted = n
  BY DEF WillControl
<1>2. y = Sequenced(x, s)
  BY <1>1, ReplayAppend
<1>3. z.queue = Append(q, s) /\ z.frontier = s
  BY DEF Queued, IsRecord
<1> HIDE DEF x, z, y, q
<1>4. y = Controlled(x, s)
  BY <1>1, <1>2 DEF Sequenced
<1>5. s \in Seqs /\ s # None
  BY InputsAreSeqs
<1>6. y \in InputPair /\ y.accepted = s /\ y.pending = s
  BY <1>1, <1>4, <1>5 DEF Controlled, InputPair
<1>7. Append(q, s) \in Seq(Inputs) /\ Len(Append(q, s)) <= QueueCapacity
  BY <1>1, OwnershipConstants DEF q
<1>8. Moving(y, h) = s
  BY <1>5, <1>6 DEF Moving
<1> QED
  BY <1>1, <1>3, <1>6, <1>7, <1>8 DEF WillControl, x, y, z, q

(* What a step records of i's player.                                       *)
PlayerSet(i, n, d, h, l) ==
  /\ newest' = [newest EXCEPT ![i] = n]
  /\ due' = [due EXCEPT ![i] = d]
  /\ held' = [held EXCEPT ![i] = h]
  /\ life' = [life EXCEPT ![i] = l]

LEMMA PlayerStays ==
  ASSUME ControlOK, NEW i \in IDs, UNCHANGED player
  PROVE  PlayerSet(i, newest[i], due[i], held[i], life[i])
BY DEF ControlOK, PlayerOK, PlayerSet, player

LEMMA PlayerTypes ==
  ASSUME ControlOK, NEW i \in IDs
  PROVE  newest[i] \in Seqs /\ due[i] \in Seqs /\ held[i] \in Seqs /\ life[i] \in Lives
         /\ (Dead(life[i]) => due[i] = None)
BY DEF ControlOK, PlayerOK, Led

(* One entity is touched: n was accepted last, and d is to move it.         *)
LEMMA OneLed ==
  ASSUME OwnInv, ControlOK, NEW i \in IDs,
         NEW n \in Seqs, NEW d \in Seqs, NEW h \in Seqs, NEW l \in Lives,
         \A j \in IDs \ {i} : /\ entity'[j] = entity[j]
                              /\ locator'[j] = locator[j]
                              /\ migration'[j] = migration[j],
         PlayerSet(i, n, d, h, l), Dead(l) => d = None,
         nextID' \in Nat, nextID <= nextID', nextID' <= MaxEntities + 1, i < nextID',
         active' \subseteq Cells,
         Resident(i)' => Controls(entity'[i], n, d, h),
         Migrating(i)' => WillControl(entity'[i], migration'[i], n, d, h)
  PROVE  ControlOK'
<1>1. PlayerOK /\ nextID \in Nat
  BY DEF ControlOK, OwnInv, WholeInv, Shaped
<1>2. /\ PlayerOK'
      /\ newest'[i] = n /\ due'[i] = d /\ held'[i] = h /\ life'[i] = l
      /\ \A j \in IDs \ {i} : /\ newest'[j] = newest[j] /\ due'[j] = due[j]
                              /\ held'[j] = held[j] /\ life'[j] = life[j]
  BY <1>1 DEF PlayerOK, PlayerSet
<1>3. ASSUME NEW j \in IDs, j >= nextID' PROVE Fresh(j)'
  <2>1. j \in Nat /\ j >= nextID /\ j # i
    BY <1>1, <1>3 DEF IDs
  <2>2. Fresh(j)
    BY <2>1 DEF ControlOK
  <2> QED
    BY <1>2, <2>1, <2>2 DEF Fresh
<1>4. ASSUME NEW j \in IDs PROVE Led(j)'
  <2>1. CASE j = i
    BY <1>2, <2>1 DEF Led
  <2>2. CASE j # i
    <3>1. entity'[j] = entity[j] /\ locator'[j] = locator[j] /\ migration'[j] = migration[j]
          /\ newest'[j] = newest[j] /\ due'[j] = due[j] /\ held'[j] = held[j]
          /\ life'[j] = life[j] /\ Led(j)
      BY <1>2, <2>2 DEF ControlOK
    <3> QED
      BY <3>1 DEF Led, Resident, Migrating
  <2> QED
    BY <2>1, <2>2
<1> QED
  BY <1>2, <1>3, <1>4 DEF ControlOK

(* An entity that is in no migration afterwards.                            *)
LEMMA RestLed ==
  ASSUME OwnInv, ControlOK, NEW i \in IDs, i < nextID, NEW e, NEW c,
         NEW n \in Seqs, NEW d \in Seqs, NEW h \in Seqs, NEW l \in Lives,
         entity' = [entity EXCEPT ![i] = e],
         locator' = [locator EXCEPT ![i] = c],
         migration' = [migration EXCEPT ![i] = NoRecord],
         PlayerSet(i, n, d, h, l), Dead(l) => d = None,
         UNCHANGED nextID, active' \subseteq Cells,
         c # NoCell => Controls(e, n, d, h)
  PROVE  ControlOK'
<1>1. nextID \in Nat /\ nextID <= MaxEntities + 1
  BY DEF ControlOK, OwnInv, WholeInv, Shaped
<1>3. /\ entity'[i] = e /\ locator'[i] = c /\ migration'[i] = NoRecord
      /\ \A j \in IDs \ {i} : /\ entity'[j] = entity[j]
                              /\ locator'[j] = locator[j]
                              /\ migration'[j] = migration[j]
  BY DEF OwnInv, WholeInv, Shaped
<1>4. ~Migrating(i)' /\ (Resident(i)' => Controls(entity'[i], n, d, h))
  BY <1>3 DEF Migrating, Resident
<1>5. nextID' \in Nat /\ nextID <= nextID' /\ nextID' <= MaxEntities + 1 /\ i < nextID'
  BY <1>1
<1> QED
  BY <1>3, <1>4, <1>5, OneLed

(* A member that stays a member of its cell.                                *)
LEMMA StayLed ==
  ASSUME OwnInv, ControlOK, NEW i \in IDs, Resident(i), NEW e,
         NEW n \in Seqs, NEW d \in Seqs, NEW h \in Seqs, NEW l \in Lives,
         entity' = [entity EXCEPT ![i] = e], Controls(e, n, d, h),
         PlayerSet(i, n, d, h, l), Dead(l) => d = None,
         UNCHANGED <<nextID, registry>>
  PROVE  ControlOK'
<1>1. i < nextID /\ ~Migrating(i)
  BY ResidentIsEntity DEF OwnInv
<1> DEFINE c == locator[i]
<1>2. /\ locator' = [locator EXCEPT ![i] = c]
      /\ migration' = [migration EXCEPT ![i] = NoRecord]
      /\ active' \subseteq Cells
  BY <1>1 DEF OwnInv, WholeInv, Shaped, Migrating, ControlOK, registry
<1> HIDE DEF c
<1> QED
  BY <1>1, <1>2, RestLed

LEMMA ResidentControls ==
  ASSUME OwnInv, ControlOK, NEW i \in IDs, Resident(i)
  PROVE  Controls(entity[i], newest[i], due[i], held[i]) /\ IsEntity(entity[i]) /\ i < nextID
BY ResidentIsEntity DEF OwnInv, ControlOK, Led

LEMMA SetPositionLeads ==
  ASSUME OwnInv, ControlOK, NEW i \in IDs, NEW p \in Positions, SetPosition(i, p)
  PROVE  ControlOK'
<1> DEFINE e == [entity[i] EXCEPT !.pos = p]
<1>1. Resident(i) /\ entity' = [entity EXCEPT ![i] = e]
      /\ UNCHANGED <<nextID, player, registry>>
  BY DEF SetPosition
<1>2. Controls(entity[i], newest[i], due[i], held[i]) /\ IsEntity(entity[i])
  BY <1>1, ResidentControls
<1>3. SameControl(e, entity[i])
  BY <1>2, MovedControl
<1> HIDE DEF e
<1>4. Controls(e, newest[i], due[i], held[i])
  BY <1>2, <1>3, SameControlled
<1> QED
  BY <1>1, <1>4, PlayerStays, PlayerTypes, StayLed

(* A turn: the input that was to move the entity is the one it holds.       *)
LEMMA TurnIs ==
  ASSUME OwnInv, ControlOK, NEW i \in IDs, Turn(i)
  PROVE  /\ Resident(i) /\ IsEntity(entity[i]) /\ IsEntity(Consumed(entity[i]))
         /\ Controls(Consumed(entity[i]), newest[i], due[i], due[i])
         /\ PlayerSet(i, newest[i], due[i], due[i], life[i])
<1>1. Resident(i)
  BY DEF Turn
<1>2. Controls(entity[i], newest[i], due[i], held[i]) /\ IsEntity(entity[i])
  BY <1>1, ResidentControls
<1>3. Control(i) = Moving(entity[i], held[i]) /\ Moving(entity[i], held[i]) = due[i]
  BY <1>2 DEF Control, Moving, Controls
<1>4. Controls(Consumed(entity[i]), newest[i], due[i], Moving(entity[i], held[i]))
  BY <1>2, ConsumedControls
<1>5. PlayerSet(i, newest[i], due[i], due[i], life[i])
  BY <1>3 DEF Turn, PlayerSet, ControlOK, PlayerOK
<1> QED
  BY <1>1, <1>2, <1>3, <1>4, <1>5, ConsumedEntity

LEMMA StepWithinLeads ==
  ASSUME OwnInv, ControlOK, NEW i \in IDs, NEW p \in Positions, StepWithin(i, p)
  PROVE  ControlOK'
<1> DEFINE x == Consumed(entity[i])
           e == [x EXCEPT !.pos = p]
<1>1. entity' = [entity EXCEPT ![i] = e] /\ UNCHANGED <<nextID, registry>> /\ Turn(i)
  BY DEF StepWithin
<1>2. /\ Resident(i) /\ IsEntity(x) /\ Controls(x, newest[i], due[i], due[i])
      /\ PlayerSet(i, newest[i], due[i], due[i], life[i])
  BY <1>1, TurnIs
<1> HIDE DEF x
<1>3. SameControl(e, x)
  BY <1>2, MovedControl
<1> HIDE DEF e
<1>4. Controls(e, newest[i], due[i], due[i])
  BY <1>2, <1>3, SameControlled
<1> QED
  BY <1>1, <1>2, <1>4, PlayerTypes, StayLed

LEMMA StepHeldLeads ==
  ASSUME OwnInv, ControlOK, NEW i \in IDs, NEW p \in Positions, StepHeld(i, p)
  PROVE  ControlOK'
<1> DEFINE e == Consumed(entity[i])
<1>1. entity' = [entity EXCEPT ![i] = e] /\ UNCHANGED <<nextID, registry>> /\ Turn(i)
  BY DEF StepHeld
<1>2. /\ Resident(i) /\ Controls(e, newest[i], due[i], due[i])
      /\ PlayerSet(i, newest[i], due[i], due[i], life[i])
  BY <1>1, TurnIs
<1> HIDE DEF e
<1> QED
  BY <1>1, <1>2, PlayerTypes, StayLed

LEMMA DeliverLeads ==
  ASSUME OwnInv, ControlOK, NEW o \in Ops, Deliver(o)
  PROVE  ControlOK'
<1> DEFINE i == route[o].target
           q == Pushed(OpCapacity, entity[i].ops, o)
           e == [entity[i] EXCEPT !.ops = q]
<1>1. Resident(i) /\ entity' = [entity EXCEPT ![i] = e]
      /\ UNCHANGED <<nextID, player, registry>> /\ i \in IDs
  BY RouteTarget DEF Deliver, OwnInv
<1> HIDE DEF i, q
<1>2. Controls(entity[i], newest[i], due[i], held[i]) /\ IsEntity(entity[i])
  BY <1>1, ResidentControls
<1>3. SameControl(e, entity[i])
  BY <1>2, CachedControl
<1> HIDE DEF e
<1>4. Controls(e, newest[i], due[i], held[i])
  BY <1>2, <1>3, SameControlled
<1> QED
  BY <1>1, <1>4, PlayerStays, PlayerTypes, StayLed

(* The input of an accepted intent is the last one, and it is to move.       *)
LEMMA AcceptsIs ==
  ASSUME ControlOK, NEW i \in IDs, NEW s, Accepts(i, s)
  PROVE  PlayerSet(i, s, s, held[i], life[i])
BY DEF Accepts, PlayerSet, ControlOK, PlayerOK

LEMMA SubmitMoveLeads ==
  ASSUME OwnInv, ControlOK, NEW i \in IDs, NEW s \in Inputs, SubmitMove(i, s)
  PROVE  ControlOK'
<1> DEFINE e == Controlled(entity[i], s)
<1>1. Resident(i) /\ entity' = [entity EXCEPT ![i] = e] /\ Accepts(i, s)
      /\ UNCHANGED <<nextID, registry>> /\ life[i] = "alive"
  BY DEF SubmitMove
<1>2. entity[i].processed \in Seqs /\ IsEntity(entity[i])
  BY <1>1, ResidentControls DEF Controls
<1>3. held[i] \in Seqs /\ life[i] \in Lives /\ s \in Seqs /\ ~Dead(life[i])
  BY <1>1, PlayerTypes, InputsAreSeqs DEF Dead
<1>4. Controls(e, s, s, held[i])
  BY <1>2, <1>3, ControlledControls
<1> HIDE DEF e
<1>5. PlayerSet(i, s, s, held[i], life[i])
  BY <1>1, AcceptsIs
<1> QED
  BY <1>1, <1>3, <1>4, <1>5, StayLed

(* A member is moved to another cell, and what moves it is known.           *)
LEMMA TransferLeads ==
  ASSUME OwnInv, ControlOK, NEW i \in IDs, NEW p \in Positions, NEW x, IsEntity(x),
         Resident(i), Transfer(i, x, p),
         NEW n \in Seqs, NEW d \in Seqs, NEW h \in Seqs, NEW l \in Lives,
         Controls(x, n, d, h), PlayerSet(i, n, d, h, l), Dead(l) => d = None
  PROVE  ControlOK'
<1> DEFINE w == entity[i].owner
           to == NextOwner(w, CellOf[p])
           y == [x EXCEPT !.pos = p, !.owner = to]
           e == Placed(x, to, p)
           c == to.cell
<1>1. w.gen < MaxGeneration /\ entity' = [entity EXCEPT ![i] = y]
      /\ locator' = [locator EXCEPT ![i] = c]
      /\ active' = (active \cup {c}) \ {k \in {w.cell} : members[k] = {i}}
      /\ UNCHANGED <<nextID, migration>>
  BY DEF Transfer
<1>2. IsEntity(entity[i]) /\ w \in Owner /\ i < nextID
  BY ResidentControls DEF IsEntity
<1>3. to \in Owner /\ c \in Cells
  BY <1>1, <1>2, CellIsCell, NextOwnerType
<1> HIDE DEF to, w, c
<1>5. y = e
  BY <1>3, PlacedEitherWay
<1>6. SameControl(e, x)
  BY PlacedControl
<1> HIDE DEF e, y
<1>7. migration' = [migration EXCEPT ![i] = NoRecord]
  BY <1>1, ResidentIsEntity DEF OwnInv, WholeInv, Shaped, Migrating
<1>8. active' \subseteq Cells
  BY <1>1, <1>3 DEF ControlOK
<1>9. Controls(e, n, d, h)
  BY <1>6, SameControlled
<1> QED
  BY <1>1, <1>2, <1>5, <1>7, <1>8, <1>9, RestLed

LEMMA StepAcrossLeads ==
  ASSUME OwnInv, ControlOK, NEW i \in IDs, NEW p \in Positions, StepAcross(i, p)
  PROVE  ControlOK'
<1>1. Turn(i) /\ Transfer(i, Consumed(entity[i]), p)
  BY DEF StepAcross
<1>2. /\ Resident(i) /\ IsEntity(Consumed(entity[i]))
      /\ Controls(Consumed(entity[i]), newest[i], due[i], due[i])
      /\ PlayerSet(i, newest[i], due[i], due[i], life[i])
  BY <1>1, TurnIs
<1> QED
  BY <1>1, <1>2, PlayerTypes, TransferLeads

(* A death leaves nothing that moves the player, and one that is released,   *)
(* or held for its penalties, keeps what it has.                             *)
LEMMA StopsIs ==
  ASSUME OwnInv, ControlOK, NEW i \in IDs, NEW a, NEW b \in Lives,
         LifeBecomes(i, a, b), Stops(i)
  PROVE  /\ Resident(i) /\ IsEntity(Quiesced(entity[i]))
         /\ Controls(Quiesced(entity[i]), newest[i], None, None)
         /\ PlayerSet(i, newest[i], None, None, b)
<1>1. Resident(i)
  BY DEF LifeBecomes
<1>2. Controls(entity[i], newest[i], due[i], held[i]) /\ IsEntity(entity[i])
  BY <1>1, ResidentControls
<1>3. PlayerSet(i, newest[i], None, None, b)
  BY DEF Stops, LifeBecomes, PlayerSet, ControlOK, PlayerOK
<1> QED
  BY <1>1, <1>2, <1>3, QuiescedEntity, QuiescedControls

LEMMA LivesAre == \A l \in {"alive", "dying", "awaiting", "penalty"} : l \in Lives
BY DEF Lives

LEMMA BeginDeathLeads ==
  ASSUME OwnInv, ControlOK, NEW i \in IDs, PlayerBeginDeathPersistence(i)
  PROVE  ControlOK'
<1> DEFINE e == Quiesced(entity[i])
<1>1. LifeBecomes(i, "alive", "dying") /\ Stops(i) /\ entity' = [entity EXCEPT ![i] = e]
      /\ UNCHANGED <<nextID, registry>>
  BY DEF PlayerBeginDeathPersistence
<1>2. Resident(i) /\ Controls(e, newest[i], None, None)
      /\ PlayerSet(i, newest[i], None, None, "dying")
  BY <1>1, StopsIs, LivesAre
<1> HIDE DEF e
<1> QED
  BY <1>1, <1>2, LivesAre, PlayerTypes, InputsAreSeqs, StayLed

LEMMA PostDeathLeads ==
  ASSUME OwnInv, ControlOK, NEW i \in IDs, NEW p \in Positions,
         PostDeathWithin(i, p) \/ PostDeathAcross(i, p)
  PROVE  ControlOK'
<1> DEFINE x == Quiesced(entity[i])
           e == [x EXCEPT !.pos = p]
<1>1. LifeBecomes(i, "dying", "awaiting") /\ Stops(i)
  BY DEF PostDeathWithin, PostDeathAcross
<1>2. /\ Resident(i) /\ IsEntity(x) /\ Controls(x, newest[i], None, None)
      /\ PlayerSet(i, newest[i], None, None, "awaiting")
  BY <1>1, StopsIs, LivesAre
<1>3. CASE PostDeathWithin(i, p)
  <2>1. entity' = [entity EXCEPT ![i] = e] /\ UNCHANGED <<nextID, registry>>
    BY <1>3 DEF PostDeathWithin
  <2> HIDE DEF x
  <2>2. SameControl(e, x)
    BY <1>2, MovedControl
  <2> HIDE DEF e
  <2>3. Controls(e, newest[i], None, None)
    BY <1>2, <2>2, SameControlled
  <2> QED
    BY <1>2, <2>1, <2>3, LivesAre, PlayerTypes, InputsAreSeqs, StayLed
<1>4. CASE PostDeathAcross(i, p)
  <2>1. Transfer(i, x, p)
    BY <1>4 DEF PostDeathAcross
  <2> HIDE DEF x
  <2> QED
    BY <1>2, <2>1, LivesAre, PlayerTypes, InputsAreSeqs, TransferLeads
<1> QED
  BY <1>3, <1>4

LEMMA ReleaseLeads ==
  ASSUME OwnInv, ControlOK, NEW i \in IDs,
         \/ PlayerReleaseRespawn(i) \/ PlayerOrchestrateDeathPenalties(i)
         \/ PlayerAcceptDeathPenaltyCompletion(i)
  PROVE  ControlOK'
<1>1. PICK a \in Lives, b \in Lives :
        /\ LifeBecomes(i, a, b) /\ ~Dead(b)
        /\ UNCHANGED <<nextID, entity, registry, held, newest, due>>
  BY DEF PlayerReleaseRespawn, PlayerOrchestrateDeathPenalties,
         PlayerAcceptDeathPenaltyCompletion, Lives, Dead
<1>2. Resident(i) /\ Controls(entity[i], newest[i], due[i], held[i])
  BY <1>1, ResidentControls DEF LifeBecomes
<1>3. PlayerSet(i, newest[i], due[i], held[i], b)
  BY <1>1 DEF LifeBecomes, PlayerSet, ControlOK, PlayerOK
<1>4. entity' = [entity EXCEPT ![i] = entity[i]]
  BY <1>1 DEF OwnInv, WholeInv, Shaped
<1> QED
  BY <1>1, <1>2, <1>3, <1>4, PlayerTypes, StayLed

LEMMA MigratingWillControl ==
  ASSUME OwnInv, ControlOK, NEW i \in IDs, Migrating(i)
  PROVE  /\ WillControl(entity[i], migration[i], newest[i], due[i], held[i])
         /\ IsEntity(entity[i]) /\ IsRecord(migration[i]) /\ i < nextID
BY MigratingIsRecord DEF OwnInv, ControlOK, Led

LEMMA CommitHandoffLeads ==
  ASSUME OwnInv, ControlOK, NEW t \in tokens, CommitHandoff(t)
  PROVE  ControlOK'
<1> DEFINE i == t.id
           c == t.to.cell
           x == Replayed(entity[i], migration[i].queue)
           e == [x EXCEPT !.owner = t.to]
<1>1. i \in IDs /\ t.to \in Owner /\ c \in Cells
  BY DEF OwnInv, WholeInv, Shaped, Token, Owner
<1>2. /\ Migrating(i)
      /\ entity' = [entity EXCEPT ![i] = e]
      /\ locator' = [locator EXCEPT ![i] = c]
      /\ migration' = [migration EXCEPT ![i] = NoRecord]
      /\ active' = (active \cup {c}) \ {k \in {t.from.cell} : members[k] = {}}
      /\ UNCHANGED <<nextID, player>>
  BY DEF CommitHandoff, Opens, InstallBy
<1>3. WillControl(entity[i], migration[i], newest[i], due[i], held[i])
      /\ IsEntity(entity[i]) /\ i < nextID
  BY <1>1, <1>2, MigratingWillControl
<1>4. IsEntity(x) /\ Controls(x, newest[i], due[i], held[i])
  BY <1>3, ReplayedEntity, ReplayedControls
<1> HIDE DEF x
<1>5. SameControl(e, x)
  BY <1>4, OwnedControl
<1>6. active' \subseteq Cells
  BY <1>1, <1>2 DEF ControlOK
<1> HIDE DEF e, c, i
<1>7. Controls(e, newest[i], due[i], held[i])
  BY <1>4, <1>5, SameControlled
<1> QED
  BY <1>1, <1>2, <1>3, <1>6, <1>7, PlayerStays, PlayerTypes, RestLed

LEMMA AbortHandoffLeads ==
  ASSUME OwnInv, ControlOK, NEW i \in IDs, AbortHandoff(i)
  PROVE  ControlOK'
<1> DEFINE r == migration[i]
           c == r.from.cell
           w == r.from
           p == r.source
           x == Replayed(entity[i], r.queue)
           e == Placed(x, w, p)
<1>1. /\ Migrating(i)
      /\ entity' = [entity EXCEPT ![i] = e]
      /\ locator' = [locator EXCEPT ![i] = c]
      /\ active' = active \cup {c}
      /\ migration' = [migration EXCEPT ![i] = NoRecord]
      /\ UNCHANGED <<nextID, player>>
  BY DEF AbortHandoff, Placed
<1>2. WillControl(entity[i], r, newest[i], due[i], held[i])
      /\ IsEntity(entity[i]) /\ IsRecord(r) /\ i < nextID
  BY <1>1, MigratingWillControl
<1>3. c \in Cells
  BY <1>2 DEF IsRecord, Owner
<1>4. IsEntity(x) /\ Controls(x, newest[i], due[i], held[i])
  BY <1>2, ReplayedEntity, ReplayedControls
<1> HIDE DEF x, w, p
<1>5. SameControl(e, x)
  BY <1>4, PlacedControl
<1>6. active' \subseteq Cells
  BY <1>1, <1>3 DEF ControlOK
<1> HIDE DEF e, c
<1>7. Controls(e, newest[i], due[i], held[i])
  BY <1>4, <1>5, SameControlled
<1> QED
  BY <1>1, <1>2, <1>6, <1>7, PlayerStays, PlayerTypes, RestLed

LEMMA SubmitMigratingLeads ==
  ASSUME OwnInv, ControlOK, NEW i \in IDs, NEW s \in Inputs, SubmitMigrating(i, s)
  PROVE  ControlOK'
<1> DEFINE m == migration[i]
           r == Queued(m, Append(m.queue, s), s)
<1>1. /\ Migrating(i) /\ Newer(m.frontier, s) /\ Len(m.queue) < QueueCapacity
      /\ migration' = [migration EXCEPT ![i] = r]
      /\ Accepts(i, s) /\ life[i] = "alive"
      /\ UNCHANGED <<nextID, entity, locator, active>>
  BY DEF SubmitMigrating, Queued
<1>2. WillControl(entity[i], m, newest[i], due[i], held[i]) /\ IsRecord(m) /\ i < nextID
      /\ ~Resident(i)
  BY <1>1, MigratingWillControl, MigratingIsRecord DEF OwnInv
<1>3. m.frontier = newest[i]
  BY <1>2 DEF WillControl
<1>4. WillControl(entity[i], r, s, s, held[i]) /\ s \in Seqs
  BY <1>1, <1>2, <1>3, QueuedControls, InputsAreSeqs
<1> HIDE DEF r
<1>5. migration'[i] = r /\ \A j \in IDs \ {i} : migration'[j] = migration[j]
  BY <1>1 DEF OwnInv, WholeInv, Shaped
<1>6. /\ nextID' \in Nat /\ nextID <= nextID' /\ nextID' <= MaxEntities + 1 /\ i < nextID'
      /\ active' \subseteq Cells /\ ~Resident(i)'
  BY <1>1, <1>2 DEF OwnInv, WholeInv, Shaped, ControlOK, Resident
<1>7. PlayerSet(i, s, s, held[i], life[i]) /\ held[i] \in Seqs /\ life[i] \in Lives
      /\ ~Dead(life[i])
  BY <1>1, AcceptsIs, PlayerTypes DEF Dead
<1> QED
  BY <1>1, <1>4, <1>5, <1>6, <1>7, OneLed

LEMMA BeginHandoffLeads ==
  ASSUME OwnInv, ControlOK, NEW i \in IDs, NEW p \in Positions, BeginHandoff(i, p)
  PROVE  ControlOK'
<1> DEFINE w == entity[i].owner
           to == NextOwner(w, CellOf[p])
           e == [entity[i] EXCEPT !.pos = p]
           r == [from |-> w, to |-> to, source |-> entity[i].pos, queue |-> <<>>,
                 frontier |-> entity[i].accepted]
<1>1. /\ Resident(i)
      /\ migration' = [migration EXCEPT ![i] = r]
      /\ entity' = [entity EXCEPT ![i] = e]
      /\ locator' = [locator EXCEPT ![i] = NoCell]
      /\ UNCHANGED <<nextID, active, player>>
  BY DEF BeginHandoff
<1>2. Controls(entity[i], newest[i], due[i], held[i]) /\ IsEntity(entity[i]) /\ i < nextID
  BY <1>1, ResidentControls
<1>3. SameControl(e, entity[i])
  BY <1>2, MovedControl
<1>4. r.queue = <<>> /\ r.frontier = entity[i].accepted
  OBVIOUS
<1> HIDE DEF e, r
<1>5. WillControl(e, r, newest[i], due[i], held[i])
  BY <1>2, <1>3, <1>4, BeginsControlled
<1>6. /\ nextID' \in Nat /\ nextID <= nextID' /\ nextID' <= MaxEntities + 1 /\ i < nextID'
      /\ active' \subseteq Cells
  BY <1>1, <1>2 DEF OwnInv, WholeInv, Shaped, ControlOK
<1>7. entity'[i] = e /\ migration'[i] = r /\ locator'[i] = NoCell
      /\ \A j \in IDs \ {i} : /\ entity'[j] = entity[j]
                              /\ locator'[j] = locator[j]
                              /\ migration'[j] = migration[j]
  BY <1>1 DEF OwnInv, WholeInv, Shaped
<1>8. ~Resident(i)'
  BY <1>7 DEF Resident
<1> QED
  BY <1>1, <1>5, <1>6, <1>7, <1>8, PlayerStays, PlayerTypes, OneLed

LEMMA RemovalsLead ==
  ASSUME OwnInv, ControlOK, NEW i \in IDs, RemoveResident(i) \/ RemoveMigrating(i)
  PROVE  ControlOK'
<1>1. entity' = [entity EXCEPT ![i] = NoEntity] /\ UNCHANGED nextID /\ ForgetPlayer(i)
  BY DEF RemoveResident, RemoveMigrating
<1>2. active' \subseteq Cells
  BY DEF RemoveResident, RemoveMigrating, ControlOK
<1>3. i < nextID /\ locator' = [locator EXCEPT ![i] = NoCell]
      /\ migration' = [migration EXCEPT ![i] = NoRecord]
  <2>1. CASE RemoveResident(i)
    <3>1. i < nextID /\ ~Migrating(i)
      BY <2>1, ResidentIsEntity DEF RemoveResident, OwnInv
    <3> QED
      BY <2>1, <3>1 DEF RemoveResident, OwnInv, WholeInv, Shaped, Migrating
  <2>2. CASE RemoveMigrating(i)
    <3>1. i < nextID /\ locator[i] = NoCell
      BY <2>2, MigratingIsRecord DEF RemoveMigrating, OwnInv
    <3> QED
      BY <2>2, <3>1 DEF RemoveMigrating, OwnInv, WholeInv, Shaped
  <2> QED
    BY <2>1, <2>2
<1>4. PlayerSet(i, newest[i], due[i], None, "alive")
  BY <1>1 DEF ForgetPlayer, PlayerSet, ControlOK, PlayerOK
<1> DEFINE e == NoEntity
           c == NoCell
<1>5. entity' = [entity EXCEPT ![i] = e] /\ locator' = [locator EXCEPT ![i] = c]
      /\ (c # NoCell => Controls(e, newest[i], due[i], None))
  BY <1>1, <1>3
<1> HIDE DEF e, c
<1>6. ~Dead("alive")
  BY DEF Dead
<1> QED
  BY <1>1, <1>2, <1>3, <1>4, <1>5, <1>6, LivesAre, PlayerTypes, InputsAreSeqs, RestLed

LEMMA AddEntityLeads ==
  ASSUME OwnInv, ControlOK, NEW p \in Positions, AddEntity(p)
  PROVE  ControlOK'
<1>0. PICK i : i = nextID
  OBVIOUS
<1> DEFINE c == CellOf[p]
           e == [owner |-> [cell |-> c, gen |-> 1], pos |-> p, accepted |-> None,
                 pending |-> None, processed |-> None, ops |-> <<>>]
<1>1. /\ i <= MaxEntities /\ nextID' = i + 1
      /\ entity' = [entity EXCEPT ![i] = e]
      /\ locator' = [locator EXCEPT ![i] = c]
      /\ active' = active \cup {c}
      /\ UNCHANGED <<migration, player>>
  BY <1>0 DEF AddEntity
<1>2. i \in IDs /\ i \in Nat /\ nextID' <= MaxEntities + 1
  BY <1>0, <1>1, OwnershipConstants DEF OwnInv, WholeInv, Shaped, IDs
<1>3. ~Live(i) /\ ~Migrating(i) /\ Fresh(i)
  BY <1>0, <1>2 DEF OwnInv, WholeInv, Whole, ControlOK
<1>4. Controls(e, None, None, None)
  BY InputsAreSeqs DEF Controls, Moving
<1>5. c \in Cells
  BY CellIsCell
<1> HIDE DEF e, c
<1>6. entity'[i] = e /\ ~Migrating(i)'
      /\ \A j \in IDs \ {i} : /\ entity'[j] = entity[j]
                              /\ locator'[j] = locator[j]
                              /\ migration'[j] = migration[j]
  BY <1>1, <1>2, <1>3 DEF OwnInv, WholeInv, Shaped, Migrating
<1>7. PlayerSet(i, newest[i], due[i], held[i], life[i])
      /\ Controls(entity'[i], newest[i], due[i], held[i])
  BY <1>1, <1>2, <1>3, <1>4, <1>6, PlayerStays DEF Fresh
<1>8. nextID' \in Nat /\ nextID <= nextID' /\ i < nextID' /\ active' \subseteq Cells
  BY <1>0, <1>1, <1>2, <1>5 DEF ControlOK
<1> QED
  BY <1>2, <1>6, <1>7, <1>8, PlayerTypes, OneLed

-----------------------------------------------------------------------------
(* The invariant and its consequences *)

LEMMA OwnInitially == Init => OwnInv
<1> SUFFICES ASSUME Init PROVE OwnInv
  OBVIOUS
<1>1. CacheOK
  BY DEF Init, CacheOK, Live
<1> QED
  BY <1>1, WholeInitially DEF OwnInv

LEMMA OwnNext == OwnInv /\ [Next]_vars => OwnInv'
<1> SUFFICES ASSUME OwnInv, [Next]_vars PROVE WholeInv' /\ CacheOK'
  BY DEF OwnInv
<1> USE DEF OwnInv
<1>1. ASSUME NEW p \in Positions, AddEntity(p) PROVE WholeInv' /\ CacheOK'
  BY <1>1, AddEntityKeeps, AddEntityKeepsCaches
<1>9. ASSUME NEW i \in IDs, DeathInPlace(i) PROVE WholeInv' /\ CacheOK'
  BY <1>9, DeathInPlaceKeeps, DeathsKeepCaches
<1>2. ASSUME NEW i \in IDs, RemoveResident(i) \/ RemoveMigrating(i) \/ AbortHandoff(i)
      PROVE  WholeInv' /\ CacheOK'
  BY <1>2, RemoveResidentKeeps, RemoveMigratingKeeps, AbortHandoffKeeps, RemovalsKeepCaches,
     InstallsKeepCaches
<1>3. ASSUME NEW i \in IDs, NEW p \in Positions,
             \/ SetPosition(i, p) \/ BeginHandoff(i, p)
             \/ StepWithin(i, p) \/ StepAcross(i, p) \/ StepHeld(i, p)
             \/ PostDeathWithin(i, p) \/ PostDeathAcross(i, p)
      PROVE  WholeInv' /\ CacheOK'
  <2>1. WholeInv'
    BY <1>3, SetPositionKeeps, BeginHandoffKeeps, StepWithinKeeps, StepHeldKeeps,
       AcrossKeeps, PostDeathWithinKeeps
  <2>2. CacheOK'
    BY <1>3, ResidentStepsKeepCaches, AcrossKeepsCaches, DeathsKeepCaches
  <2> QED
    BY <2>1, <2>2
<1>4. ASSUME NEW i \in IDs, NEW s \in Inputs, SubmitMove(i, s) \/ SubmitMigrating(i, s)
      PROVE  WholeInv' /\ CacheOK'
  BY <1>4, SubmitMoveKeeps, SubmitMigratingKeeps, SubmitMoveKeepsCaches,
     SubmitMigratingKeepsCaches
<1>5. ASSUME NEW t \in tokens, CommitHandoff(t) PROVE WholeInv' /\ CacheOK'
  BY <1>5, CommitHandoffKeeps, InstallsKeepCaches
<1>6. ASSUME NEW o \in Ops, Deliver(o) PROVE WholeInv' /\ CacheOK'
  <2>1. route[o] # NoRoute
    BY <1>6 DEF Deliver
  <2>2. route[o].target \in IDs
    BY <2>1, RouteTarget
  <2> QED
    BY <1>6, <2>2, DeliverKeeps, DeliverKeepsCaches
<1>7. ASSUME NEW o \in Ops, NEW i \in IDs, ReadRoute(o, i) PROVE WholeInv' /\ CacheOK'
  <2>1. WholeInv'
    BY <1>7, UntouchedKeeps DEF ReadRoute
  <2> QED
    BY <1>7, <2>1, ReadRouteKeepsCaches
<1>8. CASE UNCHANGED vars
  <2>1. WholeInv'
    BY <1>8, UntouchedKeeps DEF vars
  <2> QED
    BY <1>8, <2>1 DEF vars, CacheOK, Live
<1> QED
  BY <1>1, <1>2, <1>3, <1>4, <1>5, <1>6, <1>7, <1>8, <1>9 DEF Next, DeathInPlace

LEMMA OwnAlways == Spec => []OwnInv
BY OwnInitially, OwnNext, PTL DEF Spec

(* However entities step, migrate, commit, abort and leave, and whatever     *)
(* tokens come again, none is lost or doubled (beginHandoff .. abortHandoff). *)
THEOREM NobodyIsLost == Spec => []Residency
<1>1. OwnInv => Residency
  <2> SUFFICES ASSUME WholeInv, NEW i \in IDs
               PROVE  {c \in Cells : i \in members[c]} = {locator[i]} \ {NoCell}
    BY DEF OwnInv, WholeInv, Whole, Residency
  <2>1. \A c \in Cells : i \in members[c] <=> locator[i] = c
    BY DEF WholeInv, Whole
  <2>2. locator[i] \in Cells \cup {NoCell} /\ NoCell \notin Cells
    BY OwnershipConstants DEF WholeInv, Shaped
  <2> QED
    BY <2>1, <2>2
<1> QED
  BY <1>1, OwnAlways, PTL

(* An operation retried over re-read routes, across any number of handoffs,  *)
(* is applied at most once, and is in its target's cache exactly when it was *)
(* (deliverCrossCellOp).                                                     *)
THEOREM OpsApplyOnce == Spec => []AppliedOnce
<1>1. OwnInv => AppliedOnce
  <2> SUFFICES ASSUME OwnInv, NEW o \in Ops
               PROVE  /\ times[o] <= 1
                      /\ route[o] # NoRoute /\ Live(route[o].target) =>
                           (Holds(entity[route[o].target].ops, o) <=> times[o] = 1)
    BY DEF AppliedOnce
  <2>1. times[o] <= 1
    BY DEF OwnInv, CacheOK
  <2>2. ASSUME route[o] # NoRoute, Live(route[o].target)
        PROVE  Holds(entity[route[o].target].ops, o) <=> times[o] = 1
    BY <2>2, RouteTarget DEF OwnInv, CacheOK
  <2> QED
    BY <2>1, <2>2
<1> QED
  BY <1>1, OwnAlways, PTL

-----------------------------------------------------------------------------
(* Types, and the input that controls *)

LeadInv == OwnInv /\ ControlOK

LEMMA LeadInitially == Init => ControlOK
<1> SUFFICES ASSUME Init PROVE ControlOK
  OBVIOUS
<1>1. \A i \in IDs : ~Resident(i) /\ ~Migrating(i)
  BY DEF Init, Resident, Migrating
<1>2. PlayerOK /\ (\A i \in IDs : Fresh(i)) /\ nextID <= MaxEntities + 1 /\ active \subseteq Cells
  BY InputsAreSeqs, LivesAre, OwnershipConstants DEF Init, PlayerOK, Fresh
<1>3. \A i \in IDs : ~Dead(life[i])
  BY <1>2 DEF Fresh, Dead
<1> QED
  BY <1>1, <1>2, <1>3 DEF ControlOK, Led

LEMMA LeadNext == LeadInv /\ [Next]_vars => ControlOK'
<1> SUFFICES ASSUME OwnInv, ControlOK, [Next]_vars PROVE ControlOK'
  BY DEF LeadInv
<1>1. ASSUME NEW p \in Positions, AddEntity(p) PROVE ControlOK'
  BY <1>1, AddEntityLeads
<1>2. ASSUME NEW i \in IDs, RemoveResident(i) \/ RemoveMigrating(i) \/ AbortHandoff(i)
      PROVE  ControlOK'
  BY <1>2, RemovalsLead, AbortHandoffLeads
<1>10. ASSUME NEW i \in IDs, DeathInPlace(i) PROVE ControlOK'
  BY <1>10, BeginDeathLeads, ReleaseLeads DEF DeathInPlace
<1>3. ASSUME NEW i \in IDs, NEW p \in Positions,
             \/ SetPosition(i, p) \/ BeginHandoff(i, p)
             \/ StepWithin(i, p) \/ StepAcross(i, p) \/ StepHeld(i, p)
             \/ PostDeathWithin(i, p) \/ PostDeathAcross(i, p)
      PROVE  ControlOK'
  BY <1>3, SetPositionLeads, BeginHandoffLeads, StepWithinLeads, StepAcrossLeads, StepHeldLeads,
     PostDeathLeads
<1>4. ASSUME NEW i \in IDs, NEW s \in Inputs, SubmitMove(i, s) \/ SubmitMigrating(i, s)
      PROVE  ControlOK'
  BY <1>4, SubmitMoveLeads, SubmitMigratingLeads
<1>5. ASSUME NEW t \in tokens, CommitHandoff(t) PROVE ControlOK'
  BY <1>5, CommitHandoffLeads
<1>6. ASSUME NEW o \in Ops, Deliver(o) PROVE ControlOK'
  BY <1>6, DeliverLeads
<1>7. CASE UNCHANGED <<nextID, entity, registry, player>>
  <2>1. /\ nextID' = nextID /\ entity' = entity /\ locator' = locator /\ active' = active
        /\ migration' = migration /\ newest' = newest /\ due' = due /\ held' = held
        /\ life' = life
    BY <1>7 DEF registry, player
  <2>2. PlayerOK' /\ (\A i \in IDs : i >= nextID' => Fresh(i)')
    BY <2>1 DEF ControlOK, PlayerOK, Fresh
  <2>3. \A i \in IDs : Led(i)'
    BY <2>1 DEF ControlOK, Led, Resident, Migrating
  <2> QED
    BY <2>1, <2>2, <2>3 DEF ControlOK
<1>8. ASSUME NEW o \in Ops, NEW i \in IDs, ReadRoute(o, i) PROVE ControlOK'
  BY <1>7, <1>8 DEF ReadRoute
<1>9. CASE UNCHANGED vars
  BY <1>7, <1>9 DEF vars
<1> QED
  BY <1>1, <1>2, <1>3, <1>4, <1>5, <1>6, <1>8, <1>9, <1>10 DEF Next, DeathInPlace

LEMMA LeadAlways == Spec => []LeadInv
<1>1. Init => LeadInv
  BY OwnInitially, LeadInitially DEF LeadInv
<1>2. LeadInv /\ [Next]_vars => LeadInv'
  BY OwnNext, LeadNext DEF LeadInv
<1> QED
  BY <1>1, <1>2, PTL DEF Spec

LEMMA ControlledType ==
  ASSUME NEW e, IsEntity(e), ControlOf(e) \in InputPair, e.processed \in Seqs
  PROVE  e \in Entity
<1> DEFINE a == e.accepted
           b == e.pending
           c == e.processed
           d == e.ops
           o == e.owner
           l == e.pos
<1>1. e = [owner |-> o, pos |-> l, accepted |-> a, pending |-> b, processed |-> c, ops |-> d]
      /\ d \in Seq(Ops) /\ o \in Owner /\ l \in Positions /\ c \in Seqs
  BY DEF IsEntity
<1>2. a \in Seqs /\ b \in Seqs
  BY DEF ControlOf, InputPair
<1> HIDE DEF a, b, c, d, o, l
<1> QED
  BY <1>1, <1>2 DEF Entity

LEMMA RecordType ==
  ASSUME NEW r, IsRecord(r), r.queue \in Seq(Inputs), r.frontier \in Seqs
  PROVE  r \in Record
<1> DEFINE a == r.from
           b == r.to
           c == r.source
           d == r.queue
           g == r.frontier
<1>1. r = [from |-> a, to |-> b, source |-> c, queue |-> d, frontier |-> g]
      /\ a \in Owner /\ b \in Owner /\ c \in Positions /\ d \in Seq(Inputs) /\ g \in Seqs
  BY DEF IsRecord
<1> HIDE DEF a, b, c, d, g
<1> QED
  BY <1>1 DEF Record

(* Every variable has its type, a queue of intents never outgrows its        *)
(* capacity, and nobody is lost or doubled.                                  *)
THEOREM RegistryStaysWhole == Spec => []RegistryWhole
<1>1. LeadInv => TypeOK
  <2> SUFFICES ASSUME WholeInv, CacheOK, ControlOK PROVE TypeOK
    BY DEF LeadInv, OwnInv
  <2>1. ASSUME NEW i \in IDs
        PROVE  /\ entity[i] \in Entity \cup {NoEntity}
               /\ migration[i] \in Record \cup {NoRecord}
               /\ Migrating(i) => Len(migration[i].queue) <= QueueCapacity
    <3>1. Whole(i) /\ Led(i) /\ newest[i] \in Seqs
      BY PlayerTypes DEF WholeInv, ControlOK
    <3>2. CASE Resident(i)
      <4>1. IsEntity(entity[i]) /\ Controls(entity[i], newest[i], due[i], held[i])
            /\ ~Migrating(i)
        BY <3>1, <3>2 DEF Whole, Led
      <4>2. ControlOf(entity[i]) \in InputPair /\ entity[i].processed \in Seqs
        BY <4>1 DEF Controls, ControlOf, InputPair
      <4> QED
        BY <4>1, <4>2, ControlledType DEF Migrating
    <3>3. CASE Migrating(i)
      <4>1. IsEntity(entity[i]) /\ IsRecord(migration[i])
            /\ WillControl(entity[i], migration[i], newest[i], due[i], held[i])
        BY <3>1, <3>3 DEF Whole, Led
      <4>2. /\ ControlOf(entity[i]) \in InputPair /\ entity[i].processed \in Seqs
            /\ migration[i].queue \in Seq(Inputs) /\ migration[i].frontier \in Seqs
            /\ Len(migration[i].queue) <= QueueCapacity
        BY <3>1, <4>1 DEF WillControl
      <4> QED
        BY <4>1, <4>2, ControlledType, RecordType
    <3>4. CASE ~Resident(i) /\ ~Migrating(i)
      BY <3>1, <3>4 DEF Whole, Live, Migrating
    <3> QED
      BY <3>2, <3>3, <3>4
  <2>2. entity \in [IDs -> Entity \cup {NoEntity}] /\ migration \in [IDs -> Record \cup {NoRecord}]
    BY <2>1 DEF WholeInv, Shaped
  <2>3. nextID \in 1..(MaxEntities + 1) /\ active \subseteq Cells /\ PlayerOK
    BY OwnershipConstants DEF WholeInv, Shaped, ControlOK
  <2>4. locator \in [IDs -> Cells \cup {NoCell}] /\ members \in [Cells -> SUBSET IDs]
        /\ tokens \subseteq Token
    BY DEF WholeInv, Shaped
  <2>5. route \in [Ops -> Route \cup {NoRoute}] /\ times \in [Ops -> Nat]
    BY DEF CacheOK
  <2> QED
    BY <2>1, <2>2, <2>3, <2>4, <2>5 DEF TypeOK, PlayerOK
<1> QED
  BY <1>1, LeadAlways, NobodyIsLost, PTL DEF RegistryWhole

(* The input accepted last moves its entity, at rest or once the intents     *)
(* queued through its migration are replayed; no older one ever comes back   *)
(* into force, and none that came before a death does (SubmitMove,           *)
(* submitMigrating, replayMigrationMoves, PlayerQuiesceForDeath,             *)
(* PlayerInstallPostDeathState).                                             *)
THEOREM TheNewestInputLeads == Spec => []NewestInputControls
<1>1. LeadInv => NewestInputControls
  <2> SUFFICES ASSUME LeadInv, NEW i \in IDs
               PROVE  /\ Resident(i) =>
                           /\ entity[i].accepted = newest[i]
                           /\ Control(i) = due[i]
                      /\ Migrating(i) =>
                           LET e == Replayed(entity[i], migration[i].queue) IN
                           /\ migration[i].frontier = newest[i]
                           /\ e.accepted = newest[i]
                           /\ (IF e.pending = None THEN held[i] ELSE e.pending) = due[i]
                      /\ life[i] \in {"dying", "awaiting"} => due[i] = None
    BY DEF NewestInputControls
  <2> DEFINE x == Replayed(entity[i], migration[i].queue)
  <2>1. Led(i)
    BY DEF LeadInv, ControlOK
  <2>2. ASSUME Migrating(i)
        PROVE  migration[i].frontier = newest[i] /\ x.accepted = newest[i]
               /\ (IF x.pending = None THEN held[i] ELSE x.pending) = due[i]
    <3>1. WillControl(entity[i], migration[i], newest[i], due[i], held[i]) /\ IsEntity(entity[i])
      BY <2>2, MigratingWillControl DEF LeadInv
    <3>2. Controls(x, newest[i], due[i], held[i])
      BY <3>1, ReplayedControls
    <3> HIDE DEF x
    <3> QED
      BY <3>1, <3>2 DEF WillControl, Controls, Moving
  <2>3. Resident(i) => entity[i].accepted = newest[i] /\ Control(i) = due[i]
    BY <2>1 DEF Led, Controls, Moving, Control
  <2>4. life[i] \in {"dying", "awaiting"} => due[i] = None
    BY <2>1 DEF Led, Dead
  <2> HIDE DEF x
  <2> QED
    BY <2>2, <2>3, <2>4 DEF x
<1> QED
  BY <1>1, LeadAlways, PTL

-----------------------------------------------------------------------------
(* The fence on its own *)

(* A fence is sound when it waits for at least what it knows, for nothing   *)
(* more when it is open, and never beyond the committed revision p.         *)
Sound(f, p) ==
  /\ f \in Fence
  /\ f.known <= f.required
  /\ f.required <= p
  /\ ~f.pending => f.known = f.required

(* Whatever one fence reflects or waits for, the other does too.            *)
Covers(g, f) ==
  /\ f.known <= g.known
  /\ f.pending => f.required <= g.known \/ (g.pending /\ f.required <= g.required)

(* Revision r is in memory, or the fence blocks until it is.                *)
Caught(f, r) == r <= f.known \/ (f.pending /\ r <= f.required)

(* NewReconcileState: what was waited for is in memory.                     *)
LEMMA NewFence ==
  ASSUME NEW p \in Revisions, NEW r \in 0..p, NEW f \in Fence,
         Acceptable(f, r)
  PROVE  /\ Sound(NewReconcileState(r), p)
         /\ Covers(NewReconcileState(r), f)
BY ReconcileConstants DEF Fence, Sound, Covers, Revisions, NewReconcileState, Acceptable

(* RequireReload closes the fence.                                          *)
LEMMA ForcedFence ==
  ASSUME NEW p \in Revisions, NEW f \in Fence, Sound(f, p)
  PROVE  /\ Sound(RequireReload(f), p)
         /\ Covers(RequireReload(f), f)
         /\ RequireReload(f).pending
<1> DEFINE g == RequireReload(f)
<1> USE ReconcileConstants DEF Revisions
<1>1. Higher(f.required, f.known) = f.required
  BY DEF Fence, Sound, Higher
<1>2. g \in Fence /\ g.known = f.known /\ g.pending = TRUE /\ g.required = f.required
  BY <1>1 DEF Fence, RequireReload
<1> HIDE DEF g
<1> QED
  BY <1>2 DEF Sound, Covers, Fence, g

(* A refused notice closes the fence too, and catches its revision.         *)
LEMMA RefusedFence ==
  ASSUME NEW p \in Revisions, NEW f \in Fence, Sound(f, p), NEW r \in Changes, r <= p
  PROVE  /\ Sound(Refused(f, r), p)
         /\ Covers(Refused(f, r), f)
         /\ Caught(Refused(f, r), r)
         /\ Refused(f, r).known = f.known
<1> DEFINE g == Refused(f, r)
<1> USE ReconcileConstants DEF Revisions, Changes
<1>1. Higher(f.required, r) \in Revisions /\ f.required <= Higher(f.required, r)
      /\ r <= Higher(f.required, r) /\ Higher(f.required, r) <= p
  BY DEF Fence, Sound, Higher
<1>2. g \in Fence /\ g.known = f.known /\ g.pending = TRUE
      /\ g.required = Higher(f.required, r)
  BY <1>1 DEF Fence, Refused
<1> HIDE DEF g
<1>3. Sound(g, p)
  BY <1>1, <1>2 DEF Sound, Fence
<1>4. Covers(g, f) /\ Caught(g, r)
  BY <1>1, <1>2 DEF Covers, Caught, Fence
<1> QED
  BY <1>2, <1>3, <1>4 DEF g

(* MarkCommitted catches the revision it is given.                          *)
LEMMA MarkedFence ==
  ASSUME NEW p \in Revisions, NEW f \in Fence, Sound(f, p), NEW r \in Changes, r <= p
  PROVE  /\ Sound(MarkCommitted(f, r), p)
         /\ Covers(MarkCommitted(f, r), f)
         /\ Caught(MarkCommitted(f, r), r)
<1> USE ReconcileConstants DEF Fence, Sound, Covers, Caught, Revisions, Changes
<1>1. CASE r <= f.known
  BY <1>1 DEF MarkCommitted
<1>2. CASE ~(r <= f.known)
  <2>1. MarkCommitted(f, r) = Refused(f, r)
    BY <1>2 DEF MarkCommitted, Refused
  <2> QED
    BY <1>2, <2>1, RefusedFence
<1> QED
  BY <1>1, <1>2

(* An applied notice moves the known revision by one.                       *)
LEMMA AdvancedFence ==
  ASSUME NEW p \in Revisions, NEW f \in Fence, Sound(f, p), NEW r \in Changes, r <= p,
         r = f.known + 1
  PROVE  /\ Sound(Advanced(f, r), p)
         /\ Covers(Advanced(f, r), f)
         /\ Advanced(f, r).known = r
<1> DEFINE g == Advanced(f, r)
<1> USE ReconcileConstants DEF Revisions, Changes
<1>1. Higher(f.required, r) \in Revisions /\ f.required <= Higher(f.required, r)
      /\ r <= Higher(f.required, r) /\ Higher(f.required, r) <= p
      /\ (~(r < f.required) => Higher(f.required, r) = r)
  BY DEF Fence, Sound, Higher
<1>2. g \in Fence /\ g.known = r /\ g.pending = (r < f.required)
      /\ g.required = Higher(f.required, r)
  BY <1>1 DEF Fence, Advanced
<1> HIDE DEF g
<1>3. Sound(g, p)
  BY <1>1, <1>2 DEF Sound, Fence
<1>4. Covers(g, f)
  BY <1>1, <1>2 DEF Covers, Fence
<1> QED
  BY <1>2, <1>3, <1>4 DEF g

(* A fence that covers another has caught whatever that one caught.         *)
LEMMA StaysCaught ==
  ASSUME NEW f \in Fence, NEW g \in Fence, Covers(g, f), NEW r \in Changes, Caught(f, r)
  PROVE  Caught(g, r)
BY ReconcileConstants DEF Fence, Covers, Caught, Revisions, Changes

LEMMA CoversItself ==
  ASSUME NEW f \in Fence
  PROVE  Covers(f, f)
BY ReconcileConstants DEF Fence, Covers, Revisions

-----------------------------------------------------------------------------
(* The inductive invariant *)

(* A notice names the revision its operation produced, which PostgreSQL has. *)
Committed(n) == n.op[n.owner] = n.revision /\ n.revision <= pg[n.owner]

(* What the cache holds is in memory: an operation names its revision, so    *)
(* no later one can be mistaken for it.                                      *)
Reflected(o) == \A op \in OpID : Holds(recent[o], op) => op[o] <= fence[o].known

(* The bridge keeps the saver's entry blocked throughout; the fence is       *)
(* closed while it reloads and open while it resolves.                       *)
Bridged(o) ==
  /\ bridge[o] = "reload" => saver[o].blocked /\ fence[o].pending
  /\ bridge[o] = "resolve" => saver[o].blocked /\ ~fence[o].pending

FencesOK ==
  \A o \in Owners : Sound(fence[o], pg[o]) /\ applied[o] = UpTo(fence[o].known)

NoticesOK ==
  /\ \A n \in owed : Committed(n) /\ bridge[n.owner] = "idle"
  /\ \A n \in notices : Committed(n) /\ Caught(fence[n.owner], n.revision)

IInv ==
  /\ ReconcileTypeOK
  /\ FencesOK
  /\ NoticesOK
  /\ \A o \in Owners : Reflected(o) /\ Bridged(o)

LEMMA UpToType ==
  ASSUME NEW r \in Revisions
  PROVE  UpTo(r) \in [Changes -> Nat]
BY DEF UpTo

(* Adding the next change extends the prefix by it.                          *)
LEMMA UpToNext ==
  ASSUME NEW r \in Revisions, r + 1 \in Changes
  PROVE  [UpTo(r) EXCEPT ![r + 1] = UpTo(r)[r + 1] + 1] = UpTo(r + 1)
<1> DEFINE next == [UpTo(r) EXCEPT ![r + 1] = UpTo(r)[r + 1] + 1]
<1>1. next \in [Changes -> Nat] /\ UpTo(r + 1) \in [Changes -> Nat]
  BY ReconcileConstants DEF UpTo, Changes, Revisions
<1>2. ASSUME NEW c \in Changes PROVE next[c] = UpTo(r + 1)[c]
  BY ReconcileConstants DEF UpTo, Changes, Revisions
<1> HIDE DEF next
<1>3. next = UpTo(r + 1)
  BY <1>1, <1>2
<1> QED
  BY <1>3 DEF next

LEMMA EmptyHolds ==
  ASSUME NEW x
  PROVE  ~Holds(<<>>, x)
BY DEF Holds

LEMMA Initially == ReconcileInit => IInv
<1> SUFFICES ASSUME ReconcileInit PROVE IInv
  OBVIOUS
<1> USE ReconcileConstants DEF ReconcileInit
<1>1. ReconcileTypeOK
  <2>1. applied \in [Owners -> [Changes -> Nat]]
    BY DEF UpTo
  <2>2. fence \in [Owners -> Fence]
    BY DEF Fence, NewReconcileState, Revisions
  <2> QED
    BY <2>1, <2>2 DEF ReconcileTypeOK, Revisions
<1>2. FencesOK
  BY DEF FencesOK, Sound, Fence, NewReconcileState, Revisions
<1>3. NoticesOK
  BY DEF NoticesOK
<1>4. ASSUME NEW o \in Owners PROVE Reflected(o) /\ Bridged(o)
  BY EmptyHolds DEF Reflected, Bridged
<1> QED
  BY <1>1, <1>2, <1>3, <1>4 DEF IInv

-----------------------------------------------------------------------------
(* Steps that neither commit nor mark *)

(* Notices already sent stay caught while fences only cover what they did.   *)
LEMMA NoticesKept ==
  ASSUME IInv, ReconcileTypeOK', owed' \subseteq owed, notices' \subseteq notices,
         \A o \in Owners : pg[o] <= pg'[o] /\ Covers(fence'[o], fence[o]),
         \A n \in owed' : bridge'[n.owner] = "idle"
  PROVE  NoticesOK'
<1> USE DEF IInv
<1>1. ASSUME NEW n \in Notice, Committed(n) PROVE Committed(n)'
  BY <1>1, ReconcileConstants DEF Committed, ReconcileTypeOK, Notice, Revisions, Changes
<1>2. ASSUME NEW n \in owed' PROVE Committed(n)' /\ bridge'[n.owner] = "idle"
  BY <1>1, <1>2 DEF NoticesOK, ReconcileTypeOK
<1>3. ASSUME NEW n \in notices' PROVE Committed(n)' /\ Caught(fence[n.owner], n.revision)'
  <2>1. n \in Notice /\ n.owner \in Owners /\ n.revision \in Changes
        /\ Committed(n) /\ Caught(fence[n.owner], n.revision)
    BY <1>3 DEF NoticesOK, ReconcileTypeOK, Notice
  <2>2. fence[n.owner] \in Fence /\ fence'[n.owner] \in Fence
    BY <2>1 DEF ReconcileTypeOK
  <2>3. Caught(fence'[n.owner], n.revision)
    BY <2>1, <2>2, StaysCaught
  <2> QED
    BY <1>1, <2>1, <2>3
<1> QED
  BY <1>2, <1>3 DEF NoticesOK

(* A cache left alone stays reflected while the known revision only grows.   *)
LEMMA ReflectedKept ==
  ASSUME IInv, ReconcileTypeOK', NEW o \in Owners, recent'[o] = recent[o],
         Covers(fence'[o], fence[o])
  PROVE  Reflected(o)'
<1>1. fence[o].known <= fence'[o].known
      /\ fence[o].known \in Int /\ fence'[o].known \in Int
  BY DEF Covers, IInv, ReconcileTypeOK, Fence, Revisions
<1>2. ASSUME NEW op \in OpID, Holds(recent'[o], op) PROVE op[o] <= fence'[o].known
  <2>1. op[o] <= fence[o].known
    BY <1>2 DEF IInv, Reflected
  <2>2. op[o] \in Int
    BY DEF OpID, Revisions
  <2> QED
    BY <1>1, <2>1, <2>2
<1> QED
  BY <1>2 DEF Reflected

(* A step that changes one aggregate's fence and nothing that is sent.       *)
LEMMA OneFence ==
  ASSUME IInv, NEW o \in Owners, NEW g, NEW a,
         fence' = [fence EXCEPT ![o] = g],
         applied' = [applied EXCEPT ![o] = a],
         UNCHANGED <<pg, owed, notices, recent>>,
         Sound(g, pg[o]), Covers(g, fence[o]), a = UpTo(g.known),
         saver' \in [Owners -> [known: Revisions, blocked: BOOLEAN]],
         bridge' \in [Owners -> {"idle", "reload", "resolve"}],
         \A p \in Owners \ {o} : saver'[p] = saver[p] /\ bridge'[p] = bridge[p],
         bridge'[o] = "idle" \/ \A m \in owed : m.owner # o,
         Bridged(o)'
  PROVE  IInv'
<1>1. ReconcileTypeOK'
  <2>1. g \in Fence /\ a \in [Changes -> Nat]
    BY UpToType DEF Sound, Fence
  <2> QED
    BY <2>1 DEF IInv, ReconcileTypeOK
<1>2. ASSUME NEW p \in Owners PROVE fence'[p] = IF p = o THEN g ELSE fence[p]
  BY DEF IInv, ReconcileTypeOK
<1>3. ASSUME NEW p \in Owners PROVE Covers(fence'[p], fence[p])
  BY <1>2, CoversItself DEF IInv, ReconcileTypeOK
<1>4. FencesOK'
  BY <1>2 DEF IInv, FencesOK, ReconcileTypeOK
<1>5. NoticesOK'
  <2>1. \A n \in owed' : bridge'[n.owner] = "idle"
    <3> SUFFICES ASSUME NEW n \in owed PROVE bridge'[n.owner] = "idle"
      OBVIOUS
    <3>1. n.owner \in Owners /\ bridge[n.owner] = "idle"
      BY DEF IInv, NoticesOK, ReconcileTypeOK, Notice
    <3> QED
      BY <3>1
  <2>2. \A p \in Owners : pg[p] <= pg'[p]
    BY DEF IInv, ReconcileTypeOK, Revisions
  <2> QED
    BY <1>1, <1>3, <2>1, <2>2, NoticesKept
<1>6. ASSUME NEW p \in Owners PROVE Reflected(p)'
  BY <1>1, <1>3, ReflectedKept
<1>7. ASSUME NEW p \in Owners PROVE Bridged(p)'
  <2>1. CASE p = o
    BY <2>1
  <2>2. CASE p # o
    BY <1>2, <2>2 DEF IInv, Bridged
  <2> QED
    BY <2>1, <2>2
<1> QED
  BY <1>1, <1>4, <1>5, <1>6, <1>7 DEF IInv

(* The same for a step that leaves memory alone.                             *)
LEMMA OneFenceOnly ==
  ASSUME IInv, NEW o \in Owners, NEW g,
         fence' = [fence EXCEPT ![o] = g],
         UNCHANGED <<pg, applied, owed, notices, recent>>,
         Sound(g, pg[o]), Covers(g, fence[o]), g.known = fence[o].known,
         saver' \in [Owners -> [known: Revisions, blocked: BOOLEAN]],
         bridge' \in [Owners -> {"idle", "reload", "resolve"}],
         \A p \in Owners \ {o} : saver'[p] = saver[p] /\ bridge'[p] = bridge[p],
         bridge'[o] = "idle" \/ \A m \in owed : m.owner # o,
         Bridged(o)'
  PROVE  IInv'
<1>1. applied' = [applied EXCEPT ![o] = applied[o]]
  BY DEF IInv, ReconcileTypeOK
<1>2. applied[o] = UpTo(g.known)
  BY DEF IInv, FencesOK
<1> QED
  BY <1>1, <1>2, OneFence

(* What every fence satisfies.                                               *)
LEMMA FenceOf ==
  ASSUME IInv, NEW o \in Owners
  PROVE  /\ fence[o] \in Fence /\ Sound(fence[o], pg[o]) /\ pg[o] \in Revisions
         /\ applied[o] = UpTo(fence[o].known) /\ fence[o].known \in Revisions
BY DEF IInv, FencesOK, ReconcileTypeOK, Fence

(* A notice step that closes the fence.                                      *)
LEMMA NoticeRefusedKeeps ==
  ASSUME IInv, NEW n \in notices, NoticeRefused(n)
  PROVE  IInv'
<1> DEFINE o == n.owner
           g == Refused(fence[o], n.revision)
<1>1. o \in Owners /\ n.revision \in Changes /\ n.revision <= pg[o]
  BY DEF IInv, ReconcileTypeOK, NoticesOK, Notice, Committed
<1>2. Sound(g, pg[o]) /\ Covers(g, fence[o]) /\ g.known = fence[o].known
  BY <1>1, FenceOf, RefusedFence
<1>3. bridge[o] = "idle" /\ fence' = [fence EXCEPT ![o] = g]
      /\ UNCHANGED <<pg, applied, owed, notices, recent, saver, bridge>>
  BY DEF NoticeRefused, NoticeArrives, Serialized
<1>4. Bridged(o)'
  BY <1>3 DEF Bridged
<1>5. saver' \in [Owners -> [known: Revisions, blocked: BOOLEAN]]
      /\ bridge' \in [Owners -> {"idle", "reload", "resolve"}]
  BY <1>3 DEF IInv, ReconcileTypeOK
<1> HIDE DEF g, o
<1> QED
  BY <1>1, <1>2, <1>3, <1>4, <1>5, OneFenceOnly

(* A pushed operation is reflected when its own revision is.                 *)
LEMMA PushedReflected ==
  ASSUME IInv, NEW o \in Owners, NEW n \in notices, n.owner = o,
         ReconcileTypeOK', Covers(fence'[o], fence[o]),
         n.revision <= fence'[o].known, Seen(n)
  PROVE  Reflected(o)'
<1>1. n.op \in OpID /\ n.op[o] = n.revision /\ recent[o] \in Seq(OpID)
  BY DEF IInv, NoticesOK, Committed, ReconcileTypeOK, Notice
<1>2. recent'[o] = Pushed(SeenCapacity, recent[o], n.op)
  BY DEF Seen, IInv, ReconcileTypeOK
<1>3. fence[o].known <= fence'[o].known
      /\ fence[o].known \in Int /\ fence'[o].known \in Int
  BY DEF Covers, IInv, ReconcileTypeOK, Fence, Revisions
<1>4. ASSUME NEW op \in OpID, Holds(recent'[o], op) PROVE op[o] <= fence'[o].known
  <2>1. CASE op = n.op
    BY <1>1, <2>1
  <2>2. CASE Holds(recent[o], op)
    <3>1. op[o] <= fence[o].known /\ op[o] \in Int
      BY <2>2 DEF IInv, Reflected, OpID, Revisions
    <3> QED
      BY <1>3, <3>1
  <2> QED
    BY <1>1, <1>2, <1>4, <2>1, <2>2, PushedHolds, ReconcileConstants
<1> QED
  BY <1>4 DEF Reflected

LEMMA SeenType ==
  ASSUME IInv, NEW n \in notices, Seen(n)
  PROVE  /\ recent' \in [Owners -> Seq(OpID)]
         /\ \A p \in Owners \ {n.owner} : recent'[p] = recent[p]
<1>1. n.op \in OpID /\ n.owner \in Owners /\ recent[n.owner] \in Seq(OpID)
  BY DEF IInv, ReconcileTypeOK, Notice
<1>2. Pushed(SeenCapacity, recent[n.owner], n.op) \in Seq(OpID)
  BY <1>1, PushedType, ReconcileConstants
<1> QED
  BY <1>1, <1>2 DEF Seen, IInv, ReconcileTypeOK

(* A stale notice is only remembered.                                        *)
LEMMA NoticeStaleKeeps ==
  ASSUME IInv, NEW n \in notices, NoticeStale(n)
  PROVE  IInv'
<1>1. UNCHANGED <<pg, applied, fence, owed, notices, saver, bridge>>
      /\ n.revision <= fence[n.owner].known /\ Seen(n)
  BY DEF NoticeStale
<1>2. ReconcileTypeOK'
  BY <1>1, SeenType DEF IInv, ReconcileTypeOK
<1>3. FencesOK' /\ NoticesOK' /\ \A o \in Owners : Bridged(o)'
  BY <1>1 DEF IInv, FencesOK, NoticesOK, Bridged, Committed
<1>4. ASSUME NEW o \in Owners PROVE Reflected(o)'
  <2>1. Covers(fence'[o], fence[o])
    BY <1>1, CoversItself, FenceOf
  <2>2. CASE o = n.owner
    BY <1>1, <1>2, <2>1, <2>2, PushedReflected
  <2>3. CASE o # n.owner
    BY <1>1, <1>2, <2>1, <2>3, SeenType, ReflectedKept
  <2> QED
    BY <2>2, <2>3
<1> QED
  BY <1>2, <1>3, <1>4 DEF IInv

(* The next change is applied, and only then remembered.                     *)
LEMMA NoticeAppliedKeeps ==
  ASSUME IInv, NEW n \in notices, NoticeApplied(n)
  PROVE  IInv'
<1> DEFINE r == n.revision
           g == Advanced(fence[n.owner], r)
           a == [applied[n.owner] EXCEPT ![r] = applied[n.owner][r] + 1]
<1>1. n.owner \in Owners /\ r \in Changes /\ r <= pg[n.owner]
  BY DEF IInv, ReconcileTypeOK, NoticesOK, Notice, Committed
<1>2. r = fence[n.owner].known + 1 /\ Seen(n) /\ bridge[n.owner] = "idle"
      /\ fence' = [fence EXCEPT ![n.owner] = g]
      /\ applied' = [applied EXCEPT ![n.owner] = a]
      /\ UNCHANGED <<pg, owed, notices, saver, bridge>>
  BY DEF NoticeApplied, NoticeArrives, Serialized
<1>3. Sound(g, pg[n.owner]) /\ Covers(g, fence[n.owner]) /\ g.known = r
  BY <1>1, <1>2, FenceOf, AdvancedFence
<1>4. a = UpTo(r)
  BY <1>1, <1>2, FenceOf, UpToNext
<1>5. r \in Revisions
  BY <1>1 DEF Changes, Revisions
<1> HIDE DEF g, a, r
<1>6. ReconcileTypeOK'
  <2>1. g \in Fence /\ a \in [Changes -> Nat]
    BY <1>3, <1>4, <1>5, UpToType DEF Sound
  <2> QED
    BY <1>1, <1>2, <2>1, SeenType DEF IInv, ReconcileTypeOK
<1>7. ASSUME NEW p \in Owners
      PROVE  /\ fence'[p] = IF p = n.owner THEN g ELSE fence[p]
             /\ applied'[p] = IF p = n.owner THEN a ELSE applied[p]
  BY <1>2 DEF IInv, ReconcileTypeOK
<1>8. ASSUME NEW p \in Owners PROVE Covers(fence'[p], fence[p])
  BY <1>3, <1>7, FenceOf, CoversItself
<1>9. FencesOK'
  BY <1>2, <1>3, <1>4, <1>7 DEF IInv, FencesOK
<1>10. NoticesOK'
  <2>1. \A p \in Owners : pg[p] <= pg'[p]
    BY <1>2 DEF IInv, ReconcileTypeOK, Revisions
  <2>2. \A m \in owed' : bridge'[m.owner] = "idle"
    BY <1>2 DEF IInv, NoticesOK
  <2> QED
    BY <1>2, <1>6, <1>8, <2>1, <2>2, NoticesKept
<1>11. ASSUME NEW p \in Owners PROVE Reflected(p)'
  <2>1. CASE p = n.owner
    <3>1. r <= fence'[p].known
      BY <1>3, <1>5, <1>7, <2>1 DEF Revisions
    <3> QED
      BY <1>2, <1>6, <1>8, <2>1, <3>1, PushedReflected DEF r
  <2>2. CASE p # n.owner
    BY <1>2, <1>6, <1>8, <2>2, SeenType, ReflectedKept
  <2> QED
    BY <2>1, <2>2
<1>12. ASSUME NEW p \in Owners PROVE Bridged(p)'
  BY <1>2, <1>7 DEF IInv, Bridged
<1> QED
  BY <1>6, <1>9, <1>10, <1>11, <1>12 DEF IInv

-----------------------------------------------------------------------------
(* Reloads and the bridge *)

(* A load brings memory and fence to a revision that covers the old fence.   *)
LEMMA LoadedKeeps ==
  ASSUME IInv, NEW o \in Owners, NEW r \in 0..pg[o],
         Acceptable(fence[o], r), Replaced(o, r),
         UNCHANGED <<pg, owed, notices, recent>>, saver' = saver,
         bridge' \in [Owners -> {"idle", "reload", "resolve"}],
         \A p \in Owners \ {o} : bridge'[p] = bridge[p],
         \/ bridge'[o] = "idle"
         \/ bridge'[o] = "resolve" /\ saver[o].blocked /\ \A m \in owed : m.owner # o
  PROVE  IInv'
<1> DEFINE g == NewReconcileState(r)
<1>1. Sound(g, pg[o]) /\ Covers(g, fence[o])
  BY FenceOf, NewFence
<1>2. g.known = r /\ g.pending = FALSE
  BY DEF NewReconcileState
<1>3. fence' = [fence EXCEPT ![o] = g] /\ applied' = [applied EXCEPT ![o] = UpTo(r)]
  BY DEF Replaced
<1> HIDE DEF g
<1>4. Bridged(o)'
  <2>1. fence'[o] = g
    BY <1>3 DEF IInv, ReconcileTypeOK
  <2> QED
    BY <1>2, <2>1 DEF Bridged
<1>5. saver' \in [Owners -> [known: Revisions, blocked: BOOLEAN]]
  BY DEF IInv, ReconcileTypeOK
<1> QED
  BY <1>1, <1>2, <1>3, <1>4, <1>5, OneFence

LEMMA EnsureReconciledKeeps ==
  ASSUME IInv, NEW o \in Owners, EnsureReconciled(o)
  PROVE  IInv'
<1>1. PICK r \in 0..pg[o] : Acceptable(fence[o], r) /\ Replaced(o, r)
  BY DEF EnsureReconciled
<1>2. bridge[o] = "idle" /\ UNCHANGED <<pg, owed, notices, recent, saver, bridge>>
  BY DEF EnsureReconciled, Serialized
<1>3. bridge \in [Owners -> {"idle", "reload", "resolve"}]
  BY DEF IInv, ReconcileTypeOK
<1> QED
  BY <1>1, <1>2, <1>3, LoadedKeeps

LEMMA BridgeReloadedKeeps ==
  ASSUME IInv, NEW o \in Owners, BridgeReloaded(o)
  PROVE  IInv'
<1>1. PICK r \in 0..pg[o] : Acceptable(fence[o], r) /\ Replaced(o, r)
  BY DEF BridgeReloaded
<1>2. /\ bridge[o] = "reload"
      /\ bridge' = [bridge EXCEPT ![o] = "resolve"]
      /\ UNCHANGED <<pg, owed, notices, recent, saver>>
  BY DEF BridgeReloaded
<1>3. bridge \in [Owners -> {"idle", "reload", "resolve"}]
  BY DEF IInv, ReconcileTypeOK
<1>4. saver[o].blocked /\ \A m \in owed : m.owner # o
  BY <1>2 DEF IInv, Bridged, NoticesOK
<1>5. bridge' \in [Owners -> {"idle", "reload", "resolve"}]
      /\ bridge'[o] = "resolve"
      /\ \A p \in Owners \ {o} : bridge'[p] = bridge[p]
  BY <1>2, <1>3
<1> QED
  BY <1>1, <1>2, <1>4, <1>5, LoadedKeeps

(* Closing the fence, whatever the bridge does meanwhile.                    *)
LEMMA ForcedKeeps ==
  ASSUME IInv, NEW o \in Owners,
         fence' = [fence EXCEPT ![o] = RequireReload(fence[o])],
         UNCHANGED <<pg, applied, owed, notices, recent>>, saver' = saver,
         bridge' \in [Owners -> {"idle", "reload", "resolve"}],
         \A p \in Owners \ {o} : bridge'[p] = bridge[p],
         \/ bridge'[o] = "idle"
         \/ bridge'[o] = "reload" /\ saver[o].blocked /\ \A m \in owed : m.owner # o
  PROVE  IInv'
<1> DEFINE g == RequireReload(fence[o])
<1>1. Sound(g, pg[o]) /\ Covers(g, fence[o]) /\ g.pending
  BY FenceOf, ForcedFence
<1>2. g.known = fence[o].known
  BY FenceOf DEF RequireReload, Fence
<1>3. fence' = [fence EXCEPT ![o] = g]
  OBVIOUS
<1> HIDE DEF g
<1>4. Bridged(o)'
  <2>1. fence'[o] = g
    BY <1>3 DEF IInv, ReconcileTypeOK
  <2> QED
    BY <1>1, <2>1 DEF Bridged
<1>5. saver' \in [Owners -> [known: Revisions, blocked: BOOLEAN]]
  BY DEF IInv, ReconcileTypeOK
<1> QED
  BY <1>1, <1>2, <1>3, <1>4, <1>5, OneFenceOnly

LEMMA ForceReloadKeeps ==
  ASSUME IInv, NEW o \in Owners, ForceReload(o)
  PROVE  IInv'
<1>1. bridge \in [Owners -> {"idle", "reload", "resolve"}]
  BY DEF IInv, ReconcileTypeOK
<1> QED
  BY <1>1, ForcedKeeps DEF ForceReload, Serialized

LEMMA BridgeStartKeeps ==
  ASSUME IInv, NEW o \in Owners, BridgeStart(o)
  PROVE  IInv'
<1>1. bridge \in [Owners -> {"idle", "reload", "resolve"}]
  BY DEF IInv, ReconcileTypeOK
<1>2. bridge' = [bridge EXCEPT ![o] = "reload"] /\ saver[o].blocked /\ owed = {}
      /\ fence' = [fence EXCEPT ![o] = RequireReload(fence[o])]
      /\ UNCHANGED <<pg, applied, owed, notices, recent, saver>>
  BY DEF BridgeStart, Serialized
<1>3. bridge' \in [Owners -> {"idle", "reload", "resolve"}]
      /\ bridge'[o] = "reload"
      /\ \A p \in Owners \ {o} : bridge'[p] = bridge[p]
  BY <1>1, <1>2
<1> QED
  BY <1>2, <1>3, ForcedKeeps

LEMMA BridgeResolveFailsKeeps ==
  ASSUME IInv, NEW o \in Owners, BridgeResolveFails(o)
  PROVE  IInv'
<1>1. bridge \in [Owners -> {"idle", "reload", "resolve"}]
  BY DEF IInv, ReconcileTypeOK
<1>2. bridge' = [bridge EXCEPT ![o] = "idle"]
      /\ fence' = [fence EXCEPT ![o] = RequireReload(fence[o])]
      /\ UNCHANGED <<pg, applied, owed, notices, recent, saver>>
  BY DEF BridgeResolveFails
<1>3. bridge' \in [Owners -> {"idle", "reload", "resolve"}]
      /\ bridge'[o] = "idle"
      /\ \A p \in Owners \ {o} : bridge'[p] = bridge[p]
  BY <1>1, <1>2
<1> QED
  BY <1>2, <1>3, ForcedKeeps

(* A step of the saver's entry or of the bridge alone.                       *)
LEMMA SaverSideKeeps ==
  ASSUME IInv, NEW o \in Owners,
         UNCHANGED <<pg, applied, fence, owed, notices, recent>>,
         saver' \in [Owners -> [known: Revisions, blocked: BOOLEAN]],
         bridge' \in [Owners -> {"idle", "reload", "resolve"}],
         \A p \in Owners \ {o} : saver'[p] = saver[p] /\ bridge'[p] = bridge[p],
         \/ bridge'[o] = "idle"
         \/ bridge'[o] = bridge[o] /\ saver'[o].blocked
  PROVE  IInv'
<1>1. ReconcileTypeOK' /\ FencesOK'
  BY DEF IInv, ReconcileTypeOK, FencesOK
<1>2. NoticesOK'
  <2>1. ASSUME NEW m \in owed PROVE bridge'[m.owner] = "idle"
    <3>1. m.owner \in Owners /\ bridge[m.owner] = "idle"
      BY DEF IInv, NoticesOK, ReconcileTypeOK, Notice
    <3> QED
      BY <3>1
  <2> QED
    BY <2>1 DEF IInv, NoticesOK, Committed
<1>3. ASSUME NEW p \in Owners PROVE Reflected(p)'
  BY DEF IInv, Reflected
<1>4. ASSUME NEW p \in Owners PROVE Bridged(p)'
  <2>1. CASE p = o
    BY <2>1 DEF IInv, Bridged
  <2>2. CASE p # o
    BY <2>2 DEF IInv, Bridged
  <2> QED
    BY <2>1, <2>2
<1> QED
  BY <1>1, <1>2, <1>3, <1>4 DEF IInv

LEMMA SaverStepsKeep ==
  ASSUME IInv, NEW o \in Owners,
         SaverFindsStale(o) \/ BridgeReloadFails(o) \/ BridgeResolved(o)
  PROVE  IInv'
<1>1. /\ bridge \in [Owners -> {"idle", "reload", "resolve"}]
      /\ saver \in [Owners -> [known: Revisions, blocked: BOOLEAN]]
      /\ fence[o].known \in Revisions
  BY FenceOf DEF IInv, ReconcileTypeOK
<1>2. CASE SaverFindsStale(o)
  <2>1. /\ saver' \in [Owners -> [known: Revisions, blocked: BOOLEAN]]
        /\ saver'[o].blocked
        /\ \A p \in Owners \ {o} : saver'[p] = saver[p]
        /\ UNCHANGED <<pg, applied, fence, owed, notices, recent, bridge>>
    BY <1>1, <1>2 DEF SaverFindsStale
  <2> QED
    BY <1>1, <2>1, SaverSideKeeps
<1>3. CASE BridgeReloadFails(o)
  <2>1. /\ bridge' \in [Owners -> {"idle", "reload", "resolve"}]
        /\ bridge'[o] = "idle"
        /\ \A p \in Owners \ {o} : bridge'[p] = bridge[p]
        /\ UNCHANGED <<pg, applied, fence, owed, notices, recent, saver>>
    BY <1>1, <1>3 DEF BridgeReloadFails
  <2> QED
    BY <1>1, <2>1, SaverSideKeeps
<1>4. CASE BridgeResolved(o)
  <2>1. /\ saver' \in [Owners -> [known: Revisions, blocked: BOOLEAN]]
        /\ bridge' \in [Owners -> {"idle", "reload", "resolve"}]
        /\ bridge'[o] = "idle"
        /\ \A p \in Owners \ {o} : saver'[p] = saver[p] /\ bridge'[p] = bridge[p]
        /\ UNCHANGED <<pg, applied, fence, owed, notices, recent>>
    BY <1>1, <1>4 DEF BridgeResolved
  <2> QED
    BY <2>1, SaverSideKeeps
<1> QED
  BY <1>2, <1>3, <1>4

-----------------------------------------------------------------------------
(* Commits, marks and restarts *)

(* A higher committed revision only gives a fence more room.                 *)
LEMMA SoundHigher ==
  ASSUME NEW f, NEW p \in Revisions, NEW q \in Revisions, p <= q, Sound(f, p)
  PROVE  Sound(f, q)
BY DEF Sound, Fence, Revisions

(* A commit raises revisions and changes nothing that is in memory.          *)
LEMMA RaisedKeeps ==
  ASSUME IInv, pg' \in [Owners -> Revisions],
         \A o \in Owners : pg[o] <= pg'[o],
         UNCHANGED <<applied, fence, notices, recent, saver, bridge>>,
         owed' \subseteq Notice,
         \A n \in owed' : Committed(n)' /\ bridge[n.owner] = "idle"
  PROVE  IInv'
<1>1. ReconcileTypeOK'
  BY DEF IInv, ReconcileTypeOK
<1>2. FencesOK'
  <2> SUFFICES ASSUME NEW o \in Owners
               PROVE  Sound(fence[o], pg'[o]) /\ applied[o] = UpTo(fence[o].known)
    BY DEF FencesOK
  <2>1. pg[o] \in Revisions /\ pg'[o] \in Revisions /\ pg[o] <= pg'[o]
    BY FenceOf
  <2> QED
    BY <2>1, FenceOf, SoundHigher
<1>3. NoticesOK'
  <2>1. ASSUME NEW n \in notices PROVE Committed(n)' /\ Caught(fence[n.owner], n.revision)'
    <3>1. n.owner \in Owners /\ n.revision \in Changes /\ Committed(n)
          /\ Caught(fence[n.owner], n.revision)
      BY DEF IInv, NoticesOK, ReconcileTypeOK, Notice
    <3>2. pg[n.owner] \in Int /\ pg'[n.owner] \in Int /\ pg[n.owner] <= pg'[n.owner]
      BY <3>1 DEF IInv, ReconcileTypeOK, Revisions
    <3> QED
      BY <3>1, <3>2 DEF Committed, Changes
  <2> QED
    BY <2>1 DEF NoticesOK
<1>4. ASSUME NEW o \in Owners PROVE Reflected(o)' /\ Bridged(o)'
  BY DEF IInv, Reflected, Bridged
<1> QED
  BY <1>1, <1>2, <1>3, <1>4 DEF IInv

LEMMA CommitElsewhereKeeps ==
  ASSUME IInv, NEW o \in Owners, CommitElsewhere(o)
  PROVE  IInv'
<1>1. pg' \in [Owners -> Revisions] /\ \A p \in Owners : pg[p] <= pg'[p]
  BY ReconcileConstants DEF IInv, ReconcileTypeOK, CommitElsewhere, Revisions
<1>2. UNCHANGED <<applied, fence, owed, notices, recent, saver, bridge>>
  BY DEF CommitElsewhere
<1>3. ASSUME NEW n \in owed PROVE Committed(n)' /\ bridge[n.owner] = "idle"
  <2>1. n.owner \in Owners /\ n.revision \in Changes /\ Committed(n)
        /\ bridge[n.owner] = "idle"
    BY DEF IInv, NoticesOK, ReconcileTypeOK, Notice
  <2>2. pg[n.owner] \in Int /\ pg'[n.owner] \in Int /\ pg[n.owner] <= pg'[n.owner]
    BY <1>1, <2>1 DEF IInv, ReconcileTypeOK, Revisions
  <2> QED
    BY <2>1, <2>2 DEF Committed, Changes
<1>4. owed \subseteq Notice
  BY DEF IInv, ReconcileTypeOK
<1> QED
  BY <1>1, <1>2, <1>3, <1>4, RaisedKeeps

LEMMA CommitKeeps ==
  ASSUME IInv, NEW S \in (SUBSET Owners) \ {{}}, Commit(S)
  PROVE  IInv'
<1> DEFINE op == [o \in Owners |-> IF o \in S THEN pg[o] + 1 ELSE 0]
<1>1. /\ \A o \in S : Serialized(o) /\ pg[o] < MaxRevision
      /\ pg' = [o \in Owners |-> IF o \in S THEN pg[o] + 1 ELSE pg[o]]
      /\ owed' = {[owner |-> o, op |-> op, revision |-> pg[o] + 1] : o \in S}
      /\ UNCHANGED <<applied, fence, notices, recent, saver, bridge>>
  BY DEF Commit
<1>2. \A o \in Owners : pg[o] \in Revisions
  BY DEF IInv, ReconcileTypeOK
<1>3. op \in OpID /\ \A o \in S : op[o] = pg[o] + 1
  BY <1>1, <1>2, ReconcileConstants DEF OpID, Revisions
<1> HIDE DEF op
<1>4. pg' \in [Owners -> Revisions] /\ \A o \in Owners : pg[o] <= pg'[o]
  BY <1>1, <1>2, ReconcileConstants DEF Revisions
<1>5. ASSUME NEW n \in owed'
      PROVE  n \in Notice /\ Committed(n)' /\ bridge[n.owner] = "idle"
  <2>1. PICK o \in S : n = [owner |-> o, op |-> op, revision |-> pg[o] + 1]
    BY <1>1
  <2>2. o \in Owners /\ pg[o] + 1 \in Changes /\ pg'[o] = pg[o] + 1
    BY <1>1, <1>2, ReconcileConstants DEF Changes, Revisions
  <2>3. n \in Notice
    BY <1>3, <2>1, <2>2 DEF Notice
  <2>4. n.owner = o /\ n.op = op /\ n.revision = pg[o] + 1
    BY <2>1
  <2>5. Committed(n)'
    BY <1>3, <2>2, <2>4 DEF Committed, Changes
  <2> QED
    BY <1>1, <2>3, <2>4, <2>5 DEF Serialized
<1> QED
  BY <1>1, <1>4, <1>5, RaisedKeeps

(* The mark catches the revision before the notice leaves.                   *)
LEMMA MarkKeeps ==
  ASSUME IInv, NEW m \in owed, Mark(m)
  PROVE  IInv'
<1> DEFINE g == MarkCommitted(fence[m.owner], m.revision)
<1>1. /\ m \in Notice /\ m.owner \in Owners /\ m.revision \in Changes
      /\ Committed(m) /\ m.revision <= pg[m.owner] /\ bridge[m.owner] = "idle"
  BY DEF IInv, NoticesOK, ReconcileTypeOK, Notice, Committed
<1>2. /\ fence' = [fence EXCEPT ![m.owner] = g]
      /\ owed' = owed \ {m} /\ notices' = notices \cup {m}
      /\ UNCHANGED <<pg, applied, recent, saver, bridge>>
  BY DEF Mark
<1>3. Sound(g, pg[m.owner]) /\ Covers(g, fence[m.owner]) /\ Caught(g, m.revision)
  BY <1>1, FenceOf, MarkedFence
<1>4. g.known = fence[m.owner].known
  BY <1>1, FenceOf DEF MarkCommitted, Fence
<1> HIDE DEF g
<1>5. ReconcileTypeOK'
  BY <1>1, <1>2, <1>3 DEF IInv, ReconcileTypeOK, Sound
<1>6. ASSUME NEW p \in Owners PROVE fence'[p] = IF p = m.owner THEN g ELSE fence[p]
  BY <1>2 DEF IInv, ReconcileTypeOK
<1>7. ASSUME NEW p \in Owners PROVE Covers(fence'[p], fence[p])
  BY <1>3, <1>6, FenceOf, CoversItself
<1>8. FencesOK'
  BY <1>2, <1>3, <1>4, <1>6 DEF IInv, FencesOK
<1>9. NoticesOK'
  <2>1. ASSUME NEW n \in notices'
        PROVE  Committed(n)' /\ Caught(fence[n.owner], n.revision)'
    <3>1. CASE n = m
      BY <1>1, <1>2, <1>3, <1>6, <3>1 DEF Committed
    <3>2. CASE n # m
      <4>1. n \in notices /\ n.owner \in Owners /\ n.revision \in Changes
            /\ Committed(n) /\ Caught(fence[n.owner], n.revision)
        BY <1>2, <2>1, <3>2 DEF IInv, NoticesOK, ReconcileTypeOK, Notice
      <4>2. fence[n.owner] \in Fence /\ fence'[n.owner] \in Fence
        BY <1>5, <4>1, FenceOf DEF ReconcileTypeOK
      <4>3. Caught(fence'[n.owner], n.revision)
        BY <1>7, <4>1, <4>2, StaysCaught
      <4> QED
        BY <1>2, <4>1, <4>3 DEF Committed
    <3> QED
      BY <3>1, <3>2
  <2>2. ASSUME NEW n \in owed' PROVE Committed(n)' /\ bridge'[n.owner] = "idle"
    BY <1>2, <2>2 DEF IInv, NoticesOK, Committed
  <2> QED
    BY <2>1, <2>2 DEF NoticesOK
<1>10. ASSUME NEW p \in Owners PROVE Reflected(p)'
  BY <1>2, <1>5, <1>7, ReflectedKept
<1>11. ASSUME NEW p \in Owners PROVE Bridged(p)'
  BY <1>1, <1>2, <1>6 DEF IInv, Bridged
<1> QED
  BY <1>5, <1>8, <1>9, <1>10, <1>11 DEF IInv

LEMMA RestartKeeps ==
  ASSUME IInv, Restart
  PROVE  IInv'
<1> DEFINE g(o) == NewReconcileState(pg[o])
<1>1. /\ applied' = [o \in Owners |-> UpTo(pg[o])]
      /\ fence' = [o \in Owners |-> g(o)]
      /\ owed' = {} /\ notices' = {}
      /\ recent' = [o \in Owners |-> <<>>]
      /\ saver' = [o \in Owners |-> [known |-> pg[o], blocked |-> FALSE]]
      /\ bridge' = [o \in Owners |-> "idle"]
      /\ pg' = pg
  BY DEF Restart
<1>2. ASSUME NEW o \in Owners PROVE Sound(g(o), pg[o]) /\ g(o).known = pg[o]
  <2>1. pg[o] \in Revisions
    BY DEF IInv, ReconcileTypeOK
  <2> QED
    BY <2>1 DEF Sound, Fence, NewReconcileState, Revisions
<1> HIDE DEF g
<1>3. ReconcileTypeOK'
  <2>1. \A o \in Owners : pg[o] \in Revisions
    BY DEF IInv, ReconcileTypeOK
  <2>2. \A o \in Owners : UpTo(pg[o]) \in [Changes -> Nat] /\ g(o) \in Fence
    BY <1>2, <2>1, UpToType DEF Sound
  <2> QED
    BY <1>1, <2>1, <2>2 DEF IInv, ReconcileTypeOK
<1>4. FencesOK'
  BY <1>1, <1>2 DEF FencesOK
<1>5. NoticesOK'
  BY <1>1 DEF NoticesOK
<1>6. ASSUME NEW o \in Owners PROVE Reflected(o)' /\ Bridged(o)'
  BY <1>1, EmptyHolds DEF Reflected, Bridged
<1> QED
  BY <1>3, <1>4, <1>5, <1>6 DEF IInv

-----------------------------------------------------------------------------
(* The invariant and its consequences *)

LEMMA NextKeeps == IInv /\ [ReconcileNext]_reconcileVars => IInv'
<1> SUFFICES ASSUME IInv, [ReconcileNext]_reconcileVars PROVE IInv'
  OBVIOUS
<1>1. ASSUME NEW S \in (SUBSET Owners) \ {{}}, Commit(S) PROVE IInv'
  BY <1>1, CommitKeeps
<1>2. ASSUME NEW m \in owed, Mark(m) PROVE IInv'
  BY <1>2, MarkKeeps
<1>3. ASSUME NEW n \in notices, NoticeStep(n) PROVE IInv'
  BY <1>3, NoticeStaleKeeps, NoticeRefusedKeeps, NoticeAppliedKeeps DEF NoticeStep
<1>4. ASSUME NEW o \in Owners, CommitElsewhere(o) \/ SaverFindsStale(o) PROVE IInv'
  BY <1>4, CommitElsewhereKeeps, SaverStepsKeep
<1>5. ASSUME NEW o \in Owners, EnsureReconciled(o) \/ ForceReload(o) \/ BridgeStep(o)
      PROVE  IInv'
  BY <1>5, EnsureReconciledKeeps, ForceReloadKeeps, BridgeStartKeeps, BridgeReloadedKeeps,
     BridgeResolveFailsKeeps, SaverStepsKeep DEF BridgeStep
<1>6. CASE Restart
  BY <1>6, RestartKeeps
<1>7. CASE UNCHANGED reconcileVars
  BY <1>7 DEF reconcileVars, IInv, ReconcileTypeOK, FencesOK, NoticesOK, Committed, Reflected,
     Bridged
<1> QED
  BY <1>1, <1>2, <1>3, <1>4, <1>5, <1>6, <1>7 DEF ReconcileNext

LEMMA Inductive == ReconcileSpec => []IInv
BY Initially, NextKeeps, PTL DEF ReconcileSpec

(* Memory holds exactly the changes up to the revision the fence knows, each *)
(* once, and waits for nothing PostgreSQL does not have (reconcile.go).      *)
THEOREM MemoryIsAlwaysPrefix == ReconcileSpec => []MemoryIsPrefix
<1>1. IInv => MemoryIsPrefix
  BY DEF IInv, FencesOK, Sound, MemoryIsPrefix
<1> QED
  BY <1>1, Inductive, PTL

(* No commit whose notice was sent escapes both memory and fence, and the    *)
(* cache answers nothing as a duplicate that memory does not reflect         *)
(* (ApplyCommitNotice, deliverCrossCellOp).                                  *)
THEOREM NoCommitEverSlipsBy == ReconcileSpec => []NoCommitSlipsBy
<1>1. IInv => NoCommitSlipsBy
  <2> SUFFICES ASSUME IInv, NEW n \in notices
               PROVE  /\ Caught(fence[n.owner], n.revision)
                      /\ Holds(recent[n.owner], n.op) => n.revision <= fence[n.owner].known
    BY DEF IInv, NoCommitSlipsBy, Caught
  <2>1. n.owner \in Owners /\ n.op \in OpID /\ n.op[n.owner] = n.revision
        /\ Caught(fence[n.owner], n.revision)
    BY DEF IInv, NoticesOK, Committed, ReconcileTypeOK, Notice
  <2> QED
    BY <2>1 DEF IInv, Reflected
<1> QED
  BY <1>1, Inductive, PTL

(* ReconcileSaver never returns with only one of fence and saver entry       *)
(* cleared (persist/reconcile.go).                                           *)
THEOREM BridgeAlwaysReturnsWhole == ReconcileSpec => BridgeReturnsWhole
<1> DEFINE Both(o) ==
      bridge[o] # "idle" /\ bridge'[o] = "idle" =>
        IF saver'[o].blocked THEN fence'[o].pending
        ELSE ~fence'[o].pending /\ saver'[o].known = fence'[o].known
<1>1. IInv /\ [ReconcileNext]_reconcileVars => [\A o \in Owners : Both(o)]_reconcileVars
  <2> SUFFICES ASSUME IInv, ReconcileNext, NEW o \in Owners,
                      bridge[o] # "idle", bridge'[o] = "idle"
               PROVE  Both(o)
    OBVIOUS
  <2>1. /\ saver \in [Owners -> [known: Revisions, blocked: BOOLEAN]]
        /\ bridge \in [Owners -> {"idle", "reload", "resolve"}]
        /\ fence \in [Owners -> Fence]
    BY DEF IInv, ReconcileTypeOK
  <2>2. BridgeStep(o) \/ Restart
    <3>1. CASE bridge' = bridge
      BY <3>1
    <3>2. CASE bridge' # bridge
      <4>1. Restart \/ \E p \in Owners : BridgeStep(p)
        BY <3>2 DEF ReconcileNext, Commit, Mark, NoticeStep, NoticeStale, NoticeRefused,
           NoticeApplied, CommitElsewhere, SaverFindsStale, EnsureReconciled, ForceReload
      <4>2. ASSUME NEW p \in Owners, BridgeStep(p), p # o PROVE bridge'[o] = bridge[o]
        BY <2>1, <4>2 DEF BridgeStep, BridgeStart, BridgeReloaded, BridgeReloadFails,
           BridgeResolved, BridgeResolveFails
      <4> QED
        BY <4>1, <4>2
    <3> QED
      BY <3>1, <3>2
  <2>3. CASE Restart
    BY <2>3 DEF Restart, NewReconcileState
  <2>4. CASE BridgeReloadFails(o)
    BY <2>4 DEF BridgeReloadFails, IInv, Bridged
  <2>5. CASE BridgeResolved(o)
    BY <2>1, <2>5 DEF BridgeResolved, IInv, Bridged
  <2>6. CASE BridgeResolveFails(o)
    <3>1. fence'[o].pending = TRUE
      BY <2>1, <2>6 DEF BridgeResolveFails, RequireReload, Fence
    <3>2. saver'[o].blocked
      BY <2>6 DEF BridgeResolveFails, IInv, Bridged
    <3> QED
      BY <3>1, <3>2
  <2>7. ~BridgeStart(o) /\ ~BridgeReloaded(o)
    BY <2>1 DEF BridgeStart, BridgeReloaded
  <2> QED
    BY <2>2, <2>3, <2>4, <2>5, <2>6, <2>7 DEF BridgeStep
<1> QED
  BY <1>1, Inductive, PTL DEF ReconcileSpec, BridgeReturnsWhole

-----------------------------------------------------------------------------
(* Operation identities *)

LEMMA ModIs ==
  ASSUME NEW c \in Nat \ {0}, NEW a \in Nat, a < 2 * c
  PROVE  a % c = IF a < c THEN a ELSE a - c
  OBVIOUS

LEMMA Divided ==
  ASSUME NEW n \in Nat, NEW q \in Nat, NEW r \in 0..n
  PROVE  /\ (q * (n + 1) + r) % (n + 1) = r
         /\ (q * (n + 1) + r) \div (n + 1) = q
  OBVIOUS

LEMMA TimesGrows ==
  ASSUME NEW a \in Nat, NEW b \in Nat, NEW c \in Nat, a <= b
  PROVE  a * c \in Nat /\ b * c \in Nat /\ a * c <= b * c
  OBVIOUS

(* The three fields of an identity never run into each other.               *)
LEMMA FieldsApart ==
  ASSUME NEW d \in Nat, NEW w \in 0..MaxWorker, NEW s \in 0..MaxSequence
  PROVE  /\ SequenceOf(Pack(d, w, s)) = s
         /\ WorkerOf(Pack(d, w, s)) = w
         /\ DeltaOf(Pack(d, w, s)) = d
<1> DEFINE q == d * (MaxWorker + 1) + w
<1>1. q \in Nat /\ MaxWorker \in Nat /\ MaxSequence \in Nat
  BY OpIDConstants, TimesGrows
<1>2. q % (MaxWorker + 1) = w /\ q \div (MaxWorker + 1) = d
  BY <1>1, Divided
<1> HIDE DEF q
<1>3. (q * (MaxSequence + 1) + s) % (MaxSequence + 1) = s /\ (q * (MaxSequence + 1) + s) \div (MaxSequence + 1) = q
  BY <1>1, Divided
<1>4. Pack(d, w, s) = q * (MaxSequence + 1) + s
  BY DEF Pack, q
<1> QED
  BY <1>2, <1>3, <1>4 DEF SequenceOf, WorkerOf, DeltaOf

LEMMA FieldsFit ==
  ASSUME NEW d \in 0..MaxDelta, NEW w \in 1..MaxWorker, NEW s \in 0..MaxSequence
  PROVE  Pack(d, w, s) \in Identities
<1> DEFINE q == d * (MaxWorker + 1) + w
           n == (MaxDelta + 1) * (MaxWorker + 1)
<1>1. MaxWorker \in Nat /\ MaxSequence \in Nat /\ MaxDelta \in Nat
  BY OpIDConstants
<1>2. q \in Nat /\ n \in Nat /\ 1 <= q /\ q + 1 <= n
  <2>1. d * (MaxWorker + 1) \in Nat /\ (d + 1) * (MaxWorker + 1) <= n /\ n \in Nat
    BY <1>1, TimesGrows
  <2>2. (d + 1) * (MaxWorker + 1) = d * (MaxWorker + 1) + MaxWorker + 1
    BY <1>1
  <2> QED
    BY <1>1, <2>1, <2>2
<1>3. Pack(d, w, s) = q * (MaxSequence + 1) + s /\ Identities = 1..(n * (MaxSequence + 1) - 1)
  BY DEF Pack, Identities
<1> HIDE DEF q, n
<1>4. /\ q * (MaxSequence + 1) \in Nat /\ n * (MaxSequence + 1) \in Nat
      /\ 1 * (MaxSequence + 1) <= q * (MaxSequence + 1)
      /\ (q + 1) * (MaxSequence + 1) <= n * (MaxSequence + 1)
  BY <1>1, <1>2, TimesGrows
<1>5. (q + 1) * (MaxSequence + 1) = q * (MaxSequence + 1) + MaxSequence + 1
  BY <1>1, <1>2
<1> QED
  BY <1>1, <1>2, <1>3, <1>4, <1>5

(* An identity is one that its worker formed, up to its last millisecond    *)
(* and, in that, up to its last sequence number.                            *)
Issued(id) ==
  \E w \in Workers, d \in 0..MaxDelta, s \in 0..MaxSequence :
    /\ id = Pack(d, w, s)
    /\ d <= generator[w].last
    /\ d = generator[w].last => s <= generator[w].sequence

GeneratorInv ==
  /\ generator \in [Workers -> [last : -1..MaxDelta, sequence : 0..MaxSequence]]
  /\ \A id \in issued : Issued(id)

LEMMA IssuedAreFit ==
  ASSUME GeneratorInv
  PROVE  issued \subseteq Identities /\ IdentitiesFit
<1> SUFFICES ASSUME NEW id \in issued
             PROVE  /\ id \in Identities /\ 0 < id /\ id < (MaxDelta + 1) * (MaxWorker + 1) * (MaxSequence + 1)
                    /\ WorkerOf(id) \in Workers
                    /\ DeltaOf(id) <= generator[WorkerOf(id)].last
  BY DEF IdentitiesFit
<1>1. PICK w \in Workers, d \in 0..MaxDelta, s \in 0..MaxSequence :
        id = Pack(d, w, s) /\ d <= generator[w].last
  BY DEF GeneratorInv, Issued
<1>2. w \in 1..MaxWorker /\ d \in Nat /\ MaxDelta \in Nat /\ MaxWorker \in Nat /\ MaxSequence \in Nat
  BY OpIDConstants
<1>3. WorkerOf(id) = w /\ DeltaOf(id) = d
  BY <1>1, <1>2, FieldsApart
<1>4. id \in Identities
  BY <1>1, <1>2, FieldsFit
<1>5. (MaxDelta + 1) * (MaxWorker + 1) * (MaxSequence + 1) \in Nat
  BY <1>2, TimesGrows
<1> QED
  BY <1>1, <1>3, <1>4, <1>5 DEF Identities

LEMMA NextIsNew ==
  ASSUME GeneratorInv, NEW w \in Workers, NEW now \in Clock, NextID(w, now)
  PROVE  GeneratorInv' /\ issued' # issued
<1> DEFINE next == NextSequence(w, now)
           new == Pack(now, w, next)
<1>1. /\ 0 <= now /\ now <= MaxDelta /\ generator[w].last <= now /\ next <= MaxSequence
      /\ generator' = [generator EXCEPT ![w] = [last |-> now, sequence |-> next]]
      /\ issued' = issued \cup {new}
  BY DEF NextID, ValidClock, HasRoom
<1>2. /\ now \in 0..MaxDelta /\ next \in 0..MaxSequence /\ w \in 0..MaxWorker
      /\ MaxDelta \in Nat /\ MaxWorker \in Nat /\ MaxSequence \in Nat
      /\ generator[w].last \in Int /\ generator[w].sequence \in Nat
      /\ now = generator[w].last => next = generator[w].sequence + 1
  BY <1>1, OpIDConstants DEF GeneratorInv, NextSequence, Clock
<1> HIDE DEF next
<1>3. /\ generator' \in [Workers -> [last : -1..MaxDelta, sequence : 0..MaxSequence]]
      /\ generator'[w].last = now /\ generator'[w].sequence = next
      /\ \A v \in Workers \ {w} : generator'[v] = generator[v]
  BY <1>1, <1>2 DEF GeneratorInv
<1>4. new \notin issued
  <2> SUFFICES ASSUME new \in issued PROVE FALSE
    OBVIOUS
  <2>1. PICK v \in Workers, d \in 0..MaxDelta, s \in 0..MaxSequence :
          /\ new = Pack(d, v, s)
          /\ d <= generator[v].last
          /\ d = generator[v].last => s <= generator[v].sequence
    BY DEF GeneratorInv, Issued
  <2>2. v \in 0..MaxWorker /\ d \in Nat
    BY <1>2, OpIDConstants
  <2>3. SequenceOf(new) = s /\ WorkerOf(new) = v /\ DeltaOf(new) = d
    BY <2>1, <2>2, FieldsApart
  <2>4. SequenceOf(new) = next /\ WorkerOf(new) = w /\ DeltaOf(new) = now
    BY <1>2, FieldsApart
  <2>5. v = w /\ d = now /\ s = next
    BY <2>3, <2>4
  <2> QED
    BY <1>1, <1>2, <2>1, <2>5
<1>5. ASSUME NEW id \in issued' PROVE Issued(id)'
  <2>1. CASE id = new
    BY <1>2, <1>3, <2>1 DEF Issued
  <2>2. CASE id # new
    <3>1. id \in issued
      BY <1>1, <2>2
    <3>2. PICK v \in Workers, d \in 0..MaxDelta, s \in 0..MaxSequence :
            /\ id = Pack(d, v, s)
            /\ d <= generator[v].last
            /\ d = generator[v].last => s <= generator[v].sequence
      BY <3>1 DEF GeneratorInv, Issued
    <3>3. d <= generator'[v].last /\ (d = generator'[v].last => s <= generator'[v].sequence)
      BY <1>1, <1>2, <1>3, <3>2
    <3> QED
      BY <3>2, <3>3 DEF Issued
  <2> QED
    BY <2>1, <2>2
<1> QED
  BY <1>1, <1>3, <1>4, <1>5 DEF GeneratorInv

-----------------------------------------------------------------------------
(* The rings *)

Slots(c) == 0..(c - 1)

(* The slot of the i-th element of a ring of c slots whose oldest is at s.   *)
RingSlot(c, s, i) == (s + i) % c

LEMMA SlotIs ==
  ASSUME NEW c \in Nat \ {0}, NEW s \in Slots(c), NEW i \in 0..c
  PROVE  RingSlot(c, s, i) = IF s + i < c THEN s + i ELSE s + i - c
<1> DEFINE a == s + i
<1>1. a \in Nat /\ a < 2 * c
  BY DEF Slots
<1> HIDE DEF a
<1>2. a % c = IF a < c THEN a ELSE a - c
  BY <1>1, ModIs
<1>3. RingSlot(c, s, i) = a % c
  BY DEF RingSlot, a
<1>4. RingSlot(c, s, i) = IF a < c THEN a ELSE a - c
  BY <1>2, <1>3
<1> QED
  BY <1>4 DEF a, Slots

LEMMA SlotsApart ==
  ASSUME NEW c \in Nat \ {0}, NEW s \in Slots(c), NEW i \in Slots(c)
  PROVE  /\ RingSlot(c, s, i) \in Slots(c)
         /\ \A j \in Slots(c) : RingSlot(c, s, i) = RingSlot(c, s, j) => i = j
         /\ RingSlot(c, s, 0) = s
<1>1. \A j \in Slots(c) : RingSlot(c, s, j) = IF s + j < c THEN s + j ELSE s + j - c
  BY SlotIs DEF Slots
<1>2. RingSlot(c, s, 0) = s /\ RingSlot(c, s, i) \in Slots(c)
  BY <1>1 DEF Slots
<1>3. ASSUME NEW j \in Slots(c), RingSlot(c, s, i) = RingSlot(c, s, j) PROVE i = j
  <2>1. RingSlot(c, s, j) = IF s + j < c THEN s + j ELSE s + j - c
    BY <1>1
  <2>2. RingSlot(c, s, i) = IF s + i < c THEN s + i ELSE s + i - c
    BY <1>1
  <2> QED
    BY <1>3, <2>1, <2>2 DEF Slots
<1> QED
  BY <1>2, <1>3

(* Once the oldest has given up its slot the others have moved up by one,   *)
(* and the slot is the last.                                                *)
LEMMA SlotsMove ==
  ASSUME NEW c \in Nat \ {0}, NEW s \in Slots(c)
  PROVE  /\ RingSlot(c, s, 1) \in Slots(c)
         /\ \A i \in 0..(c - 2) : RingSlot(c, RingSlot(c, s, 1), i) = RingSlot(c, s, i + 1)
         /\ RingSlot(c, RingSlot(c, s, 1), c - 1) = s
<1>1. RingSlot(c, s, 1) = IF s + 1 < c THEN s + 1 ELSE s + 1 - c
  BY SlotIs
<1> DEFINE t == RingSlot(c, s, 1)
<1> HIDE DEF t
<1>2. t = (IF s + 1 < c THEN s + 1 ELSE s + 1 - c) /\ t \in Slots(c)
  BY <1>1 DEF t, Slots
<1>3. ASSUME NEW i \in 0..(c - 2) PROVE RingSlot(c, t, i) = RingSlot(c, s, i + 1)
  <2>1. i \in 0..c /\ i + 1 \in 0..c
    OBVIOUS
  <2>2. /\ RingSlot(c, t, i) = IF t + i < c THEN t + i ELSE t + i - c
        /\ RingSlot(c, s, i + 1) = IF s + (i + 1) < c THEN s + (i + 1) ELSE s + (i + 1) - c
    BY <1>2, <2>1, SlotIs
  <2> QED
    BY <1>2, <2>2 DEF Slots
<1>4. RingSlot(c, t, c - 1) = s
  <2>1. RingSlot(c, t, c - 1) = IF t + (c - 1) < c THEN t + (c - 1) ELSE t + (c - 1) - c
    BY <1>2, SlotIs
  <2> QED
    BY <1>2, <2>1 DEF Slots
<1> QED
  BY <1>2, <1>3, <1>4 DEF t

(* What a ring holds, oldest first.                                         *)
Held(c, r, s, n) == [i \in 1..n |-> r[RingSlot(c, s, i - 1)]]

IsRing(c, T, r, s, n) == c \in Nat \ {0} /\ r \in [Slots(c) -> T] /\ s \in Slots(c) /\ n \in 0..c

LEMMA HeldIsSeq ==
  ASSUME NEW c, NEW T, NEW r, NEW s, NEW n, IsRing(c, T, r, s, n)
  PROVE  Held(c, r, s, n) \in Seq(T) /\ Len(Held(c, r, s, n)) = n
<1>0. c \in Nat \ {0} /\ r \in [Slots(c) -> T] /\ s \in Slots(c) /\ n \in Nat /\ n <= c
  BY DEF IsRing
<1>1. ASSUME NEW i \in 1..n PROVE RingSlot(c, s, i - 1) \in Slots(c)
  <2>1. i - 1 \in Slots(c)
    BY <1>0 DEF Slots
  <2> QED
    BY <1>0, <2>1, SlotsApart
<1> QED
  BY <1>0, <1>1 DEF Held

LEMMA RingFills ==
  ASSUME NEW c \in Nat \ {0}, NEW T, NEW r \in [Slots(c) -> T], NEW s \in Slots(c),
         NEW n \in Nat, n < c, NEW x \in T, NEW q \in [Slots(c) -> T],
         \A j \in Slots(c) : q[j] = IF j = RingSlot(c, s, n) THEN x ELSE r[j]
  PROVE  Held(c, q, s, n + 1) = Pushed(c, Held(c, r, s, n), x)
<1> DEFINE k == Held(c, r, s, n)
           m == Held(c, q, s, n + 1)
<1>1. n \in Slots(c) /\ n # c /\ IsRing(c, T, r, s, n) /\ IsRing(c, T, q, s, n + 1)
  BY DEF Slots, IsRing
<1>2. k \in Seq(T) /\ Len(k) = n
  BY <1>1, HeldIsSeq
<1>3. m \in Seq(T) /\ Len(m) = n + 1
  BY <1>1, HeldIsSeq
<1>4. ASSUME NEW i \in 1..n PROVE m[i] = k[i]
  <2>1. i - 1 \in Slots(c) /\ i - 1 # n /\ i \in 1..(n + 1)
    BY DEF Slots
  <2>2. RingSlot(c, s, i - 1) \in Slots(c) /\ RingSlot(c, s, i - 1) # RingSlot(c, s, n)
    BY <1>1, <2>1, SlotsApart
  <2>3. m[i] = q[RingSlot(c, s, i - 1)] /\ k[i] = r[RingSlot(c, s, i - 1)]
    BY <2>1 DEF Held
  <2> QED
    BY <2>2, <2>3
<1>5. m[n + 1] = x
  <2>1. RingSlot(c, s, n) \in Slots(c)
    BY <1>1, SlotsApart
  <2>2. n + 1 \in 1..(n + 1) /\ (n + 1) - 1 = n
    BY DEF Slots
  <2>3. m[n + 1] = q[RingSlot(c, s, n)]
    BY <2>2 DEF Held
  <2> QED
    BY <2>1, <2>3
<1> HIDE DEF k, m
<1>6. m = Append(k, x)
  BY <1>1, <1>2, <1>3, <1>4, <1>5
<1>7. Pushed(c, k, x) = Append(k, x)
  BY <1>1, <1>2 DEF Pushed
<1> QED
  BY <1>6, <1>7 DEF k, m

LEMMA RingTurns ==
  ASSUME NEW c \in Nat \ {0}, NEW T, NEW r \in [Slots(c) -> T], NEW s \in Slots(c),
         NEW x \in T, NEW q \in [Slots(c) -> T],
         \A j \in Slots(c) : q[j] = IF j = s THEN x ELSE r[j]
  PROVE  Held(c, q, RingSlot(c, s, 1), c) = Pushed(c, Held(c, r, s, c), x)
<1> DEFINE k == Held(c, r, s, c)
           m == Held(c, q, RingSlot(c, s, 1), c)
<1>1. RingSlot(c, s, 1) \in Slots(c) /\ IsRing(c, T, r, s, c) /\ IsRing(c, T, q, RingSlot(c, s, 1), c)
  BY SlotsMove DEF IsRing
<1>2. k \in Seq(T) /\ Len(k) = c
  BY <1>1, HeldIsSeq
<1>3. m \in Seq(T) /\ Len(m) = c
  BY <1>1, HeldIsSeq
<1>4. ASSUME NEW i \in 1..(c - 1) PROVE m[i] = k[i + 1]
  <2>1. /\ i - 1 \in 0..(c - 2) /\ (i - 1) + 1 = i /\ i \in 1..c
        /\ i + 1 \in 1..c /\ (i + 1) - 1 = i /\ i \in Slots(c) /\ i # 0
    BY DEF Slots
  <2>2. RingSlot(c, RingSlot(c, s, 1), i - 1) = RingSlot(c, s, i)
    BY <2>1, SlotsMove
  <2>3. RingSlot(c, s, i) \in Slots(c) /\ RingSlot(c, s, i) # s
    <3>1. 0 \in Slots(c)
      BY DEF Slots
    <3>2. RingSlot(c, s, 0) = s
      BY <3>1, SlotsApart
    <3> QED
      BY <2>1, <3>1, <3>2, SlotsApart
  <2>4. m[i] = q[RingSlot(c, RingSlot(c, s, 1), i - 1)]
    BY <2>1 DEF Held
  <2>5. k[i + 1] = r[RingSlot(c, s, i)]
    BY <2>1 DEF Held
  <2> QED
    BY <2>2, <2>3, <2>4, <2>5
<1>5. m[c] = x
  <2>1. RingSlot(c, RingSlot(c, s, 1), c - 1) = s
    BY SlotsMove
  <2>2. c \in 1..c
    OBVIOUS
  <2>3. m[c] = q[RingSlot(c, RingSlot(c, s, 1), c - 1)]
    BY <2>2 DEF Held
  <2> QED
    BY <2>1, <2>3
<1> HIDE DEF k, m
<1>6. m = Append(Tail(k), x)
  <2>1. Tail(k) \in Seq(T) /\ Len(Tail(k)) = c - 1 /\ \A i \in 1..(c - 1) : Tail(k)[i] = k[i + 1]
    BY <1>2
  <2> QED
    BY <1>3, <1>4, <1>5, <2>1
<1>7. Pushed(c, k, x) = Append(Tail(k), x)
  BY <1>2 DEF Pushed
<1> QED
  BY <1>6, <1>7 DEF k, m

(* What a memory of different things holds after one more was put into it.  *)
Elements(k) == {k[i] : i \in 1..Len(k)}
Different(k) == \A i, j \in 1..Len(k) : k[i] = k[j] => i = j

LEMMA PushedDifferent ==
  ASSUME NEW c \in Nat \ {0}, NEW T, NEW k \in Seq(T), Len(k) <= c, Different(k),
         NEW x \in T, x \notin Elements(k)
  PROVE  /\ Different(Pushed(c, k, x))
         /\ Len(k) = c => Elements(Pushed(c, k, x)) = (Elements(k) \ {k[1]}) \cup {x}
         /\ Len(k) # c => Elements(Pushed(c, k, x)) = Elements(k) \cup {x}
<1> DEFINE m == Pushed(c, k, x)
<1>1. \A i \in 1..Len(k) : k[i] # x
  BY DEF Elements
<1>2. CASE Len(k) # c
  <2>1. m = Append(k, x)
    BY <1>2 DEF Pushed
  <2> HIDE DEF m
  <2>2. Len(m) = Len(k) + 1 /\ m[Len(k) + 1] = x /\ \A i \in 1..Len(k) : m[i] = k[i]
    BY <2>1
  <2>3. Different(m)
    BY <1>1, <2>2 DEF Different
  <2>4. Elements(m) = Elements(k) \cup {x}
    <3>1. \A i \in 1..Len(m) : i = Len(k) + 1 \/ i \in 1..Len(k)
      BY <2>2
    <3>2. \A i \in 1..Len(k) : i \in 1..Len(m)
      BY <2>2
    <3>3. Len(k) + 1 \in 1..Len(m)
      BY <2>2
    <3> QED
      BY <2>2, <3>1, <3>2, <3>3 DEF Elements
  <2> QED
    BY <1>2, <2>3, <2>4 DEF m
<1>3. CASE Len(k) = c
  <2>1. m = Append(Tail(k), x)
    BY <1>3 DEF Pushed
  <2> HIDE DEF m
  <2>2. Tail(k) \in Seq(T) /\ Len(Tail(k)) = c - 1 /\ \A i \in 1..(c - 1) : Tail(k)[i] = k[i + 1]
    BY <1>3
  <2>3. Len(m) = c /\ m[c] = x /\ \A i \in 1..(c - 1) : m[i] = k[i + 1]
    BY <2>1, <2>2
  <2>4. \A i \in 1..(c - 1) : i + 1 \in 1..c /\ i + 1 # 1 /\ k[i + 1] # k[1] /\ k[i + 1] # x
    BY <1>1, <1>3 DEF Different
  <2>5. Different(m)
    <3> SUFFICES ASSUME NEW i \in 1..c, NEW j \in 1..c, m[i] = m[j] PROVE i = j
      BY <2>3 DEF Different
    <3>1. i = c \/ i \in 1..(c - 1)
      OBVIOUS
    <3>2. j = c \/ j \in 1..(c - 1)
      OBVIOUS
    <3>3. CASE i \in 1..(c - 1) /\ j \in 1..(c - 1)
      <4>1. k[i + 1] = k[j + 1] /\ i + 1 \in 1..Len(k) /\ j + 1 \in 1..Len(k)
        BY <1>3, <2>3, <2>4, <3>3
      <4>2. i + 1 = j + 1
        BY <4>1 DEF Different
      <4> QED
        BY <4>2
    <3> QED
      BY <2>3, <2>4, <3>1, <3>2, <3>3
  <2>6. Elements(m) = (Elements(k) \ {k[1]}) \cup {x}
    <3>1. ASSUME NEW y \in Elements(m) PROVE y \in (Elements(k) \ {k[1]}) \cup {x}
      <4>1. PICK i \in 1..c : y = m[i]
        BY <2>3 DEF Elements
      <4>2. CASE i = c
        BY <2>3, <4>1, <4>2
      <4>3. CASE i \in 1..(c - 1)
        <5>1. y = k[i + 1] /\ i + 1 \in 1..Len(k) /\ k[i + 1] # k[1]
          BY <1>3, <2>3, <2>4, <4>1, <4>3
        <5> QED
          BY <5>1 DEF Elements
      <4> QED
        BY <4>2, <4>3
    <3>2. ASSUME NEW y \in Elements(k), y # k[1] PROVE y \in Elements(m)
      <4>1. PICK i \in 1..c : y = k[i]
        BY <1>3 DEF Elements
      <4>2. i # 1
        BY <3>2, <4>1
      <4>3. i - 1 \in 1..(c - 1) /\ (i - 1) + 1 = i /\ i - 1 \in 1..c
        BY <4>2
      <4>4. m[i - 1] = y
        BY <2>3, <4>1, <4>3
      <4> QED
        BY <2>3, <4>3, <4>4 DEF Elements
    <3>3. x \in Elements(m)
      BY <2>3 DEF Elements
    <3> QED
      BY <3>1, <3>2, <3>3
  <2> QED
    BY <1>3, <2>5, <2>6 DEF m
<1> QED
  BY <1>2, <1>3

-----------------------------------------------------------------------------
(* The recent-op cache *)

(* Its index is what the ring holds, and that is all different.             *)
CacheInv ==
  /\ IsRing(RecentOpIDCapacity, Nat, ring, start, count)
  /\ index = Elements(Kept)
  /\ Different(Kept)

LEMMA KeptIsHeld ==
  /\ Kept = Held(RecentOpIDCapacity, ring, start, count)
  /\ \A i : CacheSlot(i) = RingSlot(RecentOpIDCapacity, start, i)
  BY DEF Kept, Held, CacheSlot, RingSlot

LEMMA KeptIsHeldNext ==
  Kept' = Held(RecentOpIDCapacity, ring', start', count')
  BY DEF Kept, Held, CacheSlot, RingSlot

LEMMA CacheBegins ==
  ASSUME newRecentOpIDs
  PROVE  CacheInv /\ Kept = <<>>
<1>1. index = {} /\ ring = [s \in Slots(RecentOpIDCapacity) |-> 0] /\ start = 0 /\ count = 0
  BY DEF newRecentOpIDs, CacheSlots, Slots
<1>2. Kept = <<>>
  BY <1>1 DEF Kept
<1>3. IsRing(RecentOpIDCapacity, Nat, ring, start, count)
  <2>1. start \in Slots(RecentOpIDCapacity) /\ count \in 0..RecentOpIDCapacity
    BY <1>1, RecentOpIDsConstants DEF Slots
  <2>2. ring \in [Slots(RecentOpIDCapacity) -> Nat]
    BY <1>1
  <2> QED
    BY <2>1, <2>2, RecentOpIDsConstants DEF IsRing
<1>4. index = Elements(Kept) /\ Different(Kept)
  BY <1>1, <1>2 DEF Elements, Different
<1> QED
  BY <1>2, <1>3, <1>4 DEF CacheInv

LEMMA CacheKeeps ==
  ASSUME CacheInv, NEW id \in OpIDs, Insert(id) \/ Evict(id)
  PROVE  CacheInv' /\ id \notin Elements(Kept) /\ Kept' = Pushed(RecentOpIDCapacity, Kept, id)
<1> DEFINE c == RecentOpIDCapacity
           T == Nat
<1>1. /\ c \in Nat \ {0} /\ ring \in [Slots(c) -> T] /\ start \in Slots(c) /\ count \in 0..c
      /\ id \in T /\ id \notin Elements(Kept)
  <2>1. id \notin index
    BY DEF Insert, Evict, IsRecent
  <2> QED
    BY <2>1, RecentOpIDsConstants DEF CacheInv, IsRing
<1>2. Kept \in Seq(T) /\ Len(Kept) = count /\ IsRing(c, T, ring, start, count)
  <2>1. IsRing(c, T, ring, start, count)
    BY DEF CacheInv
  <2> QED
    BY <2>1, HeldIsSeq, KeptIsHeld
<1> HIDE DEF c, T
<1>3. IsRing(c, T, ring', start', count') /\ Kept' = Pushed(c, Kept, id)
  <2>1. CASE Insert(id)
    <3>1. /\ count # c /\ start' = start /\ count' = count + 1
          /\ ring' = [ring EXCEPT ![RingSlot(c, start, count)] = id]
      BY <2>1, KeptIsHeld DEF Insert, c
    <3>2. count \in Nat /\ count < c /\ count' \in 0..c
      BY <1>1, <3>1
    <3>3. ring' \in [Slots(c) -> T]
      BY <1>1, <3>1
    <3>4. \A j \in Slots(c) : ring'[j] = IF j = RingSlot(c, start, count) THEN id ELSE ring[j]
      BY <1>1, <3>1
    <3>5. Held(c, ring', start, count + 1) = Pushed(c, Held(c, ring, start, count), id)
      BY <1>1, <3>2, <3>3, <3>4, RingFills
    <3> QED
      BY <1>1, <3>1, <3>2, <3>3, <3>5, KeptIsHeld, KeptIsHeldNext DEF IsRing, c
  <2>2. CASE Evict(id)
    <3>1. /\ count = c /\ start' = RingSlot(c, start, 1) /\ count' = count
          /\ ring' = [ring EXCEPT ![start] = id]
      BY <2>2, KeptIsHeld DEF Evict, c
    <3>2. ring' \in [Slots(c) -> T]
      BY <1>1, <3>1
    <3>3. \A j \in Slots(c) : ring'[j] = IF j = start THEN id ELSE ring[j]
      BY <1>1, <3>1
    <3>4. Held(c, ring', RingSlot(c, start, 1), c) = Pushed(c, Held(c, ring, start, c), id)
      BY <1>1, <3>2, <3>3, RingTurns
    <3>5. RingSlot(c, start, 1) \in Slots(c)
      BY <1>1, SlotsMove
    <3> QED
      BY <1>1, <3>1, <3>2, <3>4, <3>5, KeptIsHeld, KeptIsHeldNext DEF IsRing, c
  <2> QED
    BY <2>1, <2>2
<1>4. Different(Kept')
  BY <1>1, <1>2, <1>3, PushedDifferent DEF CacheInv
<1>5. index' = Elements(Kept')
  <2>1. CASE Insert(id)
    <3>1. Len(Kept) # c /\ index' = Elements(Kept) \cup {id}
      BY <1>2, <2>1 DEF Insert, CacheInv, c
    <3> QED
      BY <1>1, <1>2, <1>3, <3>1, PushedDifferent DEF CacheInv
  <2>2. CASE Evict(id)
    <3>1. Len(Kept) = c /\ index' = (Elements(Kept) \ {ring[start]}) \cup {id}
      BY <1>2, <2>2 DEF Evict, CacheInv, c
    <3>2. Kept[1] = ring[start]
      <4>1. 1 \in 1..count
        BY <1>1, <1>2, <3>1
      <4>2. Kept[1] = ring[RingSlot(c, start, 0)]
        BY <4>1, KeptIsHeld DEF Held, c
      <4> QED
        BY <1>1, <4>2, SlotsApart
    <3> QED
      BY <1>1, <1>2, <1>3, <3>1, <3>2, PushedDifferent DEF CacheInv
  <2> QED
    BY <2>1, <2>2
<1> QED
  BY <1>1, <1>3, <1>4, <1>5 DEF CacheInv, c, T

-----------------------------------------------------------------------------
(* The position history *)

HistoryInv == IsRing(HistoryCapacity, PositionSamples \cup {NoSample}, buf, first, taken)

LEMMA SamplesAreHeld ==
  /\ Samples = Held(HistoryCapacity, buf, first, taken)
  /\ \A i : SampleSlot(i) = RingSlot(HistoryCapacity, first, i)
  BY DEF Samples, Held, SampleSlot, RingSlot

LEMMA SamplesAreHeldNext ==
  Samples' = Held(HistoryCapacity, buf', first', taken')
  BY DEF Samples, Held, SampleSlot, RingSlot

LEMMA HistoryBegins ==
  ASSUME newPositionHistory
  PROVE  HistoryInv /\ Samples = <<>>
<1>1. buf = [s \in Slots(HistoryCapacity) |-> NoSample] /\ first = 0 /\ taken = 0
  BY DEF newPositionHistory, Slots
<1>2. Samples = <<>>
  BY <1>1 DEF Samples
<1>3. first \in Slots(HistoryCapacity) /\ taken \in 0..HistoryCapacity
  BY <1>1, PositionHistoryConstants DEF Slots
<1>4. buf \in [Slots(HistoryCapacity) -> PositionSamples \cup {NoSample}]
  BY <1>1
<1> QED
  BY <1>2, <1>3, <1>4, PositionHistoryConstants DEF HistoryInv, IsRing

LEMMA HistoryKeeps ==
  ASSUME HistoryInv, HistoryNext
  PROVE  /\ HistoryInv'
         /\ \/ \E x \in PositionSamples : Samples' = Pushed(HistoryCapacity, Samples, x)
            \/ Samples' = <<>>
<1> DEFINE c == HistoryCapacity
           T == PositionSamples \cup {NoSample}
<1>1. c \in Nat \ {0} /\ buf \in [Slots(c) -> T] /\ first \in Slots(c) /\ taken \in 0..c
  BY DEF HistoryInv, IsRing
<1> HIDE DEF c, T
<1>2. CASE Reset
  <2>1. first' = 0 /\ taken' = 0 /\ buf' = buf
    BY <1>2 DEF Reset
  <2>2. first' \in Slots(c) /\ taken' \in 0..c
    BY <1>1, <2>1 DEF Slots
  <2>3. Samples' = <<>>
    BY <2>1 DEF Samples
  <2> QED
    BY <1>1, <2>1, <2>2, <2>3 DEF HistoryInv, IsRing, c, T
<1>3. ASSUME NEW x \in PositionSamples, AppendFree(x)
      PROVE  HistoryInv' /\ Samples' = Pushed(c, Samples, x)
  <2>1. /\ taken < c /\ first' = first /\ taken' = taken + 1
        /\ buf' = [buf EXCEPT ![RingSlot(c, first, taken)] = x]
    BY <1>3, SamplesAreHeld DEF AppendFree, c
  <2>2. taken \in Nat /\ taken < c /\ taken' \in 0..c /\ x \in T
    BY <1>1, <2>1 DEF T
  <2>3. buf' \in [Slots(c) -> T]
    BY <1>1, <2>1, <2>2
  <2>4. \A j \in Slots(c) : buf'[j] = IF j = RingSlot(c, first, taken) THEN x ELSE buf[j]
    BY <1>1, <2>1
  <2>5. Held(c, buf', first, taken + 1) = Pushed(c, Held(c, buf, first, taken), x)
    BY <1>1, <2>2, <2>3, <2>4, RingFills
  <2> QED
    BY <1>1, <2>1, <2>2, <2>3, <2>5, SamplesAreHeld, SamplesAreHeldNext DEF HistoryInv, IsRing, c, T
<1>4. ASSUME NEW x \in PositionSamples, AppendFull(x)
      PROVE  HistoryInv' /\ Samples' = Pushed(c, Samples, x)
  <2>1. /\ taken = c /\ first' = RingSlot(c, first, 1) /\ taken' = taken
        /\ buf' = [buf EXCEPT ![first] = x]
    BY <1>4, SamplesAreHeld DEF AppendFull, c
  <2>2. x \in T
    BY DEF T
  <2>3. buf' \in [Slots(c) -> T]
    BY <1>1, <2>1, <2>2
  <2>4. \A j \in Slots(c) : buf'[j] = IF j = first THEN x ELSE buf[j]
    BY <1>1, <2>1
  <2>5. Held(c, buf', RingSlot(c, first, 1), c) = Pushed(c, Held(c, buf, first, c), x)
    BY <1>1, <2>2, <2>3, <2>4, RingTurns
  <2>6. RingSlot(c, first, 1) \in Slots(c)
    BY <1>1, SlotsMove
  <2> QED
    BY <1>1, <2>1, <2>3, <2>5, <2>6, SamplesAreHeld, SamplesAreHeldNext DEF HistoryInv, IsRing, c, T
<1> QED
  BY <1>2, <1>3, <1>4 DEF HistoryNext, c

-----------------------------------------------------------------------------
(* What an entity remembers: the theorems *)

LEMMA GeneratorBegins ==
  ASSUME GeneratorInit
  PROVE  GeneratorInv
<1>1. \A w \in Workers : [last |-> NoLast, sequence |-> 0] \in [last : -1..MaxDelta, sequence : 0..MaxSequence]
  BY OpIDConstants DEF NoLast
<1> QED
  BY <1>1 DEF GeneratorInit, GeneratorInv

LEMMA GeneratorKeeps ==
  ASSUME GeneratorInv, [GeneratorNext]_generatorVars
  PROVE  /\ GeneratorInv'
         /\ generator' # generator => issued' # issued
<1>1. CASE UNCHANGED generatorVars
  BY <1>1 DEF generatorVars, GeneratorInv, Issued
<1>2. CASE GeneratorNext
  BY <1>2, NextIsNew DEF GeneratorNext
<1> QED
  BY <1>1, <1>2

(* No identity is issued twice, by one worker or by several, whatever the   *)
(* clock does, and every identity fits: for any workers and any widths of   *)
(* the three fields (opid.go NextID and Split).                             *)
THEOREM IdentitiesAreNew == MemorySpec => NeverReused
<1>1. MemoryInit => GeneratorInv
  BY GeneratorBegins DEF MemoryInit
<1>2. [MemoryNext]_memoryVars => [GeneratorNext]_generatorVars
  BY DEF MemoryNext, memoryVars, generatorVars
<1>3. GeneratorInv /\ [MemoryNext]_memoryVars => GeneratorInv'
  BY <1>2, GeneratorKeeps
<1>4. GeneratorInv /\ GeneratorInv' /\ [MemoryNext]_memoryVars =>
        [generator' # generator => issued' # issued /\ IdentitiesFit']_generatorVars
  <2>1. GeneratorInv' => IdentitiesFit'
    BY IssuedAreFit, PTL
  <2> QED
    BY <1>2, <2>1, GeneratorKeeps
<1> QED
  BY <1>1, <1>3, <1>4, PTL DEF MemorySpec, NeverReused

(* The two rings are the bounded memories they are meant to be: the recent- *)
(* op cache (crosscell.go) keeps the last distinct operations in the order  *)
(* they came, and the position history (history.go) the last samples since  *)
(* it was reset, for any capacities and whatever is put in.                 *)
THEOREM RingsKeepTheLast ==
  ASSUME Identities \subseteq OpIDs
  PROVE  MemorySpec => MemoriesKeepTheLast
<1> DEFINE Inv == GeneratorInv /\ CacheInv /\ HistoryInv
           CacheStep == \E x \in OpIDs : ~OpMemory!Holds(Kept, x) /\ OpMemory!Put(x)
           HistoryStep == (\E x \in PositionSamples : SampleMemory!Put(x)) \/ Samples' = <<>>
<1>1. MemoryInit => Inv /\ Kept = <<>> /\ Samples = <<>>
  BY GeneratorBegins, CacheBegins, HistoryBegins DEF MemoryInit
<1>2. ASSUME Inv, [MemoryNext]_memoryVars
      PROVE  GeneratorInv'
  <2>1. [GeneratorNext]_generatorVars
    BY <1>2 DEF MemoryNext, memoryVars, generatorVars
  <2> QED
    BY <1>2, <2>1, GeneratorKeeps
<1>3. ASSUME Inv, [MemoryNext]_memoryVars
      PROVE  CacheInv' /\ [CacheStep]_Kept
  <2>1. CASE UNCHANGED cacheVars
    BY <1>3, <2>1 DEF cacheVars, CacheInv, Kept, CacheSlot
  <2>2. CASE Remember
    <3>1. PICK id \in issued : Insert(id) \/ Evict(id)
      BY <2>2 DEF Remember
    <3>2. id \in OpIDs
      BY <1>3, IssuedAreFit
    <3>3. CacheInv' /\ id \notin Elements(Kept) /\ Kept' = Pushed(RecentOpIDCapacity, Kept, id)
      BY <1>3, <3>1, <3>2, CacheKeeps
    <3>4. ~OpMemory!Holds(Kept, id)
      BY <3>3 DEF OpMemory!Holds, Elements
    <3>5. OpMemory!Put(id)
      BY <3>3 DEF OpMemory!Put, OpMemory!Pushed, Pushed
    <3> QED
      BY <3>2, <3>3, <3>4, <3>5
  <2> QED
    BY <1>3, <2>1, <2>2 DEF MemoryNext, memoryVars
<1>4. ASSUME Inv, [MemoryNext]_memoryVars
      PROVE  HistoryInv' /\ [HistoryStep]_Samples
  <2>1. CASE UNCHANGED historyVars
    BY <1>4, <2>1 DEF historyVars, HistoryInv, Samples, SampleSlot
  <2>2. CASE HistoryNext
    <3>1. /\ HistoryInv'
          /\ \/ \E x \in PositionSamples : Samples' = Pushed(HistoryCapacity, Samples, x)
             \/ Samples' = <<>>
      BY <1>4, <2>2, HistoryKeeps
    <3>2. \A x : Samples' = Pushed(HistoryCapacity, Samples, x) => SampleMemory!Put(x)
      BY DEF SampleMemory!Put, SampleMemory!Pushed, Pushed
    <3> QED
      BY <3>1, <3>2
  <2> QED
    BY <1>4, <2>1, <2>2 DEF MemoryNext, memoryVars
<1> HIDE DEF Inv
<1>5. Inv /\ [MemoryNext]_memoryVars => Inv'
  BY <1>2, <1>3, <1>4 DEF Inv
<1>6. Inv /\ [MemoryNext]_memoryVars => [CacheStep]_Kept /\ [HistoryStep]_Samples
  BY <1>3, <1>4
<1>7. Kept = <<>> => OpMemory!Empty
  BY DEF OpMemory!Empty
<1>8. Samples = <<>> => SampleMemory!Empty
  BY DEF SampleMemory!Empty
<1> QED
  BY <1>1, <1>5, <1>6, <1>7, <1>8, PTL
     DEF MemorySpec, MemoriesKeepTheLast, KeepsTheLastOps, KeepsTheLastSamples,
         OpMemory!DistinctSpec, SampleMemory!RepeatingSpec

=============================================================================
