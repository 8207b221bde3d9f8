# Voxilian: specifications of the game server

Voxilian is the Go server (`src/backend/voxilian`) of a multiplayer voxel world. One
simulation goroutine owns all live entities and advances them at a fixed tick; a gateway
of websocket sessions feeds it intents and fans its results out; a saver and a family of
death executors write durable state to PostgreSQL with a compare-and-set on a revision per
aggregate. This directory holds TLA+ specifications of the parts where order, failure and
limits matter, TLC configurations that check them on small instances, and TLAPS proofs of their
safety properties for every value of their constants. Paths below are relative to `src/backend/voxilian/internal`;
"spec" is `src/docs/backend-spec.md`.

## 1. The system

| Part | State it keeps | Operations | Talks to |
|---|---|---|---|
| Saver (`sim/saver*.go`) | per aggregate: known revision, block, pending snapshot, generation, gate, reservation | Track, Untrack, MarkDirty, WriteThrough, WriteCriticalSet, Reserve/Execute/Cancel, ResolveReconciled, Run/Flush | PostgreSQL through snapshot jobs; callers' goroutines |
| Snapshot jobs, CAS (`persist/saver.go`, `store/store.go`) | rows with a revision | save character, item, bank | PostgreSQL |
| Reconciliation (`sim/reconcile.go`, `persist/reconcile.go`) | per aggregate: known, pending, required revision | MarkCommitted, RequireReload, ApplyCommitNotice, EnsureReconciled, ReconcileSaver | saver, loaders, cross-cell delivery |
| Registry and handoff (`sim/world.go`, `sim/ownership.go`) | entities, cells, locator, migration records | add, remove, set position, begin/commit/abort handoff | engine |
| Movement (`sim/movement.go`, `sim/engine.go`) | accepted, pending, processed input; migration queue | SubmitMove, Step | gateway ingress, collision world |
| Cross-cell operations (`sim/crosscell.go`) | per entity: ring and index of recent OpIDs | deliver | engine |
| OpIDs (`sim/opid.go`), history (`sim/history.go`) | last millisecond and sequence; ring of samples | Next; Append, Samples, Reset | workers; lag compensation |
| Engine loop, mailbox (`sim/engine.go`, `sim/ingress.go`) | bounded command queue, running flag | admit, execute, fail, Run | gateway |
| Vitals, regeneration (`sim/vitals*.go`, `sim/regen.go`) | points, timers, accumulators per player | due processing in Step | engine |
| Combat, spells, defense (`sim/combat.go`, `spell*.go`, ...) | none | pure rules | engine, RNG |
| Death in the simulation (`sim/death*.go`) | life state, attempt tokens, pending death, penalties | begin, accept completion, release, portal, penalties | executors, fanout |
| Death executors (`persist/death*.go`) | permits, reservations, queued work | reserve, prepare, activate, cancel, execute, recover, deliver | saver critical sets, store |
| Session registry (`session/session.go`) | sessions, state, character binding, sequence numbers, ACK window, account guards | create, authenticate, enter, leave, remove, sequence, ACK | handlers |
| Gateway server (`gateway/server.go`) | connection, auth deadline timer | hello, reauth, dispatch, teardown | registry, handlers |
| Outbound queue (`gateway/outbound.go`) | critical lane, state lane, budget, pump | SendCritical, TryCritical, TryState, Cancel, Stop | connection, ACK window |
| Presence, fanout (`gateway/presence.go`, `fanout.go`) | viewers, handles, ready sessions, throttles | activate, update centre, create/move/destroy | outbound, engine |
| Enter, leave, liveness (`gateway/enter_world_handler.go`, `world_runtime.go`, `character_handler.go`, `liveness.go`) | staged entries | enter, takeover, rollback, leave, reap | registry, engine, presence |
| Protocol, geometry, config, character service, admin, cmd | none, or start-up only | codecs, checks, wiring | all |

What is hard here, and what must hold:

- **Saver.** Many goroutines, a mutex that is never held across I/O, gates that are
  replaced by Untrack/Track, lost acknowledgements, foreign writers. One writer per root;
  the known revision is committed; nothing older replaces something newer; critical sets
  are all or nothing; no circular wait; a dirty root settles.
- **Reconciliation.** Commit, mark and notice are three steps; notices are lost, repeated,
  reordered; a reload may be old. Memory holds each committed change exactly once or is
  fenced.
- **Ownership.** An entity changes cell by two calls with a token; intents arrive in
  between; a token may come again; a death discards what was accepted and not yet used.
  Exactly one owner, the newest input controls until a death, an operation is applied at
  most once.
- **Rings and identities.** Wrap-around, eviction, a clock that falls back.
- **Sessions.** Enter, leave, takeover, reaper and disconnect race for one account;
  staged entries are rolled back across three components. At most one session in the world
  per account, no entity without a session.
- **Vitals.** Checked 64-bit arithmetic behind panics that are called impossible, and
  deadlines in ticks that wrap. No timer meets vitals it cannot step, and none is lost.
- **Outbound.** Budget shared by two lanes, close against a write under way, sequence
  numbers under an ACK window. Numbers are the order on the wire, nothing admitted is lost in
  silence, the window is what was sent and not acknowledged.
- **Fanout.** One pump between a bounded queue of movements, sessions that come and go, and a
  simulation that relocates the dead beside it. A client knows whom the server believes it
  knows, under the handles it was given, and in the end exactly who is near.
- **Death.** Completions late, twice or for an earlier attempt; an ambiguous commit that
  must be proved from PostgreSQL; a crash between any two steps. Each death is paid for once,
  nothing is shown that did not commit.
- **Executors.** Permits, reservations, queued work and results under cancellation, a
  stopping executor and a stopping engine. Each is accounted for exactly once.

## 2. Modules

| Module | What it is |
|---|---|
| `Saver` | the saver; one action per critical section of its mutex, per gate and per transaction |
| `DurableRoots` | what the saver promises: revisions that advance by one, sets that commit whole, content that only gets newer |
| `SaverProofs` | theorems about `Saver`, and that it implements `DurableRoots` |
| `Reconcile` | fence, notices, reload and saver bridge of several aggregates |
| `Ownership` | registry, handoff, intents, cross-cell operations, and what a player's death and its penalties do to them |
| `AggregateProofs` | theorems about `Reconcile`, `Ownership` and `EntityMemory` |
| `Serial` | 32-bit serial comparison for any even modulus |
| `KeepLast`, `BoundedMemory` | the memory of the last n things, as operators and as a specification |
| `RecentOpIDs`, `PositionHistory`, `OpIDGenerator` | the two rings and the identity generator |
| `EntityMemory` | their composition: identities are issued, cached by an entity, and its history grows |
| `WorldSession`, `WorldSessionProofs` | session registry, account guard, enter with takeover and rollback, leave, delete, reaper and sweep, with the simulation's entities; theorems about them |
| `Vitals` | a player's pools, exertion, food and regeneration intervals: pure operators, each the set of its outcomes, empty where the code returns an error |
| `VitalsRuntime` | the operations on one player's vitals, its three timers over wrapping ticks, and what death does to both |
| `VitalsProofs` | theorems about `VitalsRuntime`: its vitals and its deadlines |
| `DeathRules` | the planners of a death's costs, drops, portal and penalties |
| `DeathStore` | the transactions of a death, a portal and penalties, and what proves each after an ambiguous commit |
| `Death`, `DeathProofs` | one player's deaths, from the blow to the penalties, between simulation, executors and PostgreSQL; theorems about what is paid, shown and stored |
| `Executors` | reservations, queues, workers and results of the three executors, and the mailbox of the engine they answer |
| `ExecutorsProofs` | theorems about `Executors` |
| `AckWindow` | the sequence numbers of a session and its window of unacknowledged frames |
| `Outbound`, `OutboundProofs` | what one session is sent: two lanes, budget, pump, terminal frames, acknowledgements; theorems about its queue, wire and numbers |
| `Presence`, `Fanout` | handles and visible sets; the pump, the sessions that come and go, and the relocation of the dead |
| `FanoutProofs` | theorems about `Fanout`: what clients know, and whom they see once it is quiet |
| `MC...` | definitions for TLC: instances, symmetry sets and bounds |

Components meet in the modules that own the interface. `Death` takes the saver as what
`Saver` promises (a known revision per root, a fence, one holder of a character);
`Executors` takes what a job stores as a choice, which `Death` spells out; `Fanout` takes a
session's queue as one that sends what is critical first and in order, which FramesInOrder
of `Outbound` states; `VitalsRuntime` and `Death` share `DeathRules`; `EntityMemory` and
`Ownership` share `KeepLast`.

How state and actions correspond to the code is in the header of every module and, line by
line, in `PROJECT.json` under `map`. The main abstractions:

- *Snapshots are versions.* `Saver` replaces content by a number per capture, so that older
  and newer can be told apart; `entry[k]` is `saverEntry` (the gate is named by the key and
  the registration number `inc`, because Track allocates a new channel); `call[p]` is the
  stack of a goroutine inside the saver. `accepted` is a history variable: the newest
  version the saver answers for.
- *A transaction is one action.* `StoreWrite` commits all participants or refuses, and then
  answers; the answer may be lost, be an error, or carry a wrong revision.
- *OwnersWait* says whether an aggregate's owner waits for its synchronous calls before it
  captures again. The saver does not enforce it, the callers in `persist/death*.go` and the
  one simulation goroutine do (spec 8.3.8, 8.3.13); runs and theorems state which they need.
- *Memory is a count per change.* `Reconcile` keeps how often memory reflects each committed
  change, so a change lost and a change applied twice both show.
- *A connection is a goroutine.* In `WorldSession`, `job[s]` is where the goroutine of
  session s stands; it is cut inside the account guard at every call another goroutine can
  observe without the guard (the sweep's list, a move already read, a disconnect). The flush
  seam below `ExitWorld` has no implementation in the repository: as its interface asks, it
  quiesces the character and saves it, or fails. The bootstrap variant of PrepareEnter is
  modelled, where the simulation refuses a character it already has; the server is one with
  liveness configured, as `teardownSession` otherwise skips the reaper.
- *An intent is its sequence number, a position is a name with a cell.* `held[i]` is the input
  whose directions entity i holds. `newest` and `due` of `Ownership` are history variables: the
  last input accepted from i's client, and the one that should move it, none once a death came
  after it. Every entity may be a player. A death is as in the engine a call to a member
  of a cell; that its hit points are zero, which attempt a token names and whether a debt is
  pending are left out (`Death` has them), so `Ownership` takes these steps also
  where one of those checks would refuse them. A held input may lead anywhere, also to
  where its entity is (it may hold no direction).
- *The pump tells one viewer at a time.* In `Fanout`, `torn` is a history variable: the pairs
  <<s, e>> for which the pump was half way of telling s of e when a death of one of the two was
  presented, that is between its check of the relocation and its last viewer. The simulation
  does not wait for the pump, so a death is presented at any moment of it.
- *A frame is its number.* `Outbound` counts frames without wrapping beside the wrapped
  numbers the code has, and so can say what the window should be.
- *The database is a record.* `DeathStore` keeps per root a revision and what the properties
  tell apart of its content (deaths, losses, progress), the debt, and what a commit leaves
  behind as proof. Each transaction is one action and may fail before or after it commits.
- *The player's own play is external.* No caller in the repository runs the saver's
  MarkDirty or the death orchestrations outside tests, so `Play`, `SaveSnapshot` and the
  occasions of a death are modelled from how the seams are to be used.
- Definitions commented `(* Mutant: ... *)` are variants of the definition after them, as a plausible mistake
  would have it; no specification uses them. They show that the properties notice.

## 3. Runs

All runs are exhaustive. States are those of TLC with the symmetry the configuration names;
no run with a liveness property uses symmetry.

| Run | Instance | Shows |
|---|---|---|
| `saver_free` | 1 root, 2 callers, 2 registrations, revisions and generations to 2, versions to 3, 1 fault, flush loop running, fair | OneWriter, FencedIsAtRest, ReservationPinsRevision with no discipline among the callers; DirtySettles, GateWaitEnds |
| `saver_sets` | 2 roots, 2 callers, 1 fault, owners wait | HoldsOnlyEarlierGates, CleanIsDurable, and that Saver implements DurableRoots |
| `saver_overtaken` | 1 root, 2 callers, owners do not wait | violates NewerSnapshotSurvives (section 6) |
| `aggregates` | ownership: 1 player with inputs, an operation, deaths and penalties or 2 entities that only move, 3 cells, 3 generations, modulus 8, queue of 2; fences: 2 aggregates, 2 commits each, an op cache of 1; memories: 2 workers, 2 milliseconds, an op ring of 2, a history of 3 | RegistryWhole, NewestInputControls, AppliedOnce; NoCommitSlipsBy, MemoryIsPrefix, BridgeReturnsWhole; NeverReused, MemoriesKeepTheLast |
| `world_session` | 1 account, 3 sessions, 2 characters, 2 entity ids | OnePerAccount, WholeBetweenHolds, BaselineIsFresh |
| `world_clears` | 1 account, 2 sessions, 1 character, 2 entity ids, fair goroutines | DisconnectIsCleared |
| `vitals` | 1 player, 2 operations, ticks modulo 64, 1 Hz, a death and its penalties | NeverImpossible, NotLost, PoolsSettle |
| `death` | 1 player with 1 item, 2 attempts of each kind, 1 fault, 1 crash, 3 seconds | PaidOnce, NothingUnproved, DebtOnlyShrinks, ProgressKept, HeldIsReleased |
| `executors` | 4 jobs of which 2 are made, 2 executors with a worker each, 1 permit, mailbox of 1, the engine run once | ReservationsBalanced, AnsweredOnce, LetGoOnlyUntried, ResultsArrive |
| `outbound` | 1 synchronous sender, 1 state key, items of 1 and 2 bytes, 3 items, a queue of 2 messages and 3 bytes, modulus 8, a window of 1, 1 visit to the world | BudgetKept, NoSilentLoss, LagIsTrue, FramesInOrder, SendersReturn |
| `fanout` | 2 sessions, 2 cells, 2 handles, a queue of 2, any 2 of moves, deaths, losses and closure, a death at any moment of the pump | ToldIsBelieved, SettledViews, ControlsAnswered |
| `fanout_relocation` | the same | violates RelocationStands (section 6) |

Why the bounds are enough. *Saver*: two callers are one writing and one that waits, marks,
untracks or reserves; two registrations are the old gate and the new; MaxRev and MaxGen
reach their ends, so the code's exhaustion branches are taken. Overlap of sets needs two
roots and two callers. The wait for several gates at once is covered by
HoldsOnlyEarlierGates, run and theorem; GateWaitEnds is checked with one root.
*Aggregates*: the three parts share no variable, so each is explored while the others rest;
an interleaving of them shows each part no state it does not reach alone. A gap needs two
revisions, an eviction a cache of one and two operations, an overlapping commit two
aggregates; a stale token of an earlier generation needs three generations, a token for
another destination three cells, a cell that stays non-empty when one leaves two entities;
the modulus of 8 has newer, older and half-range differences; ring capacity 2 tells eviction
from overwriting the wrong slot for distinct things, 3 for repeating ones.
*Sessions*: the guard, the candidates of a takeover and every check of the registry are per
account, so one account shows what two would; three sessions are one taken over, one that
takes over and one that deletes, waits or is swept; a takeover for another character needs
two characters, and an entity id of an earlier entry needs two ids. Liveness has an instance
of its own, with fewer sessions.
*Vitals*: a modulus of 64 ticks wraps within a run and has deadlines on both sides of half
the range; two operations put any two of them before, between and after timers and a death.
*Death*: one fault and one crash meet each other and every step of the three protocols; two
attempts make an answer of the earlier one stale. *Executors*: two jobs share a permit, a
mailbox place or a character in every pair of kinds. *Outbound*: two messages and three bytes
let either limit bind first; a window of one is full after a frame; numbers start at the
last before the wrap. *Fanout*: two handles run out when one was retired; a queue of two
is full with a movement and a control; the configuration names how many incidents.
Every bound is a CONSTANT or a named definition of the MC module; bounds of the code (queue,
ring, generation, window, permits) keep their meaning and are reached.

**Fairness.** `GatesAreFair`: a caller inside the saver takes its own next step (the
goroutine is scheduled, a transaction is answered: contexts have deadlines), and a gate
that is free again and again is given to a caller that waits for it, because blocked
receivers of a Go channel are served in order. `RunSpec` adds that the goroutine of Run
starts a pass again and again at its ticks. Nothing else is assumed: no caller has to start
anything. `WorldSession`'s `Fairness`: a goroutine that can go on does, and a Go mutex
is not withheld for ever from a waiter (its starvation mode); the sweep is a ticker; a closed
transport answers no ping, so its heartbeat runs out. Strong fairness of the sweep's flush and
entity removal says that the mailbox and the storage below are not refused at every retry; the
reapers of the connections may fail each time. `VitalsRuntime`: the ticker goes on. `Death`:
the workers of the three executors run; nobody has to play, tick, stop or crash.
`Executors`: a goroutine that can step does, and the engine's loop executes what is
queued while it runs; nobody has to reserve, cancel, start or stop anything. `Outbound`: the
pump runs, a write ends within its budget, timers fire. `Fanout`: the pump runs, and who began
to enter or leave goes on. The fairness of the last two and of `Executors` is one weak
fairness over all of these steps, which is enough because they cannot go on for ever without
bringing about what is waited for.

## 4. Proofs

Every theorem holds for all values of the constants under the module's own assumptions and is
checked by TLAPS to the last leaf.

### The saver

`SaverProofs` proves, for any set of keys and callers and all bounds, that each of these is
an invariant of `Spec`: TypeOK, OneWriter, KnownIsCommitted, FencedIsAtRest,
ReservationPinsRevision, HoldsOnlyEarlierGates. The only assumption is `SaverConstants`
(keys are naturals, bounds are naturals).

OneWriter does not follow from the gates alone: a gate belongs to one
registration, and a caller may hold the gate of an entry that was replaced. What excludes
it is that Untrack refuses an entry with a write in flight or a reservation. The inductive
invariant `WriteInv` says so: every caller past its wait holds the gates it needs
(`ShapeOf`), no two hold the same gate of the same registration (`Excludes`), a writer's or
a reservation's entry is the one in the table, marked in flight or reserved and unfenced,
with the revision it will expect (`WriterCurrent`, `ReservedCurrent`), an acknowledged
success is in PostgreSQL (`AnswersCommitted`), and the known revision is committed. Each
conjunct is preserved action by action; the theorems are its consequences.
HoldsOnlyEarlierGates has its own small invariant.

What the rows hold is proved under one more hypothesis, OwnersWait: CleanIsDurable,
NewerSnapshotSurvives and the refinement ImplementsDurableRoots (`CleanStaysDurable`,
`NewerStaysCommitted`, `SaverKeepsItsPromise`). Without the hypothesis the second is false, as
`saver_overtaken` shows. `DataInv` orders, per root, every version there is. The committed row
is older than a pending snapshot as long as the known revision is current, and a snapshot on
its way to a write is newer than the row it will replace (`KeyData`, `HoldData`). Between a
held snapshot and the pending one, generations compare as versions do, so that comparing
generations, which is all the code does when it puts a failed snapshot back or drops a
superseded one, is right. A snapshot still waiting for its gate is newer than everything its
turn may find (`WaitData`): that is where the owner's waiting is needed, through
`OwnersApart`, two blocking calls never share a root. And what the saver answers for is
committed, pending or in the hands of a flush (`Covered`). `RowSteps` lists the steps that
move a row or capture a snapshot; the refinement maps each to a step of `DurableRoots`, a
commit by `CommitsNewer`, and every other step to a stutter.

### Sessions

`WorldSessionProofs` proves TypeOK, BindingsAgree and OnePerAccount of `WorldSession`, for
any sessions, accounts and characters (`WorldConstants`: every session has an account and
every character an owner). OnePerAccount is not inductive: that BeginEnterWorld puts a
second session of an account in the world is prevented by what the same goroutine saw
several steps earlier. `IInv` adds what carries that knowledge: a goroutine inside an exit or
an enter holds the guard of the account concerned (`Holds`), and one that enters has found
nobody else of its account in the world, or only the session it takes over, and nobody once
that one is unbound (`Arbitrated`). Every step but BeginEnterWorld can only take sessions out of the
world (`Shrinks`), so one lemma (`Step`) serves them all; `BindKeeps` shows that
BeginEnterWorld spoils nobody's `Arbitrated`, because two goroutines at that point for one
account would hold the same guard.

WholeBetweenHolds and BaselineIsFresh follow from a larger invariant, `Full`. A session that no
goroutine is working on is wholly in the world or wholly out of it (`Whole`). One that is being
worked on is where the point of its goroutine says: what of it was already removed, cleared,
staged or shown (`Midway`, by `ExitsMidway` and `EntersMidway`), among it that the character to
be entered has nothing unsaved, which is what makes its baseline fresh. That the step of one
goroutine leaves the sessions of other accounts alone needs `Owners`; progress that is not
saved has a session in the world (`Progress`), and a move that still finds its entity is of
one (`Moves`).

### Reconciliation and ownership

`AggregateProofs` proves MemoryIsPrefix, NoCommitSlipsBy and BridgeReturnsWhole for any
aggregates, commits and cache size. The invariant (`IInv`): every fence is sound (it waits for
nothing PostgreSQL does not have, and when open for nothing it does not know) and memory holds
each change up to its known revision once (`FencesOK`); a notice on its way names a committed
revision that is in memory or that the fence waits for (`NoticesOK`, with `Caught`); the
apply-once cache names only operations that memory reflects (`Reflected`, which needs what
its first lemmas say of a push, whatever it evicted); and the bridge keeps the saver's entry
blocked throughout, the fence closed while it reloads and open while it resolves
(`Bridged`).

It also proves RegistryWhole, AppliedOnce and NewestInputControls, for any number of
entities and any geometry of cells, and by itself the part of RegistryWhole that says nobody is
lost (`Residency`). The invariant is per entity: an owner, a cell that lists it or one migration
record whose token, cells and generation agree with it (`WholeInv`), and a cache that holds an
operation exactly when it was applied (`CacheOK`). Nothing is evicted while there are no more
operations than places (`RoomForOne`, the pigeonhole): `OwnershipConstants` says so of Ops and
OpCapacity, and what an eviction would forget is then applied again, as in the code. It also
asks for a name for "no cell" that is no cell. For the inputs, `Led` says of a member of a
cell that it has accepted the newest input and is moved by the one that is due, of a migrating one
that it will once the intents queued in its record are replayed, and of a dead player that none
is due. A death drops the pending and the held input and keeps the accepted number, so nothing
that was accepted before it is accepted again (`Stops`, `Quiesced`). What a replay leaves is the value of a recursive function, so this
rests on an induction over the queue (`IsReplay`, see below).

Of `EntityMemory` it proves NeverReused and MemoriesKeepTheLast. An identity can be taken apart
into the three fields it was packed from (`FieldsApart`, arithmetic of quotients and remainders),
and every one that was issued names a worker and a millisecond no later than that worker's last,
in which it is no later in the sequence (`Issued`): so the next is new, whatever the clock
does. The rings are refinements of `BoundedMemory`: filling a free slot or giving the oldest slot to
the newest is, read from the oldest on, what the abstract memory does (`RingFills`, `RingTurns`),
and the index of the cache is what its ring holds, each once (`CacheInv`). The second theorem asks that
every identity that can be formed may be cached, as in the code, where both are 64-bit numbers.

### Vitals

`VitalsProofs` proves NeverImpossible and NotLost. The first: from any valid stored vitals, for any amounts, inputs,
costs and tick rate, the state in which the code panics is unreachable. Validity is not
inductive by itself, because it does not bound the pools from above: a maximum beyond the width
of integers would make the next step of a timer overflow. `Stands` adds that every field is
of the code's width. Each operation keeps the width, what is stored was validated, the
intervals of health and mana stay below a hundred million whatever the divisors
(`HealthIntervalThere`, `ManaIntervalThere`), and each timer's step is accepted and valid
(`HealthStepStands`, `ManaStepStands`, `RestStepStands`). The assumptions are that integers
hold a hundred million, that the inputs are in their ranges and that stored vitals are valid.

NotLost needs two numbers to be less than half the circle of ticks (`HalfRange`): a minute of
ticks, which no interval exceeds whatever the vitals and enchantments, and the longest a
penalty is being stored (MaxHeld). In the code half the circle is 2^31 ticks, some 200 days at the fastest
rate. The run's small circle does not satisfy the first for every vitals, only for those it
reaches; the theorem covers the rest. `TimersOK` says that every deadline is ahead by at most that
minute, except the ones a penalty held back: they may fall behind by the ticks it lasted, stay so
until the next tick, which fires them (`Fired`), and no second penalty can begin before, because
the debt was paid with the first and a new one starts with new timers.

### Executors

`ExecutorsProofs` proves ReservationsBalanced, AnsweredOnce and LetGoOnlyUntried for any jobs,
workers and capacities, both sets finite (`ExecutorConstants`). The invariant puts every
activated job that has no result in exactly one place: its executor's queue, once
(`QueuesHoldWaiting`), or the hand of one goroutine, alone (`HandsHoldOne`), and none is missing
(`NoneMissing`). A goroutine that delivers knows of the transaction what the record of the job
says, so "let go" is said only of what was never tried. The executor's Run returns with an
empty queue and all its workers gone (`ReturnedIsEmpty`), which is why nothing can be left
behind. Permits are cardinalities: what is reserved, prepared or queued is what is taken, and
each step moves both by the same number (`PermitsMove`).

### Deaths

`DeathProofs` proves PaidOnce, NothingUnproved, DebtOnlyShrinks and ProgressKept, for any costs,
items, times and bounds. The invariant (`IInv`) relates what the player shows, what the database
holds and what a request that is under way carries. While nobody is inside, nothing is under
way (`Nobody`); else (`Inside`) the history of player and row, that is deaths, free deaths and
losses, is the same as long as no request of theirs was stored (`Unwritten`), and what a request
carries is that history with one death more, with one loss more, or as it is (`DeathUnderWay`,
`PenaltyUnderWay`, `PortalUnderWay`). So when a row that is read back has the history of the
request, the request is what was stored, and an ambiguous commit is proved. No death and no
penalty is stored beside a portal in flight, because the portal's debt is pending and the gate
is held (`InFlight`, `Held`). The comparison of revisions and the fences
turn out not to be needed for these four; they are what the saver's theorems are about.

### What a session is sent

`OutboundProofs` proves LagIsTrue for every modulus, window and bound. The invariant says that
the wrapped numbers of the session are the unwrapped counters modulo the modulus, that every
frame of the world counts in the window but a terminal one, of which there is at most one, and
that no more than the window and that one are unacknowledged (`WindowOK`). The rest is
arithmetic of remainders: numbers less than half the modulus apart compare as they do unwrapped
(`AfterIsGreater`), so that an acknowledgement moves the window exactly when it is for a frame
that was sent and not acknowledged (`AckKeeps`). The proof needs the window to stay two below
half the modulus, which `WindowConstants` asks for: a terminal frame on top of a window one
below it would be acknowledged at the half range, where serial comparison says neither. The
code's window ends at a million.

BudgetKept, NoSilentLoss and FramesInOrder share one invariant of the queue, `QInv`. Both lanes
are in the order in which their items were made, no item is in both, and one key has at most
one state (`Lanes`); the counted messages and bytes are those of the lanes and of the item
being written (`Budget`: sums over lanes, through the enqueue's chain of evictions, are again
inductions). What the pump has written went ahead of what waits (`Ahead`), so an item that
overtakes is critical and the overtaken is not. An admitted item whose sender waits is in the
queue or in the writer's hand (`Carries`), and who closes the queue fails everyone in it
(`AllFailed`). While somebody holds the gate of the wire a frame has its number and is not yet
written, so nobody writes out of turn (`WireOK`).

### Presence and fanout

`FanoutProofs` proves ToldIsBelieved, for any sessions, cells, radius, handles and queue, and with
deaths at any moment of the pump. The one exception is in the property, because the code has it
(finding 2): a client that died while the pump told of its own movement (<<s, s>> in `torn`). The
invariant, `ToldInv`, says what the client of a connected session knows at each stage (`ViewOK`). A new one knows nothing. One
that the pump lets join knows of whom it sees but for those still to be created. One that
has joined was told of all it sees, of no others while it is ready, and has movements queued
only under handles it knows. One that failed has no movement queued. That a session is at one
stage at a time needs that its control is answered once: it is in the queue once or with the
pump, and the session waits for it (`EventsOK`, `PumpOK`). Handles are given in ascending order and
never again (`HandlesOK`), which is why a movement queued under one that was taken back must be
cancelled before. Whoever the pump has still to tell of a movement has joined, and the owner is
never among those who must forget it: its center is the cell of the movement until the sets
are read.

It also proves SettledViews. Its invariant, `SettledInv`, relates every
pair of sessions that is not in `torn` to what the queue and the pump will still do for them. A session sees an entity
exactly when its cell is near, unless a movement of that entity that is not stale is queued
(`Coming`), or the pump has not yet shown the one it holds or still has this very viewer to tell
(`Right`); for one that is joining, what the pump is to create counts as seen (`Learns`). The last
movement queued for an entity leads to where the entity is (`LastRight`), and the center of a
session is the cell of its entity or will be when that movement, or the pump, is done (`Placed`).
That a movement from before a relocation is stale, and one from after it is not, needs that ticks
in the queue and of relocations never run ahead (`Ticks`). So when nothing is queued and the pump
is idle, seen and near are the same. A death in the middle of the pump's own event of the entity
tears it from everyone (`TornWhole`), one in the middle of another's event tears that one pair, and
the rest of the event goes on as if nothing had happened. `RelocationsStand` says how much is left
of the promise that finding 2 refutes (`OnlyTearsDragBack`): whatever is queued or taken, a
movement from before a relocation drags the center back only of a player whose death was
presented while the pump was in the middle of that player's movement.

The code visits sessions and entities in ascending order, the model by a recursive function.
`VisitsKeep` is an induction over the members visited, largest last, and each kind of visit has one
lemma that says what all of them together leave (`ReconcileAll`, `RetireAll` and those that add).

### Induction

The library's induction theorems take an operator as a parameter, which the installed provers
do not instantiate. The first lemmas of three modules go around them where the property can be given as the set
of the naturals that have it: a nonempty set of naturals has a least element
(`LeastElement`, from well-foundedness), hence `SetInduction`. The recursive functions of the
model are reasoned about through tables that satisfy their recursion (`IsReplay` of `Ownership`,
`IsSum` and `IsEvicting` of `Outbound`), whose existence and uniqueness are such inductions, and the
visits of `Fanout` as above.

### Only model-checked

Everything temporal about fairness (GateWaitEnds, DirtySettles, DisconnectIsCleared,
PoolsSettle, HeldIsReleased, ResultsArrive, SendersReturn, ControlsAnswered) is out of the
prover's reach. Every other property of the passing runs, invariant, action property or
refinement, is a theorem, those of the saver that are named above under OwnersWait. What
`saver_overtaken` and `fanout_relocation` check is false and no theorem.

## 5. Plan

1. An abstract account (out of the world, in it with one character) that `WorldSession`
   implements, with the refinement as a theorem over `Full`.
2. `AuthDeadline`: reauthentication against the timer; gameplay token buckets.
3. A death that meets the end of its session: `Death` and `WorldSession` composed.

## 6. Findings

1. **An overtaken write-through** (`saver_overtaken`, `sim/saver.go:370`). WriteThrough
   allocates its generation before it waits for the gate, and afterwards checks
   registration, fence and revision bound only. If the owner marks a newer snapshot dirty
   meanwhile and a flush saves it first, the older write-through then commits over it with
   the new revision, and the entry is clean. The comment at `sim/saver.go:326-328` says a
   newer MarkDirty survives. Owners that wait for their call never see it (`saver_sets`).
2. **A relocation that does not stand** (`fanout_relocation`, `gateway/fanout.go:844`).
   The comment at `gateway/fanout.go:839-843` says the relocation is recorded first so that
   a stale movement can never drag the owner's center back. The pump checks that record once
   (`fanout.go:520`) and then works for a while (`fanout.go:541` sets the center): a movement
   that was fresh at the check undoes the relocation that came after it. Nothing else does, as
   `RelocationsStand` proves. The same race has a worse end:
   when the relocation moves the center between `fanout.go:541` and `fanout.go:555`, the owner is
   no subscriber of the movement's cell but a viewer of its own entity, `fanout.go:565` sends its
   client the removal of it, and HideVisible refuses to hide it (`presence.go:436-438`), so nobody
   creates it again, while spec 7.4.5 says "own always retained". That is why ToldIsBelieved has
   its exception for `torn`: without it the run `fanout` finds this end.

Met while modelling, and not the subject of a run:

- `RemoveEntity` of a migrating entity (`sim/world.go:108-116`) leaves the source cell it
  emptied in the registry, while `sim/world.go:104-105` says empty cells are removed;
  `Ownership` models it so, and RegistryWhole does not depend on it.
- When the simulation does not admit the removal of a staged entity, AbortEnter keeps the
  pending entry for a retry (`gateway/world_runtime.go:282-283`), but rollbackStagedEnter
  ignores the error (`gateway/enter_world_handler.go:376`) and nobody retries: entity and entry
  stay, and the character cannot be entered again, until the process ends.
- A failed enter is seen by others: AbortEnter tells nobody that the staged entity is gone,
  while spec 7.4.6 says failed joins pollute nobody. SettledViews leaves aborted entities
  unconstrained for that reason.
- A second death of a player that still owes for the first, a death refused at activation and
  one dropped while the executors stop leave the player in DeathPersisting until the process
  restarts. A portal whose outcome cannot be proved, or whose corpse decayed meanwhile, stays
  in flight, and so do penalties that cannot be proved. HeldIsReleased says what is
  left: as long as nothing goes wrong nobody is held.
- TryState may lose both states of a key: the older is removed before the newer is found not
  to fit. Frames for the world that are queued when the session leaves it are still sent.
- A terminal frame takes a number outside the window, so its acknowledgement counts as one
  from the future; LagIsTrue allows for it.
- The comment at `sim/death.go:951-952` about the lost base maximum does not hold where
  AdjustBaseMaxHP bounds a base above 100 + stamina; `LowerMaxima` follows the code.

## 7. Not modelled

The authentication deadline (`gateway/server.go:700`: it decides under the session's lock and
closes after it); reauthentication; rate limits; a player that leaves the world while it
dies; numeric rules of combat, spells and weapons (pure functions, their tests enumerate the
boundaries); encoding and decoding of frames; floating-point geometry; SQL below the
compare-and-set and the preconditions of the death transactions; metrics, logging, configuration,
commands and test support. In `Fanout` what the pump does for one viewer is atomic, and so is what the simulation does
for a death: RelocateEntity, which takes the manager's locks several times, with the notice
to the owner, so a step of the pump between two of its own is not explored. A death completes there
only for a player that is fully in the world. The throttle
is a choice to send or not, and the position within a cell is left out. Ticks of movements and
relocations are compared as they are, in the code modulo 2^32: the same while fewer than 2^31
of them lie between. Where the run `aggregates` has two
entities they are sent no inputs and do not die; the theorems about `Ownership` have no such bound. The persistence of a character's abilities is part
of a snapshot's version.
