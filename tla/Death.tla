------------------------------- MODULE Death -------------------------------
(***************************************************************************)
(* One player's death and what follows it: dying, waking in the            *)
(* underworld, a portal of life that lowers the debt, and the penalties    *)
(* that pay it.  Each is planned by the simulation, stored by an executor  *)
(* outside of it, and answered through the simulation's mailbox; answers   *)
(* get lost, executors stop, and the process crashes between any two       *)
(* steps.                                                                  *)
(* sim/death_orchestration.go, death_lifecycle.go, death_portal.go,        *)
(* death_penalty_runtime.go, death_wire.go; persist/death.go and the       *)
(* three executors.                                                        *)
(*                                                                         *)
(* The saver (Saver.tla) appears as what it promises: an expected revision *)
(* per root, the roots it fenced, and who holds the character's gate.      *)
(***************************************************************************)
EXTENDS DeathStore, Sequences, TLC

CONSTANTS
    Costs,        \* default costs of a death
    Contexts,     \* circumstances of a death
    Powers,       \* spell powers of portals
    Start,        \* the second the process starts at
    MaxTime,      \* bound: the last second
    MaxEpoch,     \* the last attempt of each kind; 2^64 - 1 in the code
    MaxProgress,  \* bound: what the player does besides dying
    MaxFaults,    \* bound: calls to the database that go wrong
    MaxCrashes    \* bound: crashes of the process

ASSUME DeathConstants ==
    /\ Costs \subseteq DefaultCosts
    /\ \A c \in Contexts : c \subseteq Circumstances
    /\ Powers \subseteq SpellPower
    /\ {Start, MaxTime, MaxEpoch, MaxProgress, MaxFaults, MaxCrashes} \subseteq Nat
    /\ Fits(MaxTime + DoubleDeathGuardSeconds)

VARIABLES
    now,
    stopping,     \* the executors' context is done
    db,
    known,        \* the saver's revision of each root
    fenced,       \* the roots it refuses to write until they are reconciled
    holder,       \* the reservation that holds the character's gate
    player,
    deathJob,
    portalJob,
    penaltyJob,
    faults,
    crashes

saver == <<known, fenced, holder>>
jobs == <<deathJob, portalJob, penaltyJob>>
bounds == <<faults, crashes>>
vars == <<now, stopping, db, known, fenced, holder, player, deathJob, portalJob, penaltyJob,
          faults, crashes>>

Gone == [life |-> "gone"]
NoJob == [phase |-> "none"]
NoAttempt == [active |-> FALSE]

Lives == {"Alive", "DeathPersisting", "AwaitingRespawn", "DeathPenaltyPersisting"}

The(S) == CHOOSE x \in S : TRUE

In(lives) == player.life \in lives

Faulty == faults < MaxFaults /\ faults' = faults + 1

Unreserved == holder = "none"

-----------------------------------------------------------------------------
(* Entering the world: LoadPlayerBootstrap and AddPlayerEntityWithRecovery. *)
(* Whatever it died of before, the player is alive; what it owes, it owes.  *)

LoadPlayerBootstrap ==
    LET b == LoadPlayerBootstrapRecovery(db)
    IN [life |-> "Alive", hp |-> 1, is |-> b.is, items |-> b.items, debt |-> b.debt, last |-> 0,
        deathEpoch |-> 0, portalEpoch |-> 0, penaltyEpoch |-> 0,
        flight |-> NoAttempt, attempt |-> NoAttempt]

EnterWorld ==
    /\ In({"gone"})
    /\ player' = LoadPlayerBootstrap
    /\ known' = [k \in Roots |-> db.row[k].rev]
    /\ UNCHANGED <<now, stopping, db, fenced, holder, jobs, bounds>>

(* Gameplay of a living player, and damage.                                 *)
Play ==
    /\ In({"Alive"})
    /\ player.is.progress < MaxProgress
    /\ player' = [player EXCEPT !.is.progress = @ + 1]
    /\ UNCHANGED <<now, stopping, db, saver, jobs, bounds>>

PlayerLoseHealth ==
    /\ In({"Alive"})
    /\ player.hp > 0
    /\ player' = [player EXCEPT !.hp = 0]
    /\ UNCHANGED <<now, stopping, db, saver, jobs, bounds>>

(* The saver stores a snapshot of the character taken while it could play.  *)
SaveSnapshot ==
    /\ \/ In({"Alive"})
       \/ deathJob.phase = "queued"
       \/ In({"DeathPenaltyPersisting"}) /\ ~player.attempt.active
    /\ player.is # db.row[Character].is
    /\ Unreserved
    /\ Character \notin fenced
    /\ db' \in SaveRoot(db, Character, player.is, known[Character])
    /\ known' = [known EXCEPT ![Character] = @ + 1]
    /\ UNCHANGED <<now, stopping, fenced, holder, player, jobs, bounds>>

-----------------------------------------------------------------------------
(* Dying: PlayerOrchestrateImmediateDeath, with a reservation in hand.      *)

MayDie == In({"Alive"}) /\ player.hp = 0 /\ player.deathEpoch < MaxEpoch

(* A token death uses up one item the player carries.                       *)
Tokens(plan) == IF plan.token THEN {{k} : k \in player.items} ELSE {{}}

(* What the player has been through once this death is stored.              *)
applyDeath(plan) ==
    IF plan.newbieHome THEN [player.is EXCEPT !.free = @ + 1]
    ELSE [player.is EXCEPT !.deaths = @ + 1]

(* The content of the death: what the player is then, what it no longer     *)
(* carries, and what it will owe.                                           *)
BuildImmediateDeathCapture(plan, token) ==
    LET policies == [k \in player.items |->
                        [dropOnDeath |-> TRUE, roomAccepts |-> TRUE, special |-> FALSE]]
    IN [is |-> applyDeath(plan), plan |-> plan,
        affected |-> The(PlanDeathDrops(plan, policies)).dropped \cup token,
        pending |-> The(PlanPendingDeath(plan, The(PlanCorpse(now))))]

(* What the store is asked for: every item it lost now lies at this death.  *)
MapImmediateDeathCapture(capture) ==
    [content |-> [k \in capture.affected \cup {Character} |->
                     IF k = Character THEN capture.is ELSE player.is.deaths + 1],
     cost |-> capture.plan.cost, time |-> now, home |-> capture.plan.newbieHome]

PlayerBeginDeathPersistence(p) == [p EXCEPT !.life = "DeathPersisting", !.deathEpoch = @ + 1]

(* A death within the guard does nothing; every other stamps the time, also *)
(* one that is avoided and one that cannot be prepared.                     *)
PlayerOrchestrateImmediateDeath(cost, context) ==
    LET plan == The(PlanDeathDisposition(cost, context, FALSE))
        stamped == [player EXCEPT !.last = now]
        begun == PlayerBeginDeathPersistence(stamped)
    IN /\ MayDie
       /\ Tokens(plan) # {}
       /\ FALSE \in DeathBlockedByDoubleDeath(player.last, now)
       /\ \/ /\ plan.disposition = "avoided"
             /\ player' = [stamped EXCEPT !.hp = 1]
             /\ UNCHANGED <<deathJob, faults>>
          \/ /\ Faulty
             /\ player' = stamped
             /\ UNCHANGED deathJob
          \/ /\ plan.disposition # "avoided"
             /\ player' = begun
             /\ \E token \in Tokens(plan) :
                  deathJob' = IF stopping THEN NoJob
                              ELSE [phase |-> "queued", epoch |-> begun.deathEpoch,
                                    req |-> MapImmediateDeathCapture(
                                                BuildImmediateDeathCapture(plan, token))]
             /\ UNCHANGED faults
       /\ UNCHANGED <<now, stopping, db, saver, portalJob, penaltyJob, crashes>>

Dies == \E cost \in Costs, context \in Contexts : PlayerOrchestrateImmediateDeath(cost, context)

(* The executor's worker: WriteCriticalSet over the character and the items *)
(* it drops, at the revisions the saver expects now.  A failure of any kind *)
(* fences them all, and has to be recovered from.                           *)
commitDeathEntryObserved ==
    LET req == deathJob.req
        committed == CommitDeathEntry(db, req, known)
        Answered == \E d \in committed :
            /\ db' = d
            /\ known' = [k \in Roots |-> d.row[k].rev]
            /\ deathJob' = [phase |-> "deliver", epoch |-> deathJob.epoch, req |-> req,
                            pending |-> completionWithNormalPending(req, d.corpses)]
            /\ UNCHANGED <<fenced, faults>>
        Fails == fenced' = fenced \cup DOMAIN req.content
                 /\ deathJob' = [phase |-> "recover", epoch |-> deathJob.epoch, req |-> req,
                                 expected |-> known]
                 /\ UNCHANGED known
    IN /\ deathJob.phase = "queued"
       /\ ~stopping
       /\ Unreserved
       /\ DOMAIN req.content \cap fenced = {}
       /\ \/ Answered
          \/ Fails /\ Faulty /\ db' \in committed
          \/ Fails /\ Faulty /\ UNCHANGED db
          \/ Fails /\ committed = {} /\ UNCHANGED <<db, faults>>
       /\ UNCHANGED <<now, stopping, holder, player, portalJob, penaltyJob, crashes>>

(* A fenced root, or an executor that stopped: the job is given up, and     *)
(* nothing was written.                                                     *)
GiveUpDeath ==
    /\ deathJob.phase = "queued"
    /\ stopping \/ DOMAIN deathJob.req.content \cap fenced # {}
    /\ deathJob' = NoJob
    /\ UNCHANGED <<now, stopping, db, saver, player, portalJob, penaltyJob, bounds>>

ReadRoots == [k \in Roots |-> IF k = Character THEN LoadDeathCharacterRecovery(db)
                              ELSE LoadDeathItemRecovery(db, k)]

(* Recovery reconciles every root it can read, and asks for a proof only if *)
(* it could read them all.                                                  *)
recover(failed) ==
    LET roots == DOMAIN deathJob.req.content
    IN /\ deathJob.phase = "recover"
       /\ failed \subseteq roots
       /\ IF failed = {} \/ stopping THEN UNCHANGED faults ELSE Faulty
       /\ known' = [k \in Roots |-> IF k \in roots \ failed THEN db.row[k].rev ELSE known[k]]
       /\ fenced' = fenced \ (roots \ failed)
       /\ deathJob' = IF failed = {} /\ proveDeathCommit(deathJob.req, deathJob.expected, ReadRoots)
                      THEN [phase |-> "deliver", epoch |-> deathJob.epoch, req |-> deathJob.req,
                            pending |-> completionWithRecoveredPending(ReadRoots)]
                      ELSE NoJob
       /\ UNCHANGED <<now, stopping, db, holder, player, portalJob, penaltyJob, crashes>>

(* An answer is for the attempt in progress, or stale.                      *)
classifyDeathCompletion(job) ==
    IF job.epoch = player.deathEpoch /\ In({"DeathPersisting"}) THEN "current" ELSE "stale"

PlayerAcceptImmediateDeathCompletion(job) ==
    [player EXCEPT !.life = "AwaitingRespawn", !.hp = 1, !.is = job.req.content[Character],
                   !.items = @ \ DOMAIN job.req.content, !.debt = job.pending]

(* The answer reaches the simulation, once its mailbox has room, unless the *)
(* process is stopping.                                                     *)
DeliverDeath ==
    /\ deathJob.phase = "deliver"
    /\ deathJob' = NoJob
    /\ \/ /\ classifyDeathCompletion(deathJob) = "current"
          /\ player' = PlayerAcceptImmediateDeathCompletion(deathJob)
       \/ /\ stopping \/ classifyDeathCompletion(deathJob) = "stale"
          /\ UNCHANGED player
    /\ UNCHANGED <<now, stopping, db, saver, portalJob, penaltyJob, bounds>>

PlayerReleaseRespawn ==
    /\ In({"AwaitingRespawn"})
    /\ player' = [player EXCEPT !.life = "Alive"]
    /\ UNCHANGED <<now, stopping, db, saver, jobs, bounds>>

-----------------------------------------------------------------------------
(* The portal of life: the player is free to play, or to die, meanwhile.    *)

(* Mutant: the portal's character is not reserved while it is stored.       *)
ReserveNothing(who) == Unreserved /\ Character \notin fenced /\ UNCHANGED holder

(* ReserveCriticalSet: at once or not at all.                               *)
ReserveCharacter(who) ==
    /\ Unreserved
    /\ Character \notin fenced
    /\ holder' = who

MayOpen ==
    LET debt == player.debt
    IN /\ In({"AwaitingRespawn", "Alive"})
       /\ ~player.flight.active
       /\ debt.phase = "pending"
       /\ ~debt.used
       /\ debt.corpse # NoCorpse
       /\ now >= debt.time
       /\ player.portalEpoch < MaxEpoch

PortalOfLifeCapture(power) ==
    LET debt == player.debt
        proposed == The(PlanPortalOfLife(debt.cost, now - debt.time, power, debt.used))
    IN [is |-> player.is, before |-> debt, proposed |-> proposed,
        effective |-> The(ReducePendingDeathCost(debt.cost, proposed))]

MapPortalOfLifeCapture(capture) ==
    [content |-> [k \in {Character} |-> capture.is], corpse |-> capture.before.corpse,
     before |-> capture.before, proposed |-> capture.proposed, effective |-> capture.effective]

PlayerOrchestratePortalOfLife(power) ==
    LET capture == PortalOfLifeCapture(power)
        begun == [player EXCEPT !.portalEpoch = @ + 1,
                     !.flight = [active |-> TRUE, before |-> capture.before,
                                 effective |-> capture.effective]]
    IN /\ MayOpen
       /\ IF stopping
          THEN /\ player' = [player EXCEPT !.portalEpoch = @ + 1]
               /\ UNCHANGED <<holder, portalJob>>
          ELSE /\ ReserveCharacter("portal")
               /\ player' = begun
               /\ portalJob' = [phase |-> "queued", epoch |-> begun.portalEpoch,
                                req |-> MapPortalOfLifeCapture(capture)]
       /\ UNCHANGED <<now, stopping, db, known, fenced, deathJob, penaltyJob, bounds>>

Opens == \E power \in Powers : PlayerOrchestratePortalOfLife(power)

(* The reservation is executed at the revision expected now; a success that *)
(* is not the expected one is looked into like a failure.                   *)
ExecutePortal ==
    LET req == portalJob.req
        committed == CommitPortalOfLife(db, req, known)
        Answered == \E d \in committed :
            /\ db' = d
            /\ d.debt.cost = req.effective
            /\ known' = [known EXCEPT ![Character] = @ + 1]
            /\ holder' = "none"
            /\ portalJob' = [phase |-> "deliver", epoch |-> portalJob.epoch,
                             pending |-> normalPortalCompletion(req, d.debt.cost)]
            /\ UNCHANGED faults
        Unclear ==
            /\ portalJob' = [phase |-> "reload", epoch |-> portalJob.epoch, req |-> req]
            /\ UNCHANGED <<known, holder>>
    IN /\ portalJob.phase = "queued"
       /\ ~stopping
       /\ \/ Answered
          \/ Unclear /\ UNCHANGED faults /\ db' \in {d \in committed : d.debt.cost # req.effective}
          \/ Unclear /\ Faulty /\ db' \in committed
          \/ Unclear /\ Faulty /\ UNCHANGED db
          \/ Unclear /\ committed = {} /\ UNCHANGED <<db, faults>>
       /\ UNCHANGED <<now, stopping, fenced, player, deathJob, penaltyJob, crashes>>

(* Still within the callback: the answer is looked up, or the root fenced.  *)
ReloadPortal(reads) ==
    LET proved == reads /\ provePortalCommit(portalJob.req, known, ReadRoots)
    IN /\ portalJob.phase = "reload"
       /\ IF reads \/ stopping THEN UNCHANGED faults ELSE Faulty
       /\ holder' = "none"
       /\ known' = IF proved THEN [known EXCEPT ![Character] = @ + 1] ELSE known
       /\ fenced' = IF proved THEN fenced ELSE fenced \cup {Character}
       /\ portalJob' = IF proved THEN [phase |-> "deliver", epoch |-> portalJob.epoch,
                                       pending |-> recoveredPortalCompletion(ReadRoots)]
                       ELSE NoJob
       /\ UNCHANGED <<now, stopping, db, player, deathJob, penaltyJob, crashes>>

(* The debt must still be the one the portal was opened for.                *)
FitsFlight(job) ==
    LET flight == player.flight
    IN /\ job.epoch = player.portalEpoch
       /\ flight.active
       /\ player.debt = flight.before
       /\ job.pending.used
       /\ job.pending.time = flight.before.time
       /\ job.pending.cost = flight.effective
       /\ job.pending.corpse \in {NoCorpse, flight.before.corpse}

PlayerAcceptPortalOfLifeCompletion(job) ==
    [player EXCEPT !.debt = job.pending, !.flight = NoAttempt]

DeliverPortal ==
    /\ portalJob.phase = "deliver"
    /\ portalJob' = NoJob
    /\ \/ FitsFlight(portalJob) /\ player' = PlayerAcceptPortalOfLifeCompletion(portalJob)
       \/ (stopping \/ ~FitsFlight(portalJob)) /\ UNCHANGED player
    /\ UNCHANGED <<now, stopping, db, saver, deathJob, penaltyJob, bounds>>

PlayerAbortPortalOfLifeAttempt == [player EXCEPT !.flight = NoAttempt]

(* A job that never reached the database lets its attempt go, if the        *)
(* simulation still answers.                                                *)
AbortPortal ==
    /\ portalJob.phase = "queued"
    /\ stopping
    /\ holder' = "none"
    /\ portalJob' = NoJob
    /\ \/ player' = PlayerAbortPortalOfLifeAttempt
       \/ UNCHANGED player
    /\ UNCHANGED <<now, stopping, db, known, fenced, deathJob, penaltyJob, bounds>>

-----------------------------------------------------------------------------
(* The penalties: the player is held until they are stored.                 *)

(* The dice fall once, here; what they cost is abstracted to one loss more. *)
applyDeathPenaltyPlanToDurable == [player.is EXCEPT !.losses = @ + 1]

MapDeathPenaltyCapture ==
    [content |-> [k \in {Character} |-> applyDeathPenaltyPlanToDurable], cost |-> player.debt.cost]

(* Preparing, after the character was reserved: what was prepared is given  *)
(* up if it cannot be mapped, or when the executor has stopped meanwhile.   *)
Persist(attempting, req) ==
    \/ /\ ~stopping
       /\ ReserveCharacter("penalty")
       /\ player' = [attempting EXCEPT !.attempt = [active |-> TRUE, req |-> req]]
       /\ penaltyJob' = [phase |-> "queued", epoch |-> attempting.penaltyEpoch, req |-> req]
       /\ UNCHANGED faults
    \/ /\ Unreserved /\ Character \notin fenced
       /\ player' = [attempting EXCEPT !.attempt = [active |-> FALSE, req |-> req]]
       /\ IF stopping THEN UNCHANGED faults ELSE Faulty
       /\ UNCHANGED <<holder, penaltyJob>>

(* Mutant: a portal that is on its way is not waited for.                   *)
PayAnyTime == In({"Alive"}) /\ player.debt.phase = "pending" /\ player.penaltyEpoch < MaxEpoch

MayPay ==
    /\ In({"Alive"})
    /\ player.debt.phase = "pending"
    /\ ~player.flight.active
    /\ player.penaltyEpoch < MaxEpoch

PlayerOrchestrateDeathPenalties ==
    /\ MayPay
    /\ Persist([player EXCEPT !.life = "DeathPenaltyPersisting", !.penaltyEpoch = @ + 1],
               MapDeathPenaltyCapture)
    /\ UNCHANGED <<now, stopping, db, known, fenced, deathJob, portalJob, crashes>>

(* The same capture again, after a failure that wrote nothing.              *)
PlayerRetryDeathPenaltyPersistence ==
    /\ In({"DeathPenaltyPersisting"})
    /\ ~player.attempt.active
    /\ Persist(player, player.attempt.req)
    /\ UNCHANGED <<now, stopping, db, known, fenced, deathJob, portalJob, crashes>>

ExecutePenalty ==
    LET req == penaltyJob.req
        committed == CommitDeathPenalties(db, req, known)
        Answered == \E d \in committed :
            /\ db' = d
            /\ known' = [known EXCEPT ![Character] = @ + 1]
            /\ holder' = "none"
            /\ penaltyJob' = [phase |-> "deliver", epoch |-> penaltyJob.epoch]
            /\ UNCHANGED faults
        Unclear ==
            /\ penaltyJob' = [phase |-> "reload", epoch |-> penaltyJob.epoch, req |-> req]
            /\ UNCHANGED <<known, holder>>
    IN /\ penaltyJob.phase = "queued"
       /\ ~stopping
       /\ \/ Answered
          \/ Unclear /\ Faulty /\ db' \in committed
          \/ Unclear /\ Faulty /\ UNCHANGED db
          \/ Unclear /\ committed = {} /\ UNCHANGED <<db, faults>>
       /\ UNCHANGED <<now, stopping, fenced, player, deathJob, portalJob, crashes>>

ReloadPenalty(reads) ==
    LET proved == reads /\ provePenaltyCommit(penaltyJob.req, known, ReadRoots)
    IN /\ penaltyJob.phase = "reload"
       /\ IF reads \/ stopping THEN UNCHANGED faults ELSE Faulty
       /\ holder' = "none"
       /\ known' = IF proved THEN [known EXCEPT ![Character] = @ + 1] ELSE known
       /\ fenced' = IF proved THEN fenced ELSE fenced \cup {Character}
       /\ penaltyJob' = IF proved THEN [phase |-> "deliver", epoch |-> penaltyJob.epoch] ELSE NoJob
       /\ UNCHANGED <<now, stopping, db, player, deathJob, portalJob, crashes>>

FitsAttempt(job) ==
    /\ job.epoch = player.penaltyEpoch
    /\ In({"DeathPenaltyPersisting"})
    /\ player.attempt.active

PlayerAcceptDeathPenaltyCompletion ==
    [player EXCEPT !.life = "Alive", !.attempt = NoAttempt,
                   !.is = player.attempt.req.content[Character], !.debt = NothingPending]

DeliverPenalty ==
    /\ penaltyJob.phase = "deliver"
    /\ penaltyJob' = NoJob
    /\ \/ FitsAttempt(penaltyJob) /\ player' = PlayerAcceptDeathPenaltyCompletion
       \/ (stopping \/ ~FitsAttempt(penaltyJob)) /\ UNCHANGED player
    /\ UNCHANGED <<now, stopping, db, saver, deathJob, portalJob, bounds>>

PlayerMarkDeathPenaltyPersistenceRetryable == [player EXCEPT !.attempt.active = FALSE]

(* The attempt may be tried again, if the simulation answers.               *)
DropPenalty ==
    /\ penaltyJob.phase = "queued"
    /\ stopping
    /\ holder' = "none"
    /\ penaltyJob' = NoJob
    /\ \/ player' = PlayerMarkDeathPenaltyPersistenceRetryable
       \/ UNCHANGED player
    /\ UNCHANGED <<now, stopping, db, known, fenced, deathJob, portalJob, bounds>>

-----------------------------------------------------------------------------
(* The environment.                                                         *)

Tick ==
    /\ now < MaxTime
    /\ now' = now + 1
    /\ UNCHANGED <<stopping, db, saver, player, jobs, bounds>>

CorpseDecays ==
    /\ db.debt.corpse # NoCorpse
    /\ db' = DeleteCorpse(db)
    /\ UNCHANGED <<now, stopping, saver, player, jobs, bounds>>

Stop ==
    /\ ~stopping
    /\ crashes < MaxCrashes
    /\ stopping' = TRUE
    /\ UNCHANGED <<now, db, saver, player, jobs, bounds>>

(* The process ends, with or without having stopped.                        *)
Crash ==
    /\ ~In({"gone"})
    /\ crashes < MaxCrashes
    /\ crashes' = crashes + 1
    /\ player' = Gone
    /\ deathJob' = NoJob
    /\ portalJob' = NoJob
    /\ penaltyJob' = NoJob
    /\ stopping' = FALSE
    /\ fenced' = {}
    /\ holder' = "none"
    /\ UNCHANGED <<now, db, known, faults>>

Init ==
    /\ now = Start
    /\ stopping = FALSE
    /\ db = EmptyDatabase
    /\ known = [k \in Roots |-> 0]
    /\ fenced = {}
    /\ holder = "none"
    /\ player = Gone
    /\ deathJob = NoJob
    /\ portalJob = NoJob
    /\ penaltyJob = NoJob
    /\ faults = 0
    /\ crashes = 0

DeathExecutor ==
    commitDeathEntryObserved \/ GiveUpDeath \/ DeliverDeath \/ \E S \in SUBSET Roots : recover(S)

PortalExecutor ==
    ExecutePortal \/ DeliverPortal \/ AbortPortal \/ \E reads \in BOOLEAN : ReloadPortal(reads)

PenaltyExecutor ==
    ExecutePenalty \/ DeliverPenalty \/ DropPenalty \/ \E reads \in BOOLEAN : ReloadPenalty(reads)

Simulation ==
    \/ EnterWorld \/ Play \/ PlayerLoseHealth \/ Dies \/ PlayerReleaseRespawn \/ Opens
    \/ PlayerOrchestrateDeathPenalties \/ PlayerRetryDeathPenaltyPersistence

Environment == SaveSnapshot \/ Tick \/ CorpseDecays \/ Stop \/ Crash

Next == Simulation \/ DeathExecutor \/ PortalExecutor \/ PenaltyExecutor \/ Environment

Spec == Init /\ [][Next]_vars

(* The executors' workers run; nobody has to play, tick or crash.           *)
FairSpec ==
    Spec /\ WF_vars(DeathExecutor) /\ WF_vars(PortalExecutor) /\ WF_vars(PenaltyExecutor)

-----------------------------------------------------------------------------
(* Properties.                                                              *)

SameDebt(a, b) == [a EXCEPT !.corpse = NoCorpse] = [b EXCEPT !.corpse = NoCorpse]

(* Every death that is not free is paid for once: the penalties a character *)
(* has suffered and the debt it still has make up for its deaths, in the    *)
(* database, whatever was lost, retried, recovered or crashed.              *)
PaidOnce ==
    LET is == db.row[Character].is
    IN is.deaths = is.losses + IF db.debt.phase = "pending" THEN 1 ELSE 0

(* A player that is free to act knows what the database holds against it:   *)
(* no death, portal or penalty was shown that did not commit, and none      *)
(* committed that was not shown, except the one a portal in flight may yet  *)
(* have made.                                                               *)
NothingUnproved ==
    In({"Alive", "AwaitingRespawn"}) =>
        /\ player.is.deaths = db.row[Character].is.deaths
        /\ player.is.free = db.row[Character].is.free
        /\ player.is.losses = db.row[Character].is.losses
        /\ player.items = {k \in Items : db.row[k].is = Carried}
        /\ ~player.flight.active => SameDebt(player.debt, db.debt)

(* What is owed for a death only falls, its portal opens once, and it is    *)
(* gone only with the penalty.                                              *)
DebtOnlyShrinks ==
    [][LET owed == db.debt  left == db'.debt
       IN owed.phase = "pending" =>
            \/ /\ left.phase = "pending"
               /\ left.time = owed.time
               /\ left.cost =< owed.cost
               /\ owed.used => left.used /\ left.cost = owed.cost
               /\ left.corpse \in {owed.corpse, NoCorpse}
            \/ /\ left.phase = "none"
               /\ db'.row[Character].is.losses = db.row[Character].is.losses + 1]_vars

(* What a player did is not undone by the content a death, a portal or a    *)
(* penalty captured before it.                                              *)
ProgressKept ==
    [][db'.row[Character].is.progress >= db.row[Character].is.progress]_vars

(* As long as nothing goes wrong, a player is not held for ever: a first    *)
(* death wakes it up, its penalties let it go, and a portal closes while    *)
(* its corpse is there.                                                     *)
HeldIsReleased ==
    LET Well == faults = 0 /\ ~stopping
        Open == In(Lives) /\ player.flight.active /\ Well /\ db.debt.corpse # NoCorpse
    IN /\ (In({"DeathPersisting"}) /\ player.debt.phase = "none")
              ~> (~Well \/ ~In({"DeathPersisting"}))
       /\ (In({"DeathPenaltyPersisting"}) /\ Well) ~> (~Well \/ ~In({"DeathPenaltyPersisting"}))
       /\ Open ~> ~Open

=============================================================================
