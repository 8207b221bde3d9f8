--------------------------- MODULE VitalsRuntime ---------------------------
(***************************************************************************)
(* The vitals of one player entity over time: the operations of the        *)
(* simulation on them, and the three timers - health, mana, rest - which    *)
(* the tick fires.  sim/vitals_runtime.go, sim/vitals_entity.go, and what  *)
(* the death lifecycle does to both (sim/death_runtime.go).                 *)
(*                                                                         *)
(* Ticks are 32-bit and wrap; a deadline is the tick at which it is due.   *)
(***************************************************************************)
EXTENDS DeathRules

CONSTANTS
    TickHz,       \* simulation ticks per second
    Modulus,      \* 2^32 in the code
    Inputs,       \* the runtime inputs the game can set for the player
    Stored,       \* the vitals players enter the world with
    Amounts,      \* the amounts operations are called with
    Blows,        \* and those of damage and healing
    Settings,     \* the rest thresholds it is given
    Off,          \* the deadline of a timer that is not armed
    Costs,        \* the costs of deaths whose penalties are due
    MaxOps,       \* bound: operations called
    MaxHeld       \* bound: ticks the player spends in one penalty persistence

S == INSTANCE Serial

ASSUME VitalsConstants ==
    /\ TickHz \in 1 .. 120
    /\ Modulus \in Nat \ {0}
    /\ Off \notin 0 .. Modulus - 1
    /\ \A v \in Stored : Valid(v) /\ v \in PlayerVitals
    /\ Amounts \cup Blows \cup Settings \subseteq Int
    /\ Costs \subseteq PendingCosts
    /\ MaxOps \in Nat
    /\ MaxHeld \in Nat

ValidInputs(in) ==
    /\ in.stamina \in EffectiveAttr
    /\ in.mysticism \in EffectiveAttr
    /\ \A k \in {"restorate", "rejuvenate", "focus", "invigorate"} : Power(in[k])
    /\ in.multiplier \in 1 .. 3

ASSUME InputsAreValid == \A in \in Inputs : ValidInputs(in)

VARIABLES
    tick,
    vitals,
    inputs,       \* the runtime inputs last set
    acted,        \* has the player acted since it entered
    healthDue,    \* deadlines of the three timers
    manaDue,
    restDue,
    anchor,       \* the tick the stomach was last brought up to date for
    life,
    owes,         \* is a death's debt still to be paid
    planned,      \* the vitals the penalties being stored lead to, or Off
    held,         \* ticks spent in the current penalty persistence
    ops           \* operations called so far

timers == <<healthDue, manaDue, restDue>>
frame == <<inputs, acted, anchor, life, owes, planned>>
vars == <<tick, vitals, inputs, acted, healthDue, manaDue, restDue, anchor, life, owes, planned, held, ops>>

Lives == {"Alive", "DeathPersisting", "AwaitingRespawn", "DeathPenaltyPersisting"}

The(S1) == CHOOSE x \in S1 : TRUE

-----------------------------------------------------------------------------
(* Arming a timer: its interval in ticks, rounded up.                       *)

CastTicks(ms) == (ms * TickHz + 999) \div 1000

HealthMs(v, in) == HealthRegenIntervalMs(v.vigor, in.stamina, v.max, 0, in.restorate)

ManaMs(v, in) ==
    ManaRegenIntervalMs(v.mana, v.maxMana, v.vigor, in.mysticism, 0, in.rejuvenate, in.focus)

RestMs(in) == RestIntervalMs(in.stamina, in.invigorate)

Due(t, interval) == (t + CastTicks(The(interval))) % Modulus

(* A deadline is due unless it is still ahead.                              *)
SlotDue(due, t) == due # Off /\ ~S!After(Modulus, due, t)

(* An armed timer keeps its deadline, unless there is nothing left to do.   *)
ReconcileHealth(due, v, in, t) ==
    IF due # Off THEN IF v.hp = v.max THEN Off ELSE due
    ELSE IF v.hp # v.max /\ v.hp > 0 THEN Due(t, HealthMs(v, in)) ELSE Off

ReconcileMana(due, v, in, t) ==
    IF due # Off THEN IF v.mana = v.maxMana THEN Off ELSE due
    ELSE IF v.mana # v.maxMana THEN Due(t, ManaMs(v, in)) ELSE Off

-----------------------------------------------------------------------------
(* One timer firing: the step it takes, and its next deadline.              *)

(* Mutant: health above the maximum stays there.                            *)
NoDecay(v) == IF v.hp < v.max THEN GainHealthNormal(v, 1) ELSE {v}

HealthStep(v) ==
    CASE TimerStep(v.hp, v.max) = "gain" -> GainHealthNormal(v, 1)
      [] TimerStep(v.hp, v.max) = "decay" -> LoseHealth(v, 1)
      [] OTHER -> {v}

ManaStep(v) ==
    CASE TimerStep(v.mana, v.maxMana) = "gain" -> GainMana(v, 1, FALSE)
      [] TimerStep(v.mana, v.maxMana) = "decay" -> LoseMana(v, 1)
      [] OTHER -> {v}

RestStep(v, in) ==
    IF v.vigor < v.threshold THEN ApplyRestExertion(v, -10000, in.multiplier) ELSE {v}

AfterHealth(t) ==
    IF SlotDue(healthDue, t) /\ acted THEN The(HealthStep(vitals)) ELSE vitals

AfterMana(v, t) == IF SlotDue(manaDue, t) THEN The(ManaStep(v)) ELSE v

AfterRest(v, t) == IF SlotDue(restDue, t) THEN The(RestStep(v, inputs)) ELSE v

(* Health, mana, rest, in this order, each at most once per tick.           *)
StepRuntime(t) ==
    LET h == AfterHealth(t)
        m == AfterMana(h, t)
    IN /\ vitals' = AfterRest(m, t)
       /\ healthDue' = IF SlotDue(healthDue, t) THEN ReconcileHealth(Off, h, inputs, t)
                       ELSE healthDue
       /\ manaDue' = IF SlotDue(manaDue, t) THEN ReconcileMana(Off, m, inputs, t) ELSE manaDue
       /\ restDue' = IF SlotDue(restDue, t) THEN Due(t, RestMs(inputs)) ELSE restDue

(* Mutant: nor while the player waits to leave the underworld.              *)
QuietUntilAlive == life # "Alive"

(* Engine.Step for this player: none of it while a death or its penalties   *)
(* are being stored.                                                        *)
Quiescent == life \in {"DeathPersisting", "DeathPenaltyPersisting"}

Step ==
    /\ tick' = (tick + 1) % Modulus
    /\ life = "DeathPenaltyPersisting" => held < MaxHeld
    /\ held' = IF life = "DeathPenaltyPersisting" THEN held + 1 ELSE held
    /\ IF Quiescent THEN UNCHANGED <<vitals, timers>> ELSE StepRuntime(tick')
    /\ UNCHANGED <<frame, ops>>

-----------------------------------------------------------------------------
(* The operations on a living player: each commits valid vitals and         *)
(* reconciles the timer of the pool it changed.                             *)

Operates == ops < MaxOps /\ ops' = ops + 1 /\ UNCHANGED <<tick, held>>

resolveActivePlayer == life = "Alive"

Commit(outcomes) == vitals' \in {w \in outcomes : Valid(w)}

ChangesHealth(outcomes) ==
    /\ Operates
    /\ resolveActivePlayer
    /\ Commit(outcomes)
    /\ healthDue' = ReconcileHealth(healthDue, vitals', inputs, tick)
    /\ UNCHANGED <<manaDue, restDue, frame>>

ChangesMana(outcomes) ==
    /\ Operates
    /\ resolveActivePlayer
    /\ Commit(outcomes)
    /\ manaDue' = ReconcileMana(manaDue, vitals', inputs, tick)
    /\ UNCHANGED <<healthDue, restDue, frame>>

ChangesNoPool(outcomes) ==
    /\ Operates
    /\ resolveActivePlayer
    /\ Commit(outcomes)
    /\ UNCHANGED <<timers, frame>>

PlayerLoseHealth == \E n \in Blows : ChangesHealth(LoseHealth(vitals, n))

PlayerGainHealthNormal == \E n \in Blows : ChangesHealth(GainHealthNormal(vitals, n))

PlayerGainHealthOvercap == \E n \in Blows : ChangesHealth(GainHealthOvercap(vitals, n))

PlayerAdjustBaseMaxHP ==
    \E n \in Amounts : ChangesNoPool(AdjustBaseMaxHP(vitals, n, inputs.stamina))

PlayerAdjustMaxHP == \E n \in Amounts : ChangesHealth(AdjustMaxHP(vitals, n))

PlayerLoseMana == \E n \in Amounts : ChangesMana(LoseMana(vitals, n))

PlayerGainMana == \E n \in Amounts, c \in BOOLEAN : ChangesMana(GainMana(vitals, n, c))

PlayerAdjustMaxMana == \E n \in Amounts : ChangesMana(AdjustMaxMana(vitals, n))

PlayerApplyExertion ==
    \E n \in Amounts, b \in BOOLEAN : ChangesNoPool(ApplyExertion(vitals, n * MaxExertion, b))

PlayerApplyRestExertion ==
    \E n \in Amounts : ChangesNoPool(ApplyRestExertion(vitals, n * MaxExertion, inputs.multiplier))

PlayerSetRestThreshold == \E n \in Settings : ChangesNoPool(SetRestThreshold(vitals, n))

(* The stomach catches up with the whole seconds since the anchor, which    *)
(* moves by exactly those.                                                  *)
PlayerUpdateStomach ==
    LET elapsed == (tick - anchor) % Modulus
        seconds == elapsed \div TickHz
    IN /\ Operates
       /\ resolveActivePlayer
       /\ 2 * elapsed < Modulus
       /\ Commit({[vitals EXCEPT !.stomach = s] : s \in DecayStomach(vitals.stomach, seconds)})
       /\ anchor' = (anchor + seconds * TickHz) % Modulus
       /\ UNCHANGED <<timers, inputs, acted, life, owes, planned>>

(* New inputs do not move a running deadline.                               *)
PlayerSetVitalsRuntimeInputs ==
    /\ Operates
    /\ resolveActivePlayer
    /\ inputs' \in Inputs
    /\ UNCHANGED <<vitals, timers, acted, anchor, life, owes, planned>>

PlayerStartResting ==
    /\ Operates
    /\ resolveActivePlayer
    /\ restDue = Off
    /\ restDue' = Due(tick, RestMs(inputs))
    /\ UNCHANGED <<vitals, healthDue, manaDue, frame>>

PlayerStopResting ==
    /\ Operates
    /\ resolveActivePlayer
    /\ restDue' = Off
    /\ UNCHANGED <<vitals, healthDue, manaDue, frame>>

(* PlayerMarkActedSinceEntry, and PlayerApplyEntryActedPolicy's reset.      *)
PlayerMarkActed ==
    /\ Operates
    /\ resolveActivePlayer
    /\ acted' \in BOOLEAN
    /\ UNCHANGED <<vitals, timers, inputs, anchor, life, owes, planned>>

-----------------------------------------------------------------------------
(* Entering the world: the timers start from the current tick.              *)

InitPlayerRuntime(v, in, t) ==
    /\ healthDue' = ReconcileHealth(Off, v, in, t)
    /\ manaDue' = ReconcileMana(Off, v, in, t)
    /\ restDue' = Off
    /\ acted' = FALSE
    /\ anchor' = t
    /\ inputs' = in

(* Death and its penalties, as far as the vitals go.                        *)
PlayerQuiesceForDeath ==
    /\ healthDue' = Off
    /\ manaDue' = Off
    /\ restDue' = Off
    /\ acted' = FALSE

PlayerBeginDeathPersistence ==
    /\ Operates
    /\ resolveActivePlayer
    /\ vitals.hp = 0
    /\ PlayerQuiesceForDeath
    /\ life' = "DeathPersisting"
    /\ UNCHANGED <<vitals, inputs, anchor, owes, planned>>

(* The death does not count: one point of health instead of none.           *)
AvoidDeath ==
    /\ vitals.hp = 0
    /\ ChangesHealth({[vitals EXCEPT !.hp = 1]})

PlayerInstallPostDeathState ==
    /\ life = "DeathPersisting"
    /\ \E d \in {"cheap", "normal"}, frenzy, angel \in BOOLEAN, in \in Inputs :
          \E w \in PlanPostDeathVitals(vitals, d, frenzy, angel) :
             /\ Valid(w)
             /\ vitals' = w
             /\ InitPlayerRuntime(w, in, tick)
    /\ life' = "AwaitingRespawn"
    /\ owes' \in BOOLEAN
    /\ UNCHANGED <<tick, planned, held, ops>>

PlayerReleaseRespawn ==
    /\ life = "AwaitingRespawn"
    /\ life' = "Alive"
    /\ UNCHANGED <<tick, vitals, timers, inputs, acted, anchor, owes, planned, held, ops>>

(* The penalties are planned before they are stored; the deadlines stay as  *)
(* they are meanwhile.  A default cost has no part in what health is lost.  *)
BeginDeathPenalties ==
    /\ Operates
    /\ resolveActivePlayer
    /\ owes
    /\ \E cost \in Costs, newbie, murderer \in BOOLEAN :
          \E plan \in PlanDeathPenalties(cost, 100, FALSE, newbie, murderer,
                                         inputs.stamina, vitals, <<>>) :
             /\ Valid(plan.vitals)
             /\ planned' = plan.vitals
    /\ life' = "DeathPenaltyPersisting"
    /\ UNCHANGED <<vitals, timers, inputs, acted, anchor, owes>>

(* They are stored: lower maxima, and health is reconciled with them.       *)
AcceptDeathPenalties ==
    /\ life = "DeathPenaltyPersisting"
    /\ vitals' = planned
    /\ healthDue' = ReconcileHealth(healthDue, planned, inputs, tick)
    /\ owes' = FALSE
    /\ planned' = Off
    /\ life' = "Alive"
    /\ held' = 0
    /\ UNCHANGED <<tick, manaDue, restDue, inputs, acted, anchor, ops>>

-----------------------------------------------------------------------------
(* AddPlayerEntity, with stored vitals.                                     *)
Init ==
    /\ tick = Modulus - 1
    /\ inputs \in Inputs
    /\ vitals \in Stored
    /\ acted = FALSE
    /\ healthDue = ReconcileHealth(Off, vitals, inputs, tick)
    /\ manaDue = ReconcileMana(Off, vitals, inputs, tick)
    /\ restDue = Off
    /\ anchor = tick
    /\ life = "Alive"
    /\ owes \in BOOLEAN
    /\ planned = Off
    /\ held = 0
    /\ ops = 0

Operation ==
    \/ PlayerLoseHealth \/ PlayerGainHealthNormal \/ PlayerGainHealthOvercap
    \/ PlayerAdjustBaseMaxHP \/ PlayerAdjustMaxHP
    \/ PlayerLoseMana \/ PlayerGainMana \/ PlayerAdjustMaxMana
    \/ PlayerApplyExertion \/ PlayerApplyRestExertion \/ PlayerSetRestThreshold
    \/ PlayerUpdateStomach \/ PlayerSetVitalsRuntimeInputs
    \/ PlayerStartResting \/ PlayerStopResting \/ PlayerMarkActed

Death ==
    \/ PlayerBeginDeathPersistence \/ AvoidDeath \/ PlayerInstallPostDeathState
    \/ PlayerReleaseRespawn \/ BeginDeathPenalties \/ AcceptDeathPenalties

Next == Step \/ Operation \/ Death

Spec == Init /\ [][Next]_vars

(* The engine's ticker goes on.                                             *)
FairSpec == Spec /\ WF_vars(Step)

-----------------------------------------------------------------------------
(* Properties.                                                              *)

(* Whatever operations, timers and deaths do, the stored vitals are ones    *)
(* the validation accepts, and every deadline is a tick.                    *)
TypeOK ==
    /\ Valid(vitals)
    /\ inputs \in Inputs
    /\ acted \in BOOLEAN
    /\ {healthDue, manaDue, restDue} \subseteq (0 .. Modulus - 1) \cup {Off}
    /\ {tick, anchor} \subseteq 0 .. Modulus - 1
    /\ life \in Lives
    /\ planned = Off <=> life # "DeathPenaltyPersisting"
    /\ life = "DeathPenaltyPersisting" => Valid(planned)

(* The state vitals_runtime.go calls impossible, and panics in, is not      *)
(* reachable: the stored vitals are valid, every interval a timer may need  *)
(* can be computed, every step it may take is accepted, and what the step   *)
(* returns can be stored.                                                   *)
NeverImpossible ==
    /\ Valid(vitals)
    /\ HealthMs(vitals, inputs) # {}
    /\ ManaMs(vitals, inputs) # {}
    /\ RestMs(inputs) # {}
    /\ \A steps \in {HealthStep(vitals), ManaStep(vitals), RestStep(vitals, inputs)} :
          steps # {} /\ \A w \in steps : Valid(w)

(* Deadlines wrap, so one that fell half the range behind would be taken    *)
(* for one far ahead: none ever lies further back than the ticks for which  *)
(* a penalty being stored held the timers.                                  *)
NotLost ==
    \A due \in {healthDue, manaDue, restDue} \ {Off} :
        S!After(Modulus, due, tick) \/ (tick - due) % Modulus < MaxHeld

(* When operations stop, mana returns to its maximum, and so does the       *)
(* health of a player that acted and is not dead.                           *)
PoolsSettle ==
    <>[](life \in {"Alive", "AwaitingRespawn"} =>
            /\ vitals.mana = vitals.maxMana
            /\ acted /\ vitals.hp > 0 => vitals.hp = vitals.max)

=============================================================================
