----------------------------- MODULE DeathRules -----------------------------
(***************************************************************************)
(* What a death costs: the pure planners of sim/death.go, each of which    *)
(* either rejects its input or returns a plan.  As in Vitals, a planner is *)
(* the set of its outcomes; where it rolls dice, of all the outcomes the   *)
(* dice allow.                                                             *)
(***************************************************************************)
EXTENDS Vitals

DefaultCosts == 1 .. 100
PendingCosts == 0 .. 100
Abilities == 1 .. 99
DoubleDeathGuardSeconds == 2
PkillEnableHP == 30

-----------------------------------------------------------------------------
(* Which kind of death it is.  The context is a set of circumstances.       *)

Circumstances ==
    {"frenzy", "newbieZone", "newbieHonor", "token", "arena", "prison", "safeAttack"}

Plan == [disposition : {"avoided", "cheap", "normal"}, cost : PendingCosts,
         token : BOOLEAN, kept : BOOLEAN, pk : BOOLEAN, newbieHome : BOOLEAN]

ValidPlan(p) ==
    /\ p.token => p.disposition = "cheap"
    /\ CASE p.disposition = "avoided" -> p.cost = 0 /\ ~p.newbieHome /\ p.kept
         [] p.disposition = "cheap" -> p.cost = 0 /\ (p.token \/ p.kept)
         [] p.disposition = "normal" -> p.cost \in DefaultCosts /\ ~p.newbieHome /\ ~p.kept

PlanDeathDisposition(defaultCost, context, killerIsPlayer) ==
    LET avoided == context \cap {"arena", "prison", "safeAttack"} # {}
        kept == context \cap {"frenzy", "newbieZone", "newbieHonor"} # {}
        cheap == kept \/ "token" \in context
        normal == [disposition |-> "normal", cost |-> defaultCost, token |-> FALSE,
                   kept |-> FALSE, pk |-> killerIsPlayer, newbieHome |-> FALSE]
    IN IF defaultCost \notin DefaultCosts THEN {}
       ELSE IF avoided THEN {[normal EXCEPT !.disposition = "avoided", !.cost = 0, !.kept = TRUE]}
       ELSE IF cheap THEN {[normal EXCEPT !.disposition = "cheap", !.cost = 0,
                                          !.token = "token" \in context, !.kept = kept,
                                          !.newbieHome = "newbieZone" \in context]}
       ELSE {normal}

(* A second death this soon after the last does not count.                  *)
DeathBlockedByDoubleDeath(last, now) ==
    IF last >= 0 /\ now >= 0 THEN {now < guarded : guarded \in Checked(last + DoubleDeathGuardSeconds)}
    ELSE {}

-----------------------------------------------------------------------------
(* What is dropped, and what the corpse is.                                 *)

PlanCorpse(now) ==
    IF now >= 0 THEN {[lifetimeMs |-> 600000, noStealMs |-> 25000, time |-> now]} ELSE {}

(* Items by key: what is dropped, and which of those a PK may not steal.    *)
PlanDeathDrops(plan, items) ==
    LET dropped == {k \in DOMAIN items : /\ plan.disposition = "normal"
                                         /\ items[k].dropOnDeath
                                         /\ items[k].roomAccepts}
    IN IF ~ValidPlan(plan) \/ plan.disposition = "avoided" THEN {}
       ELSE {[dropped |-> dropped,
              protected |-> IF plan.pk THEN dropped ELSE {},
              kept |-> {k \in DOMAIN items : items[k].special /\ plan.kept}]}

PlanDeathAdvancement(disposition, points, gainChance) ==
    CASE disposition = "cheap" ->
            {[points |-> points, gainChance |-> gainChance, reset |-> FALSE]}
      [] disposition = "normal" ->
            {[points |-> 0, gainChance |-> Quot(gainChance, 2), reset |-> TRUE]}
      [] OTHER -> {}

-----------------------------------------------------------------------------
(* The vitals one wakes up with, and who is comforted.                      *)

GuardianAngelMailEligible(cost, stillNewbie, murderer) ==
    cost > 0 /\ stillNewbie /\ ~murderer

PlanPostDeathVitals(v, disposition, frenzy, angel) ==
    LET contradictory == \/ disposition \notin {"cheap", "normal"}
                         \/ frenzy /\ (angel \/ disposition = "normal")
                         \/ angel /\ disposition = "cheap"
        woken == IF frenzy
                 THEN [v EXCEPT !.hp = v.max \div 2, !.mana = v.maxMana \div 2, !.vigor = 100]
                 ELSE [v EXCEPT !.hp = 1,
                                !.mana = IF angel THEN v.maxMana \div 2 + 2 ELSE 1,
                                !.vigor = Bound(Bound(v.vigor \div 4, 0, 50), 1, 200)]
    IN IF Valid(v) /\ ~contradictory THEN {woken} ELSE {}

(* What losing a fight does to a soldier's shield.                          *)
SoldierShieldDeathEffect(disposition, shield, byEnemy) ==
    IF disposition # "normal" \/ shield = 0 \/ ~byEnemy
    THEN [triggered |-> FALSE, delete |-> FALSE, rank |-> 0]
    ELSE [triggered |-> TRUE, delete |-> shield =< 3,
          rank |-> IF shield =< 3 THEN 0 ELSE Bound(shield - 4, 1, 10)]

(* A shield of rank 0 is no shield.                                         *)
PlanImmediateDeathHooks(plan, frenzy, stillNewbie, murderer, shield, byEnemy) ==
    LET angel == GuardianAngelMailEligible(plan.cost, stillNewbie, murderer)
    IN IF \/ ~ValidPlan(plan)
          \/ shield \notin 0 .. 10
          \/ frenzy /\ (angel \/ plan.disposition = "normal") THEN {}
       ELSE {[angelMail |-> angel,
              shield |-> SoldierShieldDeathEffect(plan.disposition, shield, byEnemy)]}

-----------------------------------------------------------------------------
(* The debt: what the player still owes when it leaves the underworld.      *)

NoDebt == [phase |-> "none", cost |-> 0, time |-> 0]

PlanPendingDeath(plan, corpse) ==
    IF ~(/\ ValidPlan(plan)
         /\ corpse.lifetimeMs = 600000
         /\ corpse.noStealMs = 25000
         /\ corpse.time >= 0) THEN {}
    ELSE IF plan.disposition = "avoided" \/ plan.newbieHome THEN {NoDebt}
    ELSE {[phase |-> "pending", cost |-> plan.cost, time |-> corpse.time]}

(* The fresher the corpse and the stronger the portal, the less is owed:    *)
(* below a minute the time helps, after it every ten seconds cost one.      *)
PlanPortalOfLife(cost, age, power, used) ==
    LET adjust == IF age < 60 THEN -(60 - age) ELSE age \div 10 - 6
    IN IF power \in SpellPower /\ age >= 0 /\ cost \in PendingCosts /\ ~used
       THEN {Bound(n, 5, 80) : n \in Checked(cost - (power - adjust))}
       ELSE {}

(* A portal can only help.                                                  *)
ReducePendingDeathCost(current, proposed) ==
    IF current \in PendingCosts /\ proposed \in PendingCosts
    THEN {IF proposed < current THEN proposed ELSE current}
    ELSE {}

-----------------------------------------------------------------------------
(* The penalties.  Two rolls of the dice matter: whether base health is     *)
(* lost, and which abilities are.                                           *)

(* A roll of 1 .. 100 can be at most cost, and can be above it.             *)
HealthRolls(cost, spared) ==
    IF cost = 0 \/ spared THEN {FALSE} ELSE IF cost = 100 THEN {TRUE} ELSE {TRUE, FALSE}

(* An eligible ability fails its stamina save and its cost roll is below    *)
(* the scaled cost, or not.                                                 *)
LosableAbilities(abilities, scaled) ==
    IF scaled > 1 THEN {k \in DOMAIN abilities : abilities[k] > 5} ELSE {}

LowerMaxima(v, stamina) ==
    UNION {AdjustMaxHP(w, w.baseMax - v.baseMax) : w \in AdjustBaseMaxHP(v, -1, stamina)}

PlanDeathPenalties(cost, default, frenzy, stillNewbie, murderer, stamina, v, abilities) ==
    LET spared == stillNewbie /\ ~murderer
        scaled == IF spared /\ cost > 0 THEN cost \div 3 ELSE cost
        loss == IF murderer THEN 2 ELSE 1
        After(lost) == IF lost THEN LowerMaxima(v, stamina) ELSE {v}
        Weakened(L) == [k \in DOMAIN abilities |->
                           IF k \in L THEN Bound(abilities[k] - loss, 1, 99) ELSE abilities[k]]
        Result(w, L) == [vitals |-> w, abilities |-> Weakened(L),
                         clearOutlaw |-> cost >= default, clearHaunted |-> cost >= default,
                         quitGuild |-> w.baseMax < PkillEnableHP]
    IN IF ~(/\ cost \in PendingCosts
            /\ default \in DefaultCosts
            /\ stamina \in EffectiveAttr
            /\ Valid(v)
            /\ \A k \in DOMAIN abilities : abilities[k] \in Abilities) THEN {}
       ELSE IF frenzy THEN {[vitals |-> v, abilities |-> abilities, clearOutlaw |-> FALSE,
                             clearHaunted |-> TRUE, quitGuild |-> FALSE]}
       ELSE {Result(w, L) : w \in UNION {After(lost) : lost \in HealthRolls(cost, spared)},
                            L \in SUBSET LosableAbilities(abilities, scaled)}

-----------------------------------------------------------------------------
(* What an untrained player finds where it wakes up.                        *)

PlanKarmaBoobyPrize(karma, homeIsNewbieStart) ==
    IF karma \notin -10000 .. 10000 THEN {}
    ELSE IF karma > 5000 /\ ~homeIsNewbieStart THEN {"hammer"}
    ELSE IF karma >= 0 THEN {"mace"}
    ELSE {"none"}

=============================================================================
