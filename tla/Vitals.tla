------------------------------- MODULE Vitals -------------------------------
(***************************************************************************)
(* A player's vitals and the operations on them: pure functions of one     *)
(* value, each of which either rejects its arguments or returns the next   *)
(* vitals.  sim/vitals.go and sim/regen.go.                                *)
(*                                                                         *)
(* An operation is the set of its outcomes: empty where the code returns   *)
(* an error, a singleton where it returns a value.  MaxInt stands for the  *)
(* largest 64-bit integer, the width of the code's int and int64.          *)
(***************************************************************************)
EXTENDS Integers

CONSTANT MaxInt

(* Wide enough for every product of in-range quantities below.             *)
ASSUME WideEnough == MaxInt \in Nat /\ MaxInt >= 100000000

Fits(n) == -MaxInt - 1 =< n /\ n =< MaxInt

Bound(n, lo, hi) == IF n < lo THEN lo ELSE IF n > hi THEN hi ELSE n

(* Integer division as Go does it: toward zero.                            *)
Quot(a, b) == IF a >= 0 THEN a \div b ELSE -((-a) \div b)

(* A checked sum: what every caller rejects when it does not fit.          *)
Checked(n) == IF Fits(n) THEN {n} ELSE {}

-----------------------------------------------------------------------------
(* The value, and what Validate accepts.                                   *)

MinMaxHP == 20
BaseHPs == 20 .. 150
Vigors == 1 .. 200
Thresholds == 10 .. 100
MaxExertion == 20000
ExertionPerVigor == 10000
Stomachs == 0 .. 100
EffectiveAttr == 1 .. 70
SpellPower == 1 .. 99

Valid(v) ==
    /\ v.hp >= 0
    /\ v.baseMax \in BaseHPs
    /\ v.max >= MinMaxHP
    /\ v.mana >= 0
    /\ v.maxMana >= 1
    /\ v.vigor \in Vigors
    /\ v.threshold \in Thresholds
    /\ v.exertion \in -MaxExertion .. MaxExertion
    /\ v.stomach \in Stomachs

Whole == {n \in Int : Fits(n)}

PlayerVitals ==
    [hp : Whole, baseMax : Whole, max : Whole, mana : Whole, maxMana : Whole,
     vigor : Whole, threshold : Whole, exertion : Whole, stomach : Whole]

InitialMaxMana(mysticism) ==
    IF mysticism \in EffectiveAttr THEN {15 + mysticism \div 5} ELSE {}

NewPlayerVitals(mysticism) ==
    {[hp |-> 20, baseMax |-> 20, max |-> 20, mana |-> m, maxMana |-> m, vigor |-> 100,
      threshold |-> 80, exertion |-> 0, stomach |-> 0] : m \in InitialMaxMana(mysticism)}

-----------------------------------------------------------------------------
(* Health.                                                                 *)

AdjustBaseMaxHP(v, amount, stamina) ==
    {[v EXCEPT !.baseMax = Bound(Bound(n, 20, 100 + stamina), 20, 150)] :
        n \in IF Valid(v) /\ stamina \in EffectiveAttr THEN Checked(v.baseMax + amount) ELSE {}}

AdjustMaxHP(v, amount) ==
    {[v EXCEPT !.max = Bound(n, MinMaxHP, MaxInt)] :
        n \in IF Valid(v) THEN Checked(v.max + amount) ELSE {}}

LoseHealth(v, amount) ==
    IF Valid(v) /\ amount >= 0 THEN {[v EXCEPT !.hp = Bound(v.hp - amount, 0, v.hp)]} ELSE {}

(* Health above the maximum is left alone.                                  *)
GainHealthNormal(v, amount) ==
    IF ~(Valid(v) /\ amount >= 0) THEN {}
    ELSE IF v.hp > v.max THEN {v}
    ELSE {[v EXCEPT !.hp = Bound(n, 0, v.max)] : n \in Checked(v.hp + amount)}

(* At most twice the maximum; health above that is brought down to it.      *)
GainHealthOvercap(v, amount) ==
    IF ~(Valid(v) /\ amount >= 0) THEN {}
    ELSE {[v EXCEPT !.hp = Bound(v.hp + amount, 0, cap)] : cap \in Checked(2 * v.max)}

-----------------------------------------------------------------------------
(* Mana.  AdjustMaxMana bounds nothing: a maximum below 1 is refused when   *)
(* the vitals are stored.                                                   *)

AdjustMaxMana(v, amount) ==
    {[v EXCEPT !.maxMana = n] : n \in IF Valid(v) THEN Checked(v.maxMana + amount) ELSE {}}

LoseMana(v, amount) ==
    IF Valid(v) /\ amount >= 0 THEN {[v EXCEPT !.mana = Bound(v.mana - amount, 0, v.mana)]}
    ELSE {}

(* A capped gain ends at the maximum, also from above it.                   *)
GainMana(v, amount, capped) ==
    IF ~(Valid(v) /\ amount >= 0) THEN {}
    ELSE IF capped THEN {[v EXCEPT !.mana = Bound(v.mana + amount, 0, v.maxMana)]}
    ELSE {[v EXCEPT !.mana = n] : n \in Checked(v.mana + amount)}

-----------------------------------------------------------------------------
(* Vigor: exertion accumulates, and is paid in vigor when it leaves its     *)
(* range.                                                                   *)

HasVigor(v, required) == Valid(v) /\ required >= 0 /\ v.vigor > required

(* The exertion left over after whole points of vigor were taken from it.   *)
Paid(v, e) ==
    LET lost == Quot(e, ExertionPerVigor)
    IN [v EXCEPT !.vigor = Bound(v.vigor - lost, 1, 200),
                 !.exertion = e - lost * ExertionPerVigor]

ApplyExertion(v, amount, setToThreshold) ==
    {IF setToThreshold /\ v.vigor < v.threshold
        THEN [v EXCEPT !.vigor = v.threshold, !.exertion = 0]
     ELSE IF setToThreshold \/ e > MaxExertion \/ e < -MaxExertion THEN Paid(v, e)
     ELSE [v EXCEPT !.exertion = e] :
        e \in IF Valid(v) THEN Checked(v.exertion + amount) ELSE {}}

(* Rest: recovery is multiplied by the room and ends at the threshold.      *)
ApplyRestExertion(v, amount, multiplier) ==
    LET scaled == IF amount < 0 THEN amount * multiplier ELSE amount
    IN IF ~(Valid(v) /\ multiplier \in 1 .. 3) THEN {}
       ELSE IF v.vigor > v.threshold THEN {v}
       ELSE {IF e > MaxExertion \/ e < -MaxExertion
                THEN [v EXCEPT !.exertion = 0,
                               !.vigor = Bound(Bound(v.vigor - Quot(e, ExertionPerVigor), 1, 200),
                                               1, v.threshold)]
             ELSE [v EXCEPT !.exertion = e] :
                e \in {s \in Checked(v.exertion + scaled) : Fits(scaled)}}

SetRestThreshold(v, threshold) ==
    IF Valid(v) /\ threshold \in Thresholds THEN {[v EXCEPT !.threshold = threshold]} ELSE {}

-----------------------------------------------------------------------------
(* Food.                                                                    *)

DecayStomach(stomach, elapsed) ==
    IF stomach \in Stomachs /\ elapsed >= 0
    THEN {Bound(stomach - p \div 100, 1, 100) : p \in Checked(elapsed * 12)}
    ELSE {}

CanEat(stomach, filling) ==
    IF stomach \in Stomachs /\ filling >= 0
    THEN {n =< 100 : n \in Checked(stomach + filling)}
    ELSE {}

-----------------------------------------------------------------------------
(* Mana nodes.                                                              *)

StandardNodeMana(mysticism) ==
    IF mysticism \in EffectiveAttr THEN {(5 + mysticism) \div 10 + 3} ELSE {}

NodeManaBonus(kind, mysticism) ==
    CASE kind = "standard" -> StandardNodeMana(mysticism)
      [] kind = "double" -> {2 * m : m \in StandardNodeMana(mysticism)}
      [] OTHER -> {}

-----------------------------------------------------------------------------
(* How long the next step of a timer takes, in milliseconds.  A power of 0  *)
(* is an enchantment that is not there.                                     *)

Power(p) == p = 0 \/ p \in SpellPower

Eased(ms, power) == (ms * (200 - power)) \div 200

ApplyRestorateAdjust(ms, power) ==
    IF power \in SpellPower
    THEN {Bound((Bound(ms, 1000, 60000) * (400 - (40 + power))) \div 400, 670, 60000)}
    ELSE {}

ApplyRejuvenateAdjust(ms, power) ==
    IF power \in SpellPower /\ ms >= 0 THEN {Eased(ms, power)} ELSE {}

ApplyManaFocusAdjust(ms, power) ==
    IF power \in SpellPower /\ ms >= 0 THEN {Bound(Eased(ms, power), 500, 60000)} ELSE {}

ApplyInvigorateAdjust(ms, power) == ApplyRejuvenateAdjust(ms, power)

(* Mutant: an enchantment that is not there is checked like one that is.    *)
RestorateAlways(vigor, stamina, max, faction, restorate) ==
    ApplyRestorateAdjust(((125 - stamina) * 1000) \div 100 - faction, restorate)

HealthRegenIntervalMs(vigor, stamina, max, faction, restorate) ==
    LET short == 200 - vigor
        slow == ((125 - stamina) * ((short * short) \div 6 + 1000)) \div 100
        ms == (slow * 100) \div Bound(max, 40, 100) - faction
    IN IF ~(/\ vigor \in Vigors
            /\ stamina \in EffectiveAttr
            /\ max >= MinMaxHP
            /\ Power(restorate)
            /\ Fits(ms)) THEN {}
       ELSE IF restorate # 0 THEN ApplyRestorateAdjust(ms, restorate)
       ELSE {Bound(ms, 1000, 60000)}

ManaRegenIntervalMs(mana, maxMana, vigor, mysticism, faction, rejuvenate, focus) ==
    LET base == 150000 + (25 - mysticism) * 1000
        ms == ((base * 200) \div vigor) \div maxMana - faction
        fresh == IF rejuvenate = 0 THEN Bound(ms, 1000, 60000)
                 ELSE Bound(Eased(Bound(ms, 1000, 60000), rejuvenate), 500, 60000)
    IN IF ~(/\ mana >= 0
            /\ maxMana >= 1
            /\ vigor \in Vigors
            /\ mysticism \in EffectiveAttr
            /\ Power(rejuvenate)
            /\ Power(focus)) THEN {}
       ELSE IF mana > maxMana THEN {30000}
       ELSE IF ~Fits(ms) THEN {}
       ELSE IF focus = 0 THEN {fresh}
       ELSE {Bound(Eased(fresh, focus), 500, 60000)}

RestIntervalMs(stamina, invigorate) ==
    LET ms == 1000 + 30 * (51 - stamina)
    IN IF ~(stamina \in EffectiveAttr /\ Power(invigorate)) THEN {}
       ELSE IF invigorate = 0 THEN {ms}
       ELSE ApplyInvigorateAdjust(ms, invigorate)

-----------------------------------------------------------------------------
(* What one step of a timer does to a pool.                                 *)

TimerStep(pool, maximum) ==
    IF pool < maximum THEN "gain" ELSE IF pool = maximum THEN "none" ELSE "decay"

HealthTimerStep(hp, max) == IF hp >= 0 /\ max >= MinMaxHP THEN {TimerStep(hp, max)} ELSE {}

ManaTimerStep(mana, maxMana) == IF mana >= 0 /\ maxMana >= 1 THEN {TimerStep(mana, maxMana)} ELSE {}

=============================================================================
