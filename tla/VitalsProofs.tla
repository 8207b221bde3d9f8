---------------------------- MODULE VitalsProofs ----------------------------
(***************************************************************************)
(* Theorems of VitalsRuntime.tla for every tick rate, every stored vitals, *)
(* every amount an operation is called with and every width of integers    *)
(* that holds the intermediate products.                                   *)
(*                                                                         *)
(* Validity alone is not inductive: a maximum beyond the width of integers *)
(* is valid, and one more point of health below it would not fit.  So the  *)
(* invariant also bounds every field by that width (Stands).               *)
(*                                                                         *)
(* The second half is about deadlines on the circle of ticks: how far      *)
(* ahead of the tick, or behind it, the three timers can be.               *)
(***************************************************************************)
EXTENDS VitalsRuntime, TLAPS

-----------------------------------------------------------------------------
(* Arithmetic *)

(* Dividing a natural number keeps it natural and makes it no larger.       *)
LEMMA DivShrinks ==
  ASSUME NEW a \in Nat, NEW d \in Nat \ {0}
  PROVE  a \div d \in 0 .. a
OBVIOUS

(* A product of two bounded naturals.                                       *)
LEMMA ProductBound ==
  ASSUME NEW A \in Nat, NEW B \in Nat, NEW a \in 0 .. A, NEW b \in 0 .. B
  PROVE  a * b \in 0 .. (A * B)
<1>1. a * b \in Nat /\ a * B \in Nat /\ A * B \in Nat
  OBVIOUS
<1>2. a * b =< a * B
  OBVIOUS
<1>3. a * B =< A * B
  OBVIOUS
<1> QED
  BY <1>1, <1>2, <1>3

LEMMA BoundWithin ==
  ASSUME NEW n \in Int, NEW lo \in Int, NEW hi \in Int, lo =< hi
  PROVE  Bound(n, lo, hi) \in lo .. hi
BY DEF Bound

-----------------------------------------------------------------------------
(* What every operation returns for vitals of the code's width: vitals of   *)
(* that width.  Whether they are valid is checked where they are stored.    *)

Stands(v) == v \in PlayerVitals /\ Valid(v)

LEMMA WholeIs == \A x \in Int : -MaxInt - 1 =< x /\ x =< MaxInt => x \in Whole
BY DEF Whole, Fits

LEMMA WholeInt == \A x \in Whole : x \in Int /\ -MaxInt - 1 =< x /\ x =< MaxInt
BY DEF Whole, Fits

(* The width, as far as most proofs need it.                                *)
LEMMA Wide == MaxInt \in Nat /\ MaxInt >= 20000 /\ MaxInt >= MaxExertion
BY WideEnough, SMT DEF MaxExertion

LEMMA ExertionRange ==
  \A e \in Int : -20000 =< e /\ e =< 20000 => e \in -MaxExertion .. MaxExertion
<1> SUFFICES ASSUME NEW e \in Int, -20000 =< e, e =< 20000
             PROVE  e \in -MaxExertion .. MaxExertion
  OBVIOUS
<1>1. MaxExertion = 20000
  BY SMT DEF MaxExertion
<1>2. MaxExertion \in Int /\ -MaxExertion =< e /\ e =< MaxExertion
  BY <1>1, SMT
<1> QED
  BY <1>2, SMT

LEMMA CheckedWhole ==
  ASSUME NEW n \in Int, NEW m \in Checked(n)
  PROVE  m = n /\ m \in Whole
BY DEF Checked, Whole

LEMMA BoundWhole ==
  ASSUME NEW n \in Int, NEW lo \in 0 .. 200, NEW hi \in Whole, lo =< hi
  PROVE  Bound(n, lo, hi) \in Whole
<1>1. Bound(n, lo, hi) \in Int /\ lo =< Bound(n, lo, hi) /\ Bound(n, lo, hi) =< hi
  BY WholeInt DEF Bound
<1> QED
  BY <1>1, WholeInt, WholeIs, Wide, SMT

(* A field set to a whole number leaves the vitals of the code's width.     *)
LEMMA SetField ==
  ASSUME NEW v \in PlayerVitals, NEW x \in Whole
  PROVE  /\ [v EXCEPT !.hp = x] \in PlayerVitals
         /\ [v EXCEPT !.baseMax = x] \in PlayerVitals
         /\ [v EXCEPT !.max = x] \in PlayerVitals
         /\ [v EXCEPT !.mana = x] \in PlayerVitals
         /\ [v EXCEPT !.maxMana = x] \in PlayerVitals
         /\ [v EXCEPT !.vigor = x] \in PlayerVitals
         /\ [v EXCEPT !.threshold = x] \in PlayerVitals
         /\ [v EXCEPT !.exertion = x] \in PlayerVitals
         /\ [v EXCEPT !.stomach = x] \in PlayerVitals
BY DEF PlayerVitals

(* The fields of vitals that stand.                                         *)
LEMMA Fields ==
  ASSUME NEW v, Stands(v)
  PROVE  /\ v.hp \in Whole /\ v.max \in Whole /\ v.mana \in Whole /\ v.maxMana \in Whole
         /\ v.hp >= 0 /\ v.max >= 20 /\ v.mana >= 0 /\ v.maxMana >= 1
         /\ v.baseMax \in 20 .. 150
         /\ v.vigor \in 1 .. 200 /\ v.threshold \in 10 .. 100
         /\ v.exertion \in -MaxExertion .. MaxExertion /\ v.stomach \in 0 .. 100
BY DEF Stands, Valid, PlayerVitals, BaseHPs, MinMaxHP, Vigors, Thresholds, Stomachs

LEMMA HealthOpsWhole ==
  ASSUME NEW v, Stands(v), NEW n \in Int
  PROVE  /\ LoseHealth(v, n) \subseteq PlayerVitals
         /\ GainHealthNormal(v, n) \subseteq PlayerVitals
         /\ GainHealthOvercap(v, n) \subseteq PlayerVitals
         /\ AdjustMaxHP(v, n) \subseteq PlayerVitals
<1>1. /\ v \in PlayerVitals
      /\ v.hp \in Whole /\ v.hp >= 0
      /\ v.max \in Whole /\ v.max >= 20
      /\ v.hp \in Int /\ v.max \in Int
  BY Fields, WholeInt DEF Stands
<1>2. LoseHealth(v, n) \subseteq PlayerVitals
  <2>1. Bound(v.hp - n, 0, v.hp) \in Whole
    BY <1>1, BoundWhole
  <2>2. [v EXCEPT !.hp = Bound(v.hp - n, 0, v.hp)] \in PlayerVitals
    BY <1>1, <2>1, SetField
  <2> QED
    BY <2>2 DEF LoseHealth
<1>3. GainHealthNormal(v, n) \subseteq PlayerVitals
  <2> SUFFICES ASSUME NEW m \in Checked(v.hp + n)
               PROVE  [v EXCEPT !.hp = Bound(m, 0, v.max)] \in PlayerVitals
    BY <1>1 DEF GainHealthNormal
  <2>1. m \in Int
    BY <1>1, CheckedWhole
  <2>2. Bound(m, 0, v.max) \in Whole
    BY <1>1, <2>1, BoundWhole
  <2> QED
    BY <1>1, <2>2, SetField
<1>4. GainHealthOvercap(v, n) \subseteq PlayerVitals
  <2> SUFFICES ASSUME NEW cap \in Checked(2 * v.max)
               PROVE  [v EXCEPT !.hp = Bound(v.hp + n, 0, cap)] \in PlayerVitals
    BY <1>1 DEF GainHealthOvercap
  <2>1. cap \in Whole /\ cap >= 0
    BY <1>1, CheckedWhole
  <2>2. Bound(v.hp + n, 0, cap) \in Whole
    BY <1>1, <2>1, BoundWhole
  <2> QED
    BY <1>1, <2>2, SetField
<1>5. AdjustMaxHP(v, n) \subseteq PlayerVitals
  <2> SUFFICES ASSUME NEW m \in Checked(v.max + n)
               PROVE  [v EXCEPT !.max = Bound(m, 20, MaxInt)] \in PlayerVitals
    BY DEF AdjustMaxHP, MinMaxHP
  <2>1. m \in Int
    BY <1>1, CheckedWhole
  <2>2. MaxInt \in Whole /\ 20 =< MaxInt
    BY Wide, WholeIs, SMT
  <2>3. Bound(m, 20, MaxInt) \in Whole
    BY <2>1, <2>2, BoundWhole
  <2> QED
    BY <1>1, <2>3, SetField
<1> QED
  BY <1>2, <1>3, <1>4, <1>5

LEMMA BaseOpWhole ==
  ASSUME NEW v, Stands(v), NEW n \in Int, NEW stamina \in EffectiveAttr
  PROVE  AdjustBaseMaxHP(v, n, stamina) \subseteq PlayerVitals
<1>1. v \in PlayerVitals /\ v.baseMax \in Int
  BY Fields DEF Stands
<1> SUFFICES ASSUME NEW m \in Checked(v.baseMax + n)
             PROVE  [v EXCEPT !.baseMax = Bound(Bound(m, 20, 100 + stamina), 20, 150)]
                       \in PlayerVitals
  BY DEF AdjustBaseMaxHP
<1>2. m \in Int
  BY <1>1, CheckedWhole
<1>3. Bound(m, 20, 100 + stamina) \in Int
  BY <1>2 DEF Bound, EffectiveAttr
<1>4. 150 \in Whole
  BY Wide, WholeIs, SMT
<1>5. Bound(Bound(m, 20, 100 + stamina), 20, 150) \in Whole
  BY <1>3, <1>4, BoundWhole
<1> QED
  BY <1>1, <1>5, SetField

LEMMA ManaOpsWhole ==
  ASSUME NEW v, Stands(v), NEW n \in Int, NEW c \in BOOLEAN
  PROVE  /\ LoseMana(v, n) \subseteq PlayerVitals
         /\ GainMana(v, n, c) \subseteq PlayerVitals
         /\ AdjustMaxMana(v, n) \subseteq PlayerVitals
<1>1. /\ v \in PlayerVitals
      /\ v.mana \in Whole /\ v.mana >= 0
      /\ v.maxMana \in Whole /\ v.maxMana >= 0
      /\ v.mana \in Int /\ v.maxMana \in Int
  BY Fields, WholeInt DEF Stands
<1>2. LoseMana(v, n) \subseteq PlayerVitals
  <2>1. Bound(v.mana - n, 0, v.mana) \in Whole
    BY <1>1, BoundWhole
  <2>2. [v EXCEPT !.mana = Bound(v.mana - n, 0, v.mana)] \in PlayerVitals
    BY <1>1, <2>1, SetField
  <2> QED
    BY <2>2 DEF LoseMana
<1>3. GainMana(v, n, c) \subseteq PlayerVitals
  <2>1. Bound(v.mana + n, 0, v.maxMana) \in Whole
    BY <1>1, BoundWhole
  <2>2. [v EXCEPT !.mana = Bound(v.mana + n, 0, v.maxMana)] \in PlayerVitals
    BY <1>1, <2>1, SetField
  <2>3. ASSUME NEW m \in Checked(v.mana + n)
        PROVE  [v EXCEPT !.mana = m] \in PlayerVitals
    <3>1. m \in Whole
      BY <1>1, CheckedWhole
    <3> QED
      BY <1>1, <3>1, SetField
  <2> QED
    BY <2>2, <2>3 DEF GainMana
<1>4. AdjustMaxMana(v, n) \subseteq PlayerVitals
  <2> SUFFICES ASSUME NEW m \in Checked(v.maxMana + n)
               PROVE  [v EXCEPT !.maxMana = m] \in PlayerVitals
    BY DEF AdjustMaxMana
  <2>1. m \in Whole
    BY <1>1, CheckedWhole
  <2> QED
    BY <1>1, <2>1, SetField
<1> QED
  BY <1>2, <1>3, <1>4

(* Division toward zero by 10000.                                           *)
LEMMA QuotBy10000 ==
  ASSUME NEW e \in Int
  PROVE  /\ Quot(e, 10000) \in Int
         /\ -20000 =< e - Quot(e, 10000) * 10000
         /\ e - Quot(e, 10000) * 10000 =< 20000
<1> DEFINE q == Quot(e, 10000)
<1>1. CASE e >= 0
  <2>1. q = e \div 10000
    BY <1>1 DEF Quot
  <2> HIDE DEF q
  <2> QED
    BY <1>1, <2>1, SMT DEF q
<1>2. CASE ~(e >= 0)
  <2>1. q = -((-e) \div 10000)
    BY <1>2 DEF Quot
  <2> DEFINE p == (-e) \div 10000
  <2>2. p \in Int /\ 0 =< (-e) - p * 10000 /\ (-e) - p * 10000 =< 10000
    BY <1>2, SMT
  <2>3. q = -p
    BY <2>1
  <2> HIDE DEF p, q
  <2>4. q \in Int /\ -20000 =< e - q * 10000 /\ e - q * 10000 =< 20000
    BY <2>2, <2>3, SMT
  <2> QED
    BY <2>4 DEF q
<1> QED
  BY <1>1, <1>2

LEMMA QuotBy ==
  ASSUME NEW e \in Int
  PROVE  /\ Quot(e, ExertionPerVigor) \in Int
         /\ e - Quot(e, ExertionPerVigor) * ExertionPerVigor \in -MaxExertion .. MaxExertion
<1> DEFINE q == Quot(e, 10000)
<1>1. q \in Int /\ -20000 =< e - q * 10000 /\ e - q * 10000 =< 20000
  BY QuotBy10000
<1> HIDE DEF q
<1>2. e - q * 10000 \in -MaxExertion .. MaxExertion
  <2>1. e - q * 10000 \in Int
    BY <1>1
  <2> QED
    BY <1>1, <2>1, ExertionRange
<1> QED
  BY <1>1, <1>2 DEF q, ExertionPerVigor

LEMMA ExertionsWhole == -MaxExertion .. MaxExertion \subseteq Whole
<1> SUFFICES ASSUME NEW e \in -MaxExertion .. MaxExertion
             PROVE  e \in Whole
  OBVIOUS
<1>1. MaxExertion \in Nat
  BY SMT DEF MaxExertion
<1>2. e \in Int /\ -MaxInt - 1 =< e /\ e =< MaxInt
  BY <1>1, Wide, SMT
<1> QED
  BY <1>2, WholeIs

LEMMA PaidWhole ==
  ASSUME NEW v, Stands(v), NEW e \in Int
  PROVE  Paid(v, e) \in PlayerVitals
<1>1. v \in PlayerVitals /\ v.vigor \in Int
  BY Fields DEF Stands
<1> DEFINE lost == Quot(e, ExertionPerVigor)
           left == e - lost * ExertionPerVigor
           vigor == Bound(v.vigor - lost, 1, 200)
<1>2. lost \in Int /\ left \in Whole
  BY QuotBy, ExertionsWhole
<1>3. 200 \in Whole
  BY Wide, WholeIs, SMT
<1>4. vigor \in Whole
  <2> HIDE DEF lost
  <2> QED
    BY <1>1, <1>2, <1>3, BoundWhole
<1>5. Paid(v, e) = [v EXCEPT !.vigor = vigor, !.exertion = left]
  BY DEF Paid
<1> HIDE DEF lost, left, vigor
<1> QED
  BY <1>1, <1>2, <1>4, <1>5 DEF PlayerVitals

LEMMA VigorOpsWhole ==
  ASSUME NEW v, Stands(v), NEW n \in Int, NEW b \in BOOLEAN
  PROVE  /\ ApplyExertion(v, n, b) \subseteq PlayerVitals
         /\ SetRestThreshold(v, n) \subseteq PlayerVitals
<1>1. /\ v \in PlayerVitals
      /\ v.exertion \in Int
      /\ v.threshold \in Whole
      /\ 0 \in Whole
  BY Fields, WholeIs, Wide, SMT DEF Stands, PlayerVitals
<1>2. ApplyExertion(v, n, b) \subseteq PlayerVitals
  <2> SUFFICES ASSUME NEW e \in Checked(v.exertion + n)
               PROVE  /\ [v EXCEPT !.vigor = v.threshold, !.exertion = 0] \in PlayerVitals
                      /\ Paid(v, e) \in PlayerVitals
                      /\ [v EXCEPT !.exertion = e] \in PlayerVitals
    BY DEF ApplyExertion
  <2>1. e \in Int /\ e \in Whole
    BY <1>1, CheckedWhole
  <2>2. [v EXCEPT !.vigor = v.threshold, !.exertion = 0] \in PlayerVitals
    BY <1>1 DEF PlayerVitals
  <2>3. Paid(v, e) \in PlayerVitals
    BY <2>1, PaidWhole
  <2>4. [v EXCEPT !.exertion = e] \in PlayerVitals
    BY <1>1, <2>1, SetField
  <2> QED
    BY <2>2, <2>3, <2>4
<1>3. SetRestThreshold(v, n) \subseteq PlayerVitals
  <2>1. ASSUME n \in Thresholds
        PROVE  [v EXCEPT !.threshold = n] \in PlayerVitals
    <3>1. n \in Whole
      BY <2>1, Wide, WholeIs, SMT DEF Thresholds
    <3> QED
      BY <1>1, <3>1, SetField
  <2> QED
    BY <2>1 DEF SetRestThreshold
<1> QED
  BY <1>2, <1>3

LEMMA RestWhole ==
  ASSUME NEW v, Stands(v), NEW n \in Int, NEW k \in 1 .. 3
  PROVE  ApplyRestExertion(v, n, k) \subseteq PlayerVitals
<1>1. /\ v \in PlayerVitals
      /\ v.exertion \in Int
      /\ v.vigor \in Int
      /\ v.threshold \in Whole
      /\ v.threshold \in Int
      /\ v.threshold >= 1
      /\ 0 \in Whole
  BY Fields, WholeIs, Wide, SMT DEF Stands, PlayerVitals
<1> DEFINE scaled == IF n < 0 THEN n * k ELSE n
           Rest(e) == Bound(Bound(v.vigor - Quot(e, ExertionPerVigor), 1, 200), 1, v.threshold)
<1>2. scaled \in Int
  OBVIOUS
<1>a. ASSUME NEW w \in ApplyRestExertion(v, n, k), w # v
      PROVE  \E e \in Checked(v.exertion + scaled) :
                \/ w = [v EXCEPT !.exertion = 0, !.vigor = Rest(e)]
                \/ w = [v EXCEPT !.exertion = e]
  BY <1>a, Zenon DEF ApplyRestExertion
<1> HIDE DEF scaled, Rest
<1> SUFFICES ASSUME NEW e \in Checked(v.exertion + scaled)
             PROVE  /\ [v EXCEPT !.exertion = 0, !.vigor = Rest(e)] \in PlayerVitals
                    /\ [v EXCEPT !.exertion = e] \in PlayerVitals
  BY <1>1, <1>a, Zenon
<1>3. e \in Int /\ e \in Whole
  BY <1>1, <1>2, CheckedWhole
<1>4. Rest(e) \in Whole
  <2>1. Quot(e, ExertionPerVigor) \in Int
    BY <1>3, QuotBy
  <2>2. Bound(v.vigor - Quot(e, ExertionPerVigor), 1, 200) \in Int
    BY <1>1, <2>1 DEF Bound
  <2> QED
    BY <1>1, <2>2, BoundWhole DEF Rest
<1>5. [v EXCEPT !.exertion = 0, !.vigor = Rest(e)] \in PlayerVitals
  BY <1>1, <1>4 DEF PlayerVitals
<1>6. [v EXCEPT !.exertion = e] \in PlayerVitals
  BY <1>1, <1>3, SetField
<1> QED
  BY <1>5, <1>6

LEMMA StomachWhole ==
  ASSUME NEW v, Stands(v), NEW n \in Int, NEW s \in DecayStomach(v.stomach, n)
  PROVE  [v EXCEPT !.stomach = s] \in PlayerVitals
<1>1. v \in PlayerVitals /\ v.stomach \in Int
  BY Fields DEF Stands
<1>2. PICK p \in Checked(n * 12) : s = Bound(v.stomach - p \div 100, 1, 100)
  BY DEF DecayStomach
<1>3. p \in Int
  BY CheckedWhole
<1>4. v.stomach - p \div 100 \in Int
  BY <1>1, <1>3, SMT
<1>5. 100 \in Whole
  BY Wide, WholeIs, SMT
<1>6. s \in Whole
  BY <1>2, <1>4, <1>5, BoundWhole
<1> QED
  BY <1>1, <1>6, SetField

-----------------------------------------------------------------------------
(* Death and its penalties. *)

LEMMA PostDeathWhole ==
  ASSUME NEW v, Stands(v), NEW d, NEW frenzy \in BOOLEAN, NEW angel \in BOOLEAN
  PROVE  PlanPostDeathVitals(v, d, frenzy, angel) \subseteq PlayerVitals
<1>1. /\ v \in PlayerVitals
      /\ v.max \in Whole /\ v.max \in Int /\ v.max >= 0
      /\ v.maxMana \in Whole /\ v.maxMana \in Int /\ v.maxMana >= 0
      /\ v.vigor \in Int
  BY Fields, WholeInt DEF Stands
<1>2. v.max =< MaxInt /\ v.maxMana =< MaxInt
  BY <1>1, WholeInt
<1> DEFINE tired == Bound(Bound(v.vigor \div 4, 0, 50), 1, 200)
           mana == IF angel THEN v.maxMana \div 2 + 2 ELSE 1
<1>3. v.max \div 2 \in Whole /\ v.maxMana \div 2 \in Whole
  BY <1>1, <1>2, Wide, WholeIs, SMT
<1>4. mana \in Whole
  <2>1. v.maxMana \div 2 + 2 \in Whole
    BY <1>1, <1>2, Wide, WholeIs, SMT
  <2>2. 1 \in Whole
    BY Wide, WholeIs, SMT
  <2> QED
    BY <2>1, <2>2
<1>5. tired \in Whole
  <2>1. Bound(v.vigor \div 4, 0, 50) \in Int
    BY <1>1, SMT DEF Bound
  <2>2. 200 \in Whole
    BY Wide, WholeIs, SMT
  <2> QED
    BY <2>1, <2>2, BoundWhole
<1>6. 1 \in Whole /\ 100 \in Whole
  BY Wide, WholeIs, SMT
<1> DEFINE raised == [v EXCEPT !.hp = v.max \div 2, !.mana = v.maxMana \div 2, !.vigor = 100]
           weak == [v EXCEPT !.hp = 1, !.mana = mana, !.vigor = tired]
<1>7. raised \in PlayerVitals
  <2> DEFINE hp == v.max \div 2
             half == v.maxMana \div 2
  <2>1. hp \in Whole /\ half \in Whole /\ raised = [v EXCEPT !.hp = hp, !.mana = half, !.vigor = 100]
    BY <1>3
  <2> HIDE DEF hp, half, raised
  <2> QED
    BY <1>1, <1>6, <2>1 DEF PlayerVitals
<1>8. weak \in PlayerVitals
  <2>1. weak = [v EXCEPT !.hp = 1, !.mana = mana, !.vigor = tired]
    OBVIOUS
  <2> HIDE DEF mana, tired, weak
  <2> QED
    BY <1>1, <1>4, <1>5, <1>6, <2>1 DEF PlayerVitals
<1>9. PlanPostDeathVitals(v, d, frenzy, angel) \subseteq {raised, weak}
  BY DEF PlanPostDeathVitals
<1> QED
  BY <1>7, <1>8, <1>9

LEMMA LowerWhole ==
  ASSUME NEW v, Stands(v), NEW stamina \in EffectiveAttr
  PROVE  LowerMaxima(v, stamina) \subseteq PlayerVitals
<1> SUFFICES ASSUME NEW w \in AdjustBaseMaxHP(v, -1, stamina)
             PROVE  AdjustMaxHP(w, w.baseMax - v.baseMax) \subseteq PlayerVitals
  BY DEF LowerMaxima
<1>1. w \in PlayerVitals
  BY BaseOpWhole
<1>2. CASE Valid(w)
  <2>1. Stands(w)
    BY <1>1, <1>2 DEF Stands
  <2>2. w.baseMax \in Int /\ v.baseMax \in Int
    BY <1>1, WholeInt DEF Stands, PlayerVitals
  <2> QED
    BY <2>1, <2>2, HealthOpsWhole, w.baseMax - v.baseMax \in Int
<1>3. CASE ~Valid(w)
  BY <1>3 DEF AdjustMaxHP
<1> QED
  BY <1>2, <1>3

LEMMA PenaltiesWhole ==
  ASSUME NEW v, Stands(v), NEW stamina \in EffectiveAttr, NEW cost,
         NEW newbie, NEW murderer
  PROVE  \A plan \in PlanDeathPenalties(cost, 100, FALSE, newbie, murderer, stamina, v, <<>>) :
            plan.vitals \in PlayerVitals
<1> SUFFICES ASSUME NEW plan \in PlanDeathPenalties(cost, 100, FALSE, newbie, murderer,
                                                   stamina, v, <<>>)
             PROVE  plan.vitals \in PlayerVitals
  OBVIOUS
<1>1. plan.vitals \in {v} \cup LowerMaxima(v, stamina)
  BY DEF PlanDeathPenalties
<1> QED
  BY <1>1, LowerWhole DEF Stands

-----------------------------------------------------------------------------
(* The intervals of the three timers can always be computed, and are at     *)
(* most a minute long.                                                      *)

Intervals == {n \in Int : 1 =< n /\ n =< 60000}

LEMMA IntervalIs ==
  ASSUME NEW n \in Int, NEW lo \in Int, 1 =< lo, lo =< 60000
  PROVE  Bound(n, lo, 60000) \in Intervals
BY SMT DEF Bound, Intervals

LEMMA EasedInt ==
  ASSUME NEW n \in Int, NEW p \in Int
  PROVE  Eased(n, p) \in Int
<1>1. n * (200 - p) \in Int
  OBVIOUS
<1> QED
  BY <1>1 DEF Eased

LEMMA HealthIntervalThere ==
  ASSUME NEW v, Stands(v), NEW in, ValidInputs(in)
  PROVE  HealthMs(v, in) # {} /\ HealthMs(v, in) \subseteq Intervals
<1>1. /\ v.vigor \in Vigors /\ v.max >= MinMaxHP /\ v.max \in Int
      /\ in.stamina \in EffectiveAttr /\ Power(in.restorate)
  BY WholeInt DEF Stands, Valid, PlayerVitals, ValidInputs
<1> DEFINE short == 200 - v.vigor
           square == short * short
           weight == square \div 6 + 1000
           product == (125 - in.stamina) * weight
           slow == product \div 100
           over == Bound(v.max, 40, 100)
           ms == (slow * 100) \div over - 0
<1>2. short \in 0 .. 199
  BY <1>1, SMT DEF Vigors
<1>3. square \in 0 .. 39601
  <2> HIDE DEF short
  <2>1. square \in 0 .. (199 * 199)
    BY <1>2, ProductBound
  <2> HIDE DEF square
  <2> QED
    BY <2>1, SMT
<1>4. weight \in 0 .. 7600
  <2> HIDE DEF square
  <2> QED
    BY <1>3, SMT
<1>5. product \in Nat /\ product =< 942400
  <2> DEFINE left == 125 - in.stamina
  <2>1. left \in 0 .. 124
    BY <1>1, SMT DEF EffectiveAttr
  <2>2. product = left * weight
    OBVIOUS
  <2> HIDE DEF weight, left, product
  <2>3. left * weight \in Nat /\ left * weight =< 124 * weight
    BY <1>4, <2>1, SMT
  <2>4. product \in Nat /\ product =< 124 * weight
    BY <2>2, <2>3
  <2>5. weight \in Nat /\ weight =< 7600
    BY <1>4, SMT
  <2> QED
    BY <2>4, <2>5, SMT
<1>6. slow \in Nat /\ slow =< 9424
  <2> HIDE DEF product
  <2> QED
    BY <1>5, SMT
<1>7. over \in Nat \ {0}
  BY <1>1, SMT DEF Bound
<1>8. Fits(ms) /\ ms \in Int
  <2> HIDE DEF slow, over
  <2>1. slow * 100 \in Nat /\ slow * 100 =< 942400
    BY <1>6, SMT
  <2>2. (slow * 100) \div over \in 0 .. (slow * 100)
    BY <1>7, <2>1, DivShrinks
  <2> DEFINE quotient == (slow * 100) \div over
  <2>3. quotient \in Int /\ 0 =< quotient /\ quotient =< 942400
    BY <2>1, <2>2, SMT
  <2> HIDE DEF quotient
  <2>4. MaxInt \in Nat /\ MaxInt >= 942400
    BY WideEnough, SMT
  <2>5. Fits(quotient - 0) /\ quotient - 0 \in Int
    BY <2>3, <2>4, SMT DEF Fits
  <2> QED
    BY <2>5 DEF quotient
<1>9. HealthMs(v, in) = IF in.restorate # 0 THEN ApplyRestorateAdjust(ms, in.restorate)
                        ELSE {Bound(ms, 1000, 60000)}
  BY <1>1, <1>8 DEF HealthMs, HealthRegenIntervalMs
<1> HIDE DEF ms
<1>10. in.restorate # 0 => /\ ApplyRestorateAdjust(ms, in.restorate) # {}
                           /\ ApplyRestorateAdjust(ms, in.restorate) \subseteq Intervals
  <2> SUFFICES ASSUME in.restorate \in 1 .. 99
               PROVE  /\ ApplyRestorateAdjust(ms, in.restorate) # {}
                      /\ ApplyRestorateAdjust(ms, in.restorate) \subseteq Intervals
    BY <1>1 DEF Power, SpellPower
  <2> DEFINE whole == Bound(ms, 1000, 60000) * (400 - (40 + in.restorate))
  <2>1. ApplyRestorateAdjust(ms, in.restorate) = {Bound(whole \div 400, 670, 60000)}
    BY DEF ApplyRestorateAdjust, SpellPower
  <2>2. Bound(ms, 1000, 60000) \in Int
    BY <1>8 DEF Bound
  <2>3. whole \in Int
    BY <2>2
  <2> HIDE DEF whole
  <2>4. whole \div 400 \in Int
    BY <2>3
  <2> QED
    BY <2>1, <2>4, IntervalIs
<1> QED
  BY <1>8, <1>9, <1>10, IntervalIs

LEMMA ManaIntervalThere ==
  ASSUME NEW v, Stands(v), NEW in, ValidInputs(in)
  PROVE  ManaMs(v, in) # {} /\ ManaMs(v, in) \subseteq Intervals
<1>1. /\ v.mana >= 0 /\ v.maxMana >= 1 /\ v.maxMana \in Nat \ {0}
      /\ v.vigor \in Vigors /\ v.vigor \in Nat \ {0}
      /\ in.mysticism \in EffectiveAttr /\ Power(in.rejuvenate) /\ Power(in.focus)
  BY Fields, WholeInt DEF Stands, Valid, PlayerVitals, ValidInputs, Vigors
<1> DEFINE base == 150000 + (25 - in.mysticism) * 1000
           share == (base * 200) \div v.vigor
           ms == share \div v.maxMana - 0
<1>2. base * 200 \in Nat /\ base * 200 =< 100000000
  BY <1>1, SMT DEF EffectiveAttr
<1>3. share \in 0 .. (base * 200)
  <2> HIDE DEF base
  <2> QED
    BY <1>1, <1>2, DivShrinks
<1>4. share \div v.maxMana \in 0 .. share
  <2> HIDE DEF base
  <2>1. share \in Nat
    <3> HIDE DEF share
    <3> QED
      BY <1>2, <1>3, SMT
  <2> HIDE DEF share
  <2> QED
    BY <1>1, <2>1, DivShrinks
<1>5. Fits(ms) /\ ms \in Int
  <2> DEFINE whole == base * 200
             quotient == share \div v.maxMana
  <2>1. whole \in Nat /\ whole =< MaxInt /\ share \in 0 .. whole /\ quotient \in 0 .. share
    BY <1>2, <1>3, <1>4, WideEnough, SMT
  <2> HIDE DEF whole, quotient, share
  <2>2. Fits(quotient - 0) /\ quotient - 0 \in Int
    BY <2>1, Wide, SMT DEF Fits
  <2> QED
    BY <2>2 DEF quotient
<1> HIDE DEF base, share, ms
<1> DEFINE plain == Bound(ms, 1000, 60000)
           fresh == IF in.rejuvenate = 0 THEN plain
                    ELSE Bound(Eased(plain, in.rejuvenate), 500, 60000)
<1>6. ManaMs(v, in) = IF v.mana > v.maxMana THEN {30000}
                      ELSE IF ~Fits(ms) THEN {}
                      ELSE IF in.focus = 0 THEN {fresh}
                      ELSE {Bound(Eased(fresh, in.focus), 500, 60000)}
  BY <1>1 DEF ManaMs, ManaRegenIntervalMs, ms, share, base
<1>7. in.rejuvenate \in Int /\ in.focus \in Int
  BY <1>1 DEF Power, SpellPower
<1>8. plain \in Intervals /\ plain \in Int
  BY <1>5, IntervalIs DEF Intervals
<1> HIDE DEF plain
<1>9. fresh \in Intervals /\ fresh \in Int
  <2>1. Bound(Eased(plain, in.rejuvenate), 500, 60000) \in Intervals
    <3>1. Eased(plain, in.rejuvenate) \in Int
      BY <1>7, <1>8, EasedInt
    <3> QED
      BY <3>1, IntervalIs, SMT
  <2> QED
    BY <1>8, <2>1 DEF Intervals
<1> HIDE DEF fresh
<1>10. Bound(Eased(fresh, in.focus), 500, 60000) \in Intervals
  <2>1. Eased(fresh, in.focus) \in Int
    BY <1>7, <1>9, EasedInt
  <2> QED
    BY <2>1, IntervalIs, SMT
<1>11. 30000 \in Intervals
  BY DEF Intervals
<1> QED
  BY <1>5, <1>6, <1>9, <1>10, <1>11

LEMMA RestIntervalThere ==
  ASSUME NEW in, ValidInputs(in)
  PROVE  RestMs(in) # {} /\ RestMs(in) \subseteq Intervals
<1>1. in.stamina \in EffectiveAttr /\ Power(in.invigorate)
  BY DEF ValidInputs
<1> DEFINE ms == 1000 + 30 * (51 - in.stamina)
<1>2. ms \in 430 .. 2500
  BY <1>1, SMT DEF EffectiveAttr
<1>3. RestMs(in) = IF in.invigorate = 0 THEN {ms} ELSE ApplyRejuvenateAdjust(ms, in.invigorate)
  BY <1>1 DEF RestMs, RestIntervalMs, ApplyInvigorateAdjust
<1> HIDE DEF ms
<1>4. ASSUME in.invigorate # 0
      PROVE  /\ ApplyRejuvenateAdjust(ms, in.invigorate) = {Eased(ms, in.invigorate)}
             /\ Eased(ms, in.invigorate) \in Intervals
  <2> DEFINE left == 200 - in.invigorate
             product == ms * left
  <2>1. in.invigorate \in SpellPower /\ left \in 101 .. 199
    BY <1>1, <1>4 DEF Power, SpellPower
  <2>2. ApplyRejuvenateAdjust(ms, in.invigorate) = {Eased(ms, in.invigorate)}
    BY <1>2, <2>1 DEF ApplyRejuvenateAdjust
  <2>3. Eased(ms, in.invigorate) = product \div 200
    BY DEF Eased
  <2> HIDE DEF left
  <2>4. product \in Int /\ ms * 101 =< product /\ product =< ms * 199
    BY <1>2, <2>1
  <2> HIDE DEF product
  <2>5. product >= 200 /\ product =< 1000000
    <3>1. ms \in Int /\ ms >= 430 /\ ms =< 2500
      BY <1>2, SMT
    <3> QED
      BY <2>4, <3>1, SMT
  <2>6. product \div 200 \in Int /\ 1 =< product \div 200 /\ product \div 200 =< 60000
    BY <2>4, <2>5, SMT
  <2> QED
    BY <2>2, <2>3, <2>6 DEF Intervals
<1>5. ms \in Intervals
  BY <1>2 DEF Intervals
<1> QED
  BY <1>3, <1>4, <1>5

-----------------------------------------------------------------------------
(* Every step a timer may take is accepted, and what it returns stands. *)

Accepted(outcomes) == outcomes # {} /\ \A w \in outcomes : Stands(w)

LEMMA HealthStepStands ==
  ASSUME NEW v, Stands(v)
  PROVE  Accepted(HealthStep(v))
<1>1. /\ Valid(v) /\ v \in PlayerVitals
      /\ v.hp \in Int /\ v.hp >= 0
      /\ v.max \in Int /\ v.max =< MaxInt
  BY Fields, WholeInt DEF Stands
<1>2. ASSUME v.hp < v.max
      PROVE  Accepted(GainHealthNormal(v, 1))
  <2> DEFINE w == [v EXCEPT !.hp = Bound(v.hp + 1, 0, v.max)]
  <2>1. Fits(v.hp + 1)
    BY <1>1, <1>2, Wide, SMT DEF Fits
  <2>2. ~(v.hp > v.max)
    BY <1>1, <1>2, SMT
  <2>3. GainHealthNormal(v, 1) = {w}
    BY <1>1, <2>1, <2>2 DEF GainHealthNormal, Checked
  <2>4. w \in PlayerVitals
    BY <2>3, HealthOpsWhole
  <2>5. Bound(v.hp + 1, 0, v.max) >= 0
    BY <1>1, <1>2, SMT DEF Bound
  <2>6. Valid(w)
    <3> DEFINE hp == Bound(v.hp + 1, 0, v.max)
    <3>1. w = [v EXCEPT !.hp = hp] /\ hp >= 0
      BY <2>5
    <3> HIDE DEF hp, w
    <3> QED
      BY <1>1, <3>1 DEF Valid, PlayerVitals
  <2> QED
    BY <2>3, <2>4, <2>6 DEF Accepted, Stands
<1>3. Accepted(LoseHealth(v, 1))
  <2> DEFINE w == [v EXCEPT !.hp = Bound(v.hp - 1, 0, v.hp)]
  <2>3. LoseHealth(v, 1) = {w}
    BY <1>1 DEF LoseHealth
  <2>4. w \in PlayerVitals
    BY <2>3, HealthOpsWhole
  <2>5. Bound(v.hp - 1, 0, v.hp) >= 0
    BY <1>1, SMT DEF Bound
  <2>6. Valid(w)
    <3> DEFINE hp == Bound(v.hp - 1, 0, v.hp)
    <3>1. w = [v EXCEPT !.hp = hp] /\ hp >= 0
      BY <2>5
    <3> HIDE DEF hp, w
    <3> QED
      BY <1>1, <3>1 DEF Valid, PlayerVitals
  <2> QED
    BY <2>3, <2>4, <2>6 DEF Accepted, Stands
<1>4. Accepted({v})
  BY DEF Accepted
<1>5. TimerStep(v.hp, v.max) = "gain" => v.hp < v.max
  BY DEF TimerStep
<1> QED
  BY <1>2, <1>3, <1>4, <1>5 DEF HealthStep, TimerStep

LEMMA ManaStepStands ==
  ASSUME NEW v, Stands(v)
  PROVE  Accepted(ManaStep(v))
<1>0. LoseMana(v, 1) \subseteq PlayerVitals /\ GainMana(v, 1, FALSE) \subseteq PlayerVitals
  <2>1. \A c \in BOOLEAN : LoseMana(v, 1) \subseteq PlayerVitals
                          /\ GainMana(v, 1, c) \subseteq PlayerVitals
    BY ManaOpsWhole
  <2> QED
    BY <2>1
<1>1. /\ Valid(v) /\ v \in PlayerVitals
      /\ v.mana \in Int /\ v.mana >= 0
      /\ v.maxMana \in Int /\ v.maxMana =< MaxInt
  BY Fields, WholeInt DEF Stands
<1>2. ASSUME v.mana < v.maxMana
      PROVE  Accepted(GainMana(v, 1, FALSE))
  <2> DEFINE mana == v.mana + 1
             w == [v EXCEPT !.mana = mana]
  <2>1. Fits(mana)
    BY <1>1, <1>2, Wide, SMT DEF Fits
  <2>3. GainMana(v, 1, FALSE) = {w}
    BY <1>1, <2>1 DEF GainMana, Checked
  <2>4. w \in PlayerVitals
    BY <1>0, <2>3
  <2>5. mana >= 0
    BY <1>1
  <2>6. Valid(w)
    <3>1. w = [v EXCEPT !.mana = mana]
      OBVIOUS
    <3> HIDE DEF mana, w
    <3> QED
      BY <1>1, <2>5, <3>1 DEF Valid, PlayerVitals
  <2> QED
    BY <2>3, <2>4, <2>6 DEF Accepted, Stands
<1>3. Accepted(LoseMana(v, 1))
  <2> DEFINE mana == Bound(v.mana - 1, 0, v.mana)
             w == [v EXCEPT !.mana = mana]
  <2>3. LoseMana(v, 1) = {w}
    BY <1>1 DEF LoseMana
  <2>4. w \in PlayerVitals
    BY <1>0, <2>3
  <2>5. mana >= 0
    BY <1>1, SMT DEF Bound
  <2>6. Valid(w)
    <3>1. w = [v EXCEPT !.mana = mana]
      OBVIOUS
    <3> HIDE DEF mana, w
    <3> QED
      BY <1>1, <2>5, <3>1 DEF Valid, PlayerVitals
  <2> QED
    BY <2>3, <2>4, <2>6 DEF Accepted, Stands
<1>4. Accepted({v})
  BY DEF Accepted
<1>5. TimerStep(v.mana, v.maxMana) = "gain" => v.mana < v.maxMana
  BY DEF TimerStep
<1> QED
  BY <1>2, <1>3, <1>4, <1>5 DEF ManaStep, TimerStep

LEMMA RestStepStands ==
  ASSUME NEW v, Stands(v), NEW in, ValidInputs(in)
  PROVE  Accepted(RestStep(v, in))
<1>1. /\ Valid(v) /\ v \in PlayerVitals
      /\ v.vigor \in Int /\ v.exertion \in -MaxExertion .. MaxExertion
      /\ v.threshold \in 10 .. 100
      /\ in.multiplier \in 1 .. 3
  BY Fields DEF Stands, ValidInputs
<1>2. ASSUME v.vigor < v.threshold
      PROVE  Accepted(ApplyRestExertion(v, -10000, in.multiplier))
  <2> DEFINE e == v.exertion + (-10000) * in.multiplier
             vigor == Bound(Bound(v.vigor - Quot(e, ExertionPerVigor), 1, 200), 1, v.threshold)
             rested == [v EXCEPT !.exertion = 0, !.vigor = vigor]
             saved == [v EXCEPT !.exertion = e]
  <2>1. e \in Int /\ Fits(e) /\ Fits((-10000) * in.multiplier)
    <3>1. (-10000) * in.multiplier \in Int /\ -30000 =< (-10000) * in.multiplier
          /\ (-10000) * in.multiplier =< 0
      BY <1>1, SMT
    <3>2. MaxExertion = 20000
      BY SMT DEF MaxExertion
    <3> DEFINE most == MaxExertion
    <3>3. most \in Int /\ v.exertion \in Int /\ -most =< v.exertion /\ v.exertion =< most
      <4>1. most \in Int
        BY <3>2
      <4> HIDE DEF most
      <4>2. v.exertion \in -most .. most
        BY <1>1 DEF most
      <4> QED
        BY <4>1, <4>2, SMT
    <3> QED
      BY <3>1, <3>2, <3>3, WideEnough, SMT DEF Fits
  <2>2. ApplyRestExertion(v, -10000, in.multiplier) =
           {IF e > MaxExertion \/ e < -MaxExertion THEN rested ELSE saved}
    <3> DEFINE n == -10000
    <3>1. n < 0 /\ ~(v.vigor > v.threshold)
      BY <1>1, <1>2, SMT
    <3>2. {s \in Checked(e) : Fits(n * in.multiplier)} = {e}
      BY <2>1 DEF Checked
    <3>3. e = v.exertion + n * in.multiplier
      OBVIOUS
    <3> HIDE DEF n, e
    <3> DEFINE sums == {s \in Checked(e) : Fits(n * in.multiplier)}
               After(x) ==
                 IF x > MaxExertion \/ x < -MaxExertion
                 THEN [v EXCEPT !.exertion = 0,
                                !.vigor = Bound(Bound(v.vigor - Quot(x, ExertionPerVigor), 1, 200),
                                                1, v.threshold)]
                 ELSE [v EXCEPT !.exertion = x]
    <3>4. ApplyRestExertion(v, n, in.multiplier) = {After(x) : x \in sums}
      BY <1>1, <3>1, <3>3, Zenon DEF ApplyRestExertion
    <3>5. ApplyRestExertion(v, n, in.multiplier) = {After(e)}
      <4>1. sums = {e}
        BY <3>2
      <4> HIDE DEF sums, After
      <4> QED
        BY <3>4, <4>1
    <3>6. After(e) = IF e > MaxExertion \/ e < -MaxExertion THEN rested ELSE saved
      OBVIOUS
    <3> HIDE DEF After
    <3> QED
      BY <3>5, <3>6 DEF n
  <2>3. vigor \in 1 .. 200
    <3>1. Quot(e, ExertionPerVigor) \in Int
      BY <2>1, QuotBy
    <3>2. Bound(v.vigor - Quot(e, ExertionPerVigor), 1, 200) \in Int
      BY <1>1, <3>1 DEF Bound
    <3> QED
      BY <1>1, <3>2, SMT DEF Bound
  <2>4. e > MaxExertion \/ e < -MaxExertion \/ e \in -MaxExertion .. MaxExertion
    <3>1. MaxExertion \in Int
      BY SMT DEF MaxExertion
    <3> HIDE DEF e
    <3> QED
      BY <2>1, <3>1, SMT
  <2>5. Valid(rested)
    <3>1. rested = [v EXCEPT !.exertion = 0, !.vigor = vigor]
      OBVIOUS
    <3>2. 0 \in -MaxExertion .. MaxExertion
      BY SMT DEF MaxExertion
    <3> HIDE DEF vigor, rested
    <3> QED
      BY <1>1, <2>3, <3>1, <3>2 DEF Valid, PlayerVitals, Vigors
  <2>6. ASSUME e \in -MaxExertion .. MaxExertion
        PROVE  Valid(saved)
    <3>1. saved = [v EXCEPT !.exertion = e]
      OBVIOUS
    <3> HIDE DEF e, saved
    <3> QED
      BY <1>1, <2>6, <3>1 DEF Valid, PlayerVitals
  <2>7. ApplyRestExertion(v, -10000, in.multiplier) \subseteq PlayerVitals
    BY <1>1, RestWhole
  <2> HIDE DEF e, rested, saved
  <2> QED
    BY <2>2, <2>4, <2>5, <2>6, <2>7 DEF Accepted, Stands
<1>3. Accepted({v})
  BY DEF Accepted
<1> QED
  BY <1>2, <1>3 DEF RestStep

-----------------------------------------------------------------------------
(* The inductive invariant: what is stored, and what is being stored, stand *)
(* and are of the code's width.                                             *)

Clocked == {tick, anchor} \subseteq 0 .. Modulus - 1

IInv ==
    /\ Stands(vitals)
    /\ inputs \in Inputs
    /\ Clocked
    /\ life = "DeathPenaltyPersisting" => Stands(planned)

LEMMA SetInputs == ASSUME NEW in \in Inputs PROVE ValidInputs(in)
BY InputsAreValid

LEMMA InitStands == Init => IInv
<1> SUFFICES ASSUME Init PROVE IInv
  OBVIOUS
<1>1. Stands(vitals)
  BY VitalsConstants DEF Init, Stands
<1>2. Clocked
  BY VitalsConstants DEF Init, Clocked
<1> QED
  BY <1>1, <1>2 DEF Init, IInv

(* The timers of one tick, in their order.                                  *)
LEMMA StepStands ==
  ASSUME IInv, Step
  PROVE  IInv'
<1>1. ValidInputs(inputs)
  BY SetInputs DEF IInv
<1>2. ASSUME NEW outcomes, Accepted(outcomes)
      PROVE  Stands(The(outcomes))
  BY <1>2 DEF The, Accepted
<1>3. \A t : Stands(AfterHealth(t))
  BY <1>2, HealthStepStands DEF AfterHealth, IInv
<1>4. \A t, v : Stands(v) => Stands(AfterMana(v, t))
  BY <1>2, ManaStepStands DEF AfterMana
<1>5. \A t, v : Stands(v) => Stands(AfterRest(v, t))
  BY <1>1, <1>2, RestStepStands DEF AfterRest
<1>6. Stands(vitals)'
  <2>1. CASE Quiescent
    BY <2>1 DEF Step, IInv
  <2>2. CASE ~Quiescent
    <3>1. vitals' = AfterRest(AfterMana(AfterHealth(tick'), tick'), tick')
      BY <2>2 DEF Step, StepRuntime
    <3>2. Stands(vitals')
      BY <1>3, <1>4, <1>5, <3>1
    <3> QED
      BY <3>2 DEF Stands
  <2> QED
    BY <2>1, <2>2
<1>7. Clocked'
  <2>1. tick' = (tick + 1) % Modulus /\ anchor' = anchor
    BY DEF Step, frame
  <2>2. tick + 1 \in Int
    BY DEF IInv, Clocked
  <2> QED
    BY <2>1, <2>2, VitalsConstants DEF IInv, Clocked
<1> QED
  BY <1>6, <1>7 DEF Step, frame, IInv, Stands

(* What an operation commits.                                               *)
LEMMA CommitStands ==
  ASSUME NEW outcomes, outcomes \subseteq PlayerVitals, Commit(outcomes)
  PROVE  Stands(vitals)'
BY DEF Commit, Stands

LEMMA OperationStands ==
  ASSUME IInv, Operation
  PROVE  IInv'
<1>a. /\ Stands(vitals) /\ inputs \in Inputs /\ ValidInputs(inputs)
      /\ inputs.stamina \in EffectiveAttr /\ inputs.multiplier \in 1 .. 3
      /\ Amounts \subseteq Int /\ Blows \subseteq Int /\ Settings \subseteq Int
  BY SetInputs, VitalsConstants DEF IInv, ValidInputs
<1>b. ASSUME Stands(vitals)', UNCHANGED <<tick, inputs, anchor, life, planned>>
      PROVE  IInv'
  BY <1>b DEF IInv, Clocked, Stands
<1>c. ASSUME NEW outcomes, outcomes \subseteq PlayerVitals,
             ChangesHealth(outcomes) \/ ChangesMana(outcomes) \/ ChangesNoPool(outcomes)
      PROVE  IInv'
  <2>1. Commit(outcomes) /\ UNCHANGED <<tick, inputs, anchor, life, planned>>
    BY <1>c DEF ChangesHealth, ChangesMana, ChangesNoPool, Operates, frame
  <2> QED
    BY <1>b, <1>c, <2>1, CommitStands
<1>1. CASE PlayerLoseHealth \/ PlayerGainHealthNormal \/ PlayerGainHealthOvercap \/ PlayerAdjustMaxHP
  BY <1>1, <1>a, <1>c, HealthOpsWhole
     DEF PlayerLoseHealth, PlayerGainHealthNormal, PlayerGainHealthOvercap, PlayerAdjustMaxHP
<1>2. CASE PlayerAdjustBaseMaxHP
  BY <1>2, <1>a, <1>c, BaseOpWhole DEF PlayerAdjustBaseMaxHP
<1>3. CASE PlayerLoseMana \/ PlayerGainMana \/ PlayerAdjustMaxMana
  <2>1. \A n \in Int : /\ LoseMana(vitals, n) \subseteq PlayerVitals
                       /\ AdjustMaxMana(vitals, n) \subseteq PlayerVitals
                       /\ \A c \in BOOLEAN : GainMana(vitals, n, c) \subseteq PlayerVitals
    <3>1. \A n \in Int, c \in BOOLEAN : /\ LoseMana(vitals, n) \subseteq PlayerVitals
                                      /\ AdjustMaxMana(vitals, n) \subseteq PlayerVitals
                                      /\ GainMana(vitals, n, c) \subseteq PlayerVitals
      BY <1>a, ManaOpsWhole
    <3> QED
      BY <3>1
  <2> QED
    BY <1>3, <1>a, <1>c, <2>1 DEF PlayerLoseMana, PlayerGainMana, PlayerAdjustMaxMana
<1>4. CASE PlayerApplyExertion
  <2>1. PICK n \in Amounts, b \in BOOLEAN :
           ChangesNoPool(ApplyExertion(vitals, n * MaxExertion, b))
    BY <1>4 DEF PlayerApplyExertion
  <2>2. n * MaxExertion \in Int
    BY <1>a, SMT DEF MaxExertion
  <2> QED
    BY <1>a, <1>c, <2>1, <2>2, VigorOpsWhole
<1>5. CASE PlayerApplyRestExertion
  <2>1. PICK n \in Amounts :
           ChangesNoPool(ApplyRestExertion(vitals, n * MaxExertion, inputs.multiplier))
    BY <1>5 DEF PlayerApplyRestExertion
  <2>2. n * MaxExertion \in Int
    BY <1>a, SMT DEF MaxExertion
  <2> QED
    BY <1>a, <1>c, <2>1, <2>2, RestWhole
<1>6. CASE PlayerSetRestThreshold
  <2>1. PICK n \in Settings : ChangesNoPool(SetRestThreshold(vitals, n))
    BY <1>6 DEF PlayerSetRestThreshold
  <2>2. \A b \in BOOLEAN : SetRestThreshold(vitals, n) \subseteq PlayerVitals
    BY <1>a, VigorOpsWhole
  <2> QED
    BY <1>c, <2>1, <2>2
<1>7. CASE PlayerUpdateStomach
  <2> DEFINE elapsed == (tick - anchor) % Modulus
             seconds == elapsed \div TickHz
             eaten == {[vitals EXCEPT !.stomach = s] : s \in DecayStomach(vitals.stomach, seconds)}
  <2>1. Commit(eaten) /\ anchor' = (anchor + seconds * TickHz) % Modulus
        /\ UNCHANGED <<tick, inputs, life, planned>>
    BY <1>7 DEF PlayerUpdateStomach, Operates
  <2>2. elapsed \in Int /\ TickHz \in Int /\ TickHz > 0
    BY VitalsConstants DEF IInv, Clocked
  <2>3. seconds \in Int
    <3> HIDE DEF elapsed
    <3> QED
      BY <2>2, SMT
  <2> HIDE DEF seconds
  <2>4. eaten \subseteq PlayerVitals
    BY <1>a, <2>3, StomachWhole
  <2>5. Stands(vitals)'
    BY <2>1, <2>4, CommitStands
  <2>6. Clocked'
    <3>1. anchor + seconds * TickHz \in Int
      BY <2>2, <2>3 DEF IInv, Clocked
    <3> DEFINE sum == anchor + seconds * TickHz
    <3> HIDE DEF sum
    <3>2. sum % Modulus \in 0 .. Modulus - 1
      BY <3>1, VitalsConstants, SMT DEF sum
    <3> QED
      BY <2>1, <3>2 DEF IInv, Clocked, sum
  <2> QED
    BY <2>1, <2>5, <2>6 DEF IInv, Stands
<1>8. CASE PlayerSetVitalsRuntimeInputs
  BY <1>8 DEF PlayerSetVitalsRuntimeInputs, Operates, IInv, Clocked, Stands
<1>9. CASE PlayerStartResting \/ PlayerStopResting \/ PlayerMarkActed
  BY <1>9, <1>b, <1>a
     DEF PlayerStartResting, PlayerStopResting, PlayerMarkActed, Operates, frame, Stands
<1> QED
  BY <1>1, <1>2, <1>3, <1>4, <1>5, <1>6, <1>7, <1>8, <1>9 DEF Operation

LEMMA DeathStands ==
  ASSUME IInv, Death
  PROVE  IInv'
<1>a. Stands(vitals) /\ inputs \in Inputs /\ inputs.stamina \in EffectiveAttr
  BY SetInputs DEF IInv, ValidInputs
<1>1. CASE PlayerBeginDeathPersistence
  BY <1>1 DEF PlayerBeginDeathPersistence, Operates, IInv, Clocked, Stands
<1>2. CASE AvoidDeath
  <2> DEFINE outcomes == {[vitals EXCEPT !.hp = 1]}
  <2>1. outcomes \subseteq PlayerVitals
    <3>1. 1 \in Whole
      BY Wide, WholeIs, SMT
    <3> QED
      BY <1>a, <3>1, SetField DEF Stands
  <2>2. Commit(outcomes) /\ UNCHANGED <<tick, inputs, anchor, life, planned>>
    BY <1>2 DEF AvoidDeath, ChangesHealth, Operates, frame
  <2>3. Stands(vitals)'
    BY <2>1, <2>2, CommitStands
  <2> QED
    BY <2>2, <2>3 DEF IInv, Clocked, Stands
<1>3. CASE PlayerInstallPostDeathState
  <2>1. PICK d \in {"cheap", "normal"}, frenzy \in BOOLEAN, angel \in BOOLEAN, in \in Inputs :
           \E w \in PlanPostDeathVitals(vitals, d, frenzy, angel) :
              Valid(w) /\ vitals' = w /\ InitPlayerRuntime(w, in, tick)
    BY <1>3 DEF PlayerInstallPostDeathState
  <2>2. PICK w \in PlanPostDeathVitals(vitals, d, frenzy, angel) :
           Valid(w) /\ vitals' = w /\ InitPlayerRuntime(w, in, tick)
    BY <2>1
  <2>3. Stands(w)
    BY <1>a, <2>2, PostDeathWhole DEF Stands
  <2>4. inputs' \in Inputs /\ tick' = tick /\ anchor' = tick /\ life' = "AwaitingRespawn"
    BY <1>3, <2>2 DEF PlayerInstallPostDeathState, InitPlayerRuntime
  <2> QED
    BY <2>2, <2>3, <2>4 DEF IInv, Clocked, Stands
<1>4. CASE PlayerReleaseRespawn
  BY <1>4 DEF PlayerReleaseRespawn, timers, IInv, Clocked, Stands
<1>5. CASE BeginDeathPenalties
  <2>1. PICK cost \in Costs, newbie \in BOOLEAN, murderer \in BOOLEAN :
           \E plan \in PlanDeathPenalties(cost, 100, FALSE, newbie, murderer,
                                          inputs.stamina, vitals, <<>>) :
              Valid(plan.vitals) /\ planned' = plan.vitals
    BY <1>5 DEF BeginDeathPenalties
  <2>2. PICK plan \in PlanDeathPenalties(cost, 100, FALSE, newbie, murderer,
                                        inputs.stamina, vitals, <<>>) :
           Valid(plan.vitals) /\ planned' = plan.vitals
    BY <2>1
  <2>3. plan.vitals \in PlayerVitals
    <3>1. \A p \in PlanDeathPenalties(cost, 100, FALSE, newbie, murderer,
                                     inputs.stamina, vitals, <<>>) : p.vitals \in PlayerVitals
      BY <1>a, PenaltiesWhole
    <3> QED
      BY <3>1
  <2>4. Stands(planned')
    BY <2>2, <2>3 DEF Stands
  <2> QED
    BY <1>5, <2>4 DEF BeginDeathPenalties, Operates, timers, IInv, Clocked, Stands
<1>6. CASE AcceptDeathPenalties
  BY <1>6 DEF AcceptDeathPenalties, IInv, Clocked, Stands
<1> QED
  BY <1>1, <1>2, <1>3, <1>4, <1>5, <1>6 DEF Death

LEMMA IInvHolds == Spec => []IInv
<1>1. IInv /\ [Next]_vars => IInv'
  <2> SUFFICES ASSUME IInv, [Next]_vars PROVE IInv'
    OBVIOUS
  <2>1. CASE UNCHANGED vars
    BY <2>1 DEF vars, IInv, Clocked, Stands
  <2>2. CASE Next
    BY <2>2, StepStands, OperationStands, DeathStands DEF Next
  <2> QED
    BY <2>1, <2>2
<1> QED
  BY <1>1, InitStands, PTL DEF Spec

(* Whatever operations, timers and deaths do, the runtime never gets into   *)
(* the state its comments call impossible and its code panics in: the       *)
(* stored vitals are valid, every interval can be computed, and every step  *)
(* a timer may take is accepted and leads to valid vitals.                  *)
THEOREM StoredVitalsStand == Spec => []NeverImpossible
<1>1. IInv => NeverImpossible
  <2> SUFFICES ASSUME IInv PROVE NeverImpossible
    OBVIOUS
  <2>1. Stands(vitals) /\ ValidInputs(inputs)
    BY SetInputs DEF IInv
  <2>2. HealthMs(vitals, inputs) # {} /\ ManaMs(vitals, inputs) # {} /\ RestMs(inputs) # {}
    BY <2>1, HealthIntervalThere, ManaIntervalThere, RestIntervalThere
  <2>3. /\ Accepted(HealthStep(vitals))
        /\ Accepted(ManaStep(vitals))
        /\ Accepted(RestStep(vitals, inputs))
    BY <2>1, HealthStepStands, ManaStepStands, RestStepStands
  <2> QED
    BY <2>1, <2>2, <2>3 DEF NeverImpossible, Accepted, Stands
<1> QED
  BY <1>1, IInvHolds, PTL

-----------------------------------------------------------------------------
(* Deadlines on the circle of ticks *)

Ticks == 0 .. Modulus - 1

(* How far a lies after b on the circle.                                    *)
Gap(a, b) == IF a >= b THEN a - b ELSE a - b + Modulus

(* The longest a timer runs: a minute.                                      *)
Longest == 60 * TickHz

(* Both fit in half the circle: how far ahead a deadline can lie, and how   *)
(* far behind a penalty being stored can leave it.                          *)
HalfRange == Longest < Modulus \div 2 /\ MaxHeld =< Modulus \div 2

LEMMA CircleFacts ==
  /\ Modulus \in Nat \ {0} /\ Modulus \div 2 \in Nat
  /\ Modulus - 2 * (Modulus \div 2) \in {0, 1}
  /\ Longest \in Nat \ {0} /\ TickHz \in Nat \ {0} /\ MaxHeld \in Nat /\ Off \notin Ticks
BY VitalsConstants, SMT DEF Longest, Ticks

LEMMA Wrap ==
  ASSUME NEW n \in Int, -Modulus < n, n < 2 * Modulus
  PROVE  n % Modulus = IF n < 0 THEN n + Modulus ELSE IF n < Modulus THEN n ELSE n - Modulus
<1>1. \A r \in 0 .. Modulus - 1 : \A q \in {-1, 0, 1} : (q * Modulus + r) % Modulus = r
  BY CircleFacts, SMTT(30)
<1>2. CASE n < 0
  <2>1. n + Modulus \in 0 .. Modulus - 1 /\ n = (-1) * Modulus + (n + Modulus)
    BY <1>2, CircleFacts
  <2> QED
    BY <1>1, <1>2, <2>1
<1>3. CASE n >= 0 /\ n < Modulus
  <2>1. n \in 0 .. Modulus - 1 /\ n = 0 * Modulus + n
    BY <1>3, CircleFacts
  <2> QED
    BY <1>1, <1>3, <2>1
<1>4. CASE n >= Modulus
  <2>1. n - Modulus \in 0 .. Modulus - 1 /\ n = 1 * Modulus + (n - Modulus)
    BY <1>4, CircleFacts
  <2> QED
    BY <1>1, <1>4, <2>1, CircleFacts
<1> QED
  BY <1>2, <1>3, <1>4, CircleFacts

LEMMA GapIs ==
  ASSUME NEW a \in Ticks, NEW b \in Ticks
  PROVE  (a - b) % Modulus = Gap(a, b) /\ Gap(a, b) \in 0 .. Modulus - 1
<1>1. a - b \in Int /\ -Modulus < a - b /\ a - b < Modulus
  BY CircleFacts DEF Ticks
<1>2. (a - b) % Modulus = IF a - b < 0 THEN a - b + Modulus ELSE a - b
  BY <1>1, Wrap, CircleFacts
<1> QED
  BY <1>1, <1>2, CircleFacts DEF Gap, Ticks

LEMMA NextTick ==
  ASSUME NEW t \in Ticks
  PROVE  (t + 1) % Modulus = (IF t + 1 = Modulus THEN 0 ELSE t + 1) /\ (t + 1) % Modulus \in Ticks
<1>1. t + 1 \in Int /\ -Modulus < t + 1 /\ t + 1 < 2 * Modulus /\ ~(t + 1 < 0) /\ t + 1 =< Modulus
  BY CircleFacts DEF Ticks
<1> QED
  BY <1>1, Wrap, CircleFacts DEF Ticks

(* A deadline ahead of t by no more than an interval, and one that lies     *)
(* fewer than n ticks back.                                                 *)
Ahead(due, t) == due \in Ticks /\ Gap(due, t) \in 1 .. Longest
Behind(due, t, n) == due \in Ticks /\ Gap(t, due) < n

LEMMA AfterWhenAhead ==
  ASSUME HalfRange, NEW t \in Ticks, NEW due, Ahead(due, t)
  PROVE  S!After(Modulus, due, t)
<1>1. (due - t) % Modulus = Gap(due, t) /\ Gap(due, t) \in Int
  BY GapIs DEF Ahead
<1> QED
  BY <1>1, CircleFacts DEF S!After, Ahead, HalfRange

LEMMA DueWhenBehind ==
  ASSUME HalfRange, NEW t \in Ticks, NEW due, Behind(due, t, MaxHeld + 1)
  PROVE  SlotDue(due, t)
<1>1. (due - t) % Modulus = Gap(due, t) /\ due \in Ticks /\ due # Off
  BY GapIs, CircleFacts DEF Behind
<1>2. ~(Gap(due, t) # 0 /\ Gap(due, t) < Modulus \div 2)
  BY CircleFacts DEF Behind, Gap, HalfRange, Ticks
<1> QED
  BY <1>1, <1>2 DEF S!After, SlotDue

(* A tick brings a deadline ahead closer, or makes it due; one behind falls *)
(* one tick further back.                                                   *)
LEMMA AheadTicks ==
  ASSUME HalfRange, NEW t \in Ticks, NEW due, Ahead(due, t), NEW u, u = (t + 1) % Modulus
  PROVE  Ahead(due, u) \/ Behind(due, u, 1)
<1>1. u = (IF t + 1 = Modulus THEN 0 ELSE t + 1) /\ u \in Ticks
  BY NextTick
<1> QED
  BY <1>1, CircleFacts DEF Ahead, Behind, Gap, HalfRange, Ticks

LEMMA BehindTicks ==
  ASSUME HalfRange, NEW t \in Ticks, NEW n \in 0 .. MaxHeld, NEW due, Behind(due, t, n),
         NEW u, u = (t + 1) % Modulus
  PROVE  Behind(due, u, n + 1)
<1>1. u = (IF t + 1 = Modulus THEN 0 ELSE t + 1) /\ u \in Ticks
  BY NextTick
<1> QED
  BY <1>1, CircleFacts DEF Behind, Gap, HalfRange, Ticks

-----------------------------------------------------------------------------
(* A timer that is armed now is due within a minute *)

(* Not armed, or ahead.                                                     *)
Fresh(due, t) == due = Off \/ Ahead(due, t)

LEMMA ArmedAhead ==
  ASSUME HalfRange, NEW t \in Ticks, NEW interval, interval # {}, interval \subseteq Intervals
  PROVE  Ahead(Due(t, interval), t)
<1> DEFINE ms == The(interval)
           c == CastTicks(ms)
           whole == ms * TickHz
<1>1. ms \in Int /\ 1 =< ms /\ ms =< 60000
  <2>1. ms \in interval
    BY DEF The
  <2>2. ms \in Intervals
    BY <2>1
  <2> QED
    BY <2>2 DEF Intervals
<1>2. whole \in Int /\ 1 =< whole /\ whole =< 60000 * TickHz
  <2> HIDE DEF ms
  <2> QED
    BY <1>1, CircleFacts
<1>3. c = (whole + 999) \div 1000
  BY DEF CastTicks
<1>4. c \in 1 .. Longest
  <2> HIDE DEF whole, c, ms
  <2> QED
    BY <1>2, <1>3, CircleFacts DEF Longest
<1>5. Due(t, interval) = (t + c) % Modulus
  BY DEF Due
<1> HIDE DEF c, ms, whole
<1>6. Longest < Modulus
  BY CircleFacts DEF HalfRange
<1>7. (t + c) % Modulus = IF t + c < Modulus THEN t + c ELSE t + c - Modulus
  BY <1>4, <1>6, Wrap, CircleFacts DEF Ticks
<1> QED
  BY <1>4, <1>5, <1>6, <1>7, CircleFacts DEF Ahead, Gap, Ticks

LEMMA ReconcileHealthKeeps ==
  ASSUME HalfRange, NEW t \in Ticks, NEW v, Stands(v), NEW in, ValidInputs(in), NEW due
  PROVE  ReconcileHealth(due, v, in, t) = due \/ Fresh(ReconcileHealth(due, v, in, t), t)
<1>1. Ahead(Due(t, HealthMs(v, in)), t)
  BY HealthIntervalThere, ArmedAhead
<1> QED
  BY <1>1 DEF ReconcileHealth, Fresh

LEMMA ReconcileManaKeeps ==
  ASSUME HalfRange, NEW t \in Ticks, NEW v, Stands(v), NEW in, ValidInputs(in), NEW due
  PROVE  ReconcileMana(due, v, in, t) = due \/ Fresh(ReconcileMana(due, v, in, t), t)
<1>1. Ahead(Due(t, ManaMs(v, in)), t)
  BY ManaIntervalThere, ArmedAhead
<1> QED
  BY <1>1 DEF ReconcileMana, Fresh

LEMMA RestAhead ==
  ASSUME HalfRange, NEW t \in Ticks, NEW in, ValidInputs(in)
  PROVE  Fresh(Due(t, RestMs(in)), t)
BY RestIntervalThere, ArmedAhead DEF Fresh

-----------------------------------------------------------------------------
(* The invariant of the deadlines *)

(* Ahead, but for the ticks a penalty was being stored: those may lie       *)
(* behind until the next tick after it, and the debt is paid by then.       *)
Timed(due) ==
  \/ Fresh(due, tick)
  \/ life = "DeathPenaltyPersisting" /\ Behind(due, tick, held)
  \/ life # "DeathPenaltyPersisting" /\ ~owes /\ Behind(due, tick, MaxHeld)

TimersOK ==
  /\ held \in 0 .. MaxHeld
  /\ life # "DeathPenaltyPersisting" => held = 0
  /\ life = "DeathPersisting" => healthDue = Off /\ manaDue = Off /\ restDue = Off
  /\ Timed(healthDue) /\ Timed(manaDue) /\ Timed(restDue)

LEMMA TimersInit == HalfRange /\ Init => TimersOK
<1> SUFFICES ASSUME HalfRange, Init PROVE TimersOK
  OBVIOUS
<1>1. IInv /\ Stands(vitals) /\ ValidInputs(inputs) /\ tick \in Ticks
  BY InitStands, SetInputs DEF IInv, Clocked, Ticks
<1>2. Fresh(healthDue, tick) /\ Fresh(manaDue, tick) /\ Fresh(restDue, tick)
  BY <1>1, ReconcileHealthKeeps, ReconcileManaKeeps DEF Init, Fresh
<1> QED
  BY <1>2, CircleFacts DEF Init, TimersOK, Timed

(* A tick of the timers fires whatever is not ahead any more.               *)
LEMMA Fired ==
  ASSUME HalfRange, IInv, TimersOK, ~Quiescent, NEW u, u = (tick + 1) % Modulus,
         NEW due \in {healthDue, manaDue, restDue}
  PROVE  SlotDue(due, u) \/ Fresh(due, u)
<1>1. tick \in Ticks /\ u \in Ticks
  BY NextTick DEF IInv, Clocked, Ticks
<1>2. Timed(due) /\ life # "DeathPenaltyPersisting"
  BY DEF TimersOK, Quiescent
<1>3. CASE Ahead(due, tick)
  <2>1. Behind(due, u, 1) => Behind(due, u, MaxHeld + 1)
    BY <1>1, CircleFacts, GapIs DEF Behind
  <2> QED
    BY <1>1, <1>3, <2>1, AheadTicks, DueWhenBehind DEF Fresh
<1>4. CASE Behind(due, tick, MaxHeld)
  <2>1. Behind(due, u, MaxHeld + 1)
    BY <1>1, <1>4, BehindTicks, CircleFacts
  <2> QED
    BY <1>1, <2>1, DueWhenBehind
<1> QED
  BY <1>2, <1>3, <1>4 DEF Timed, Fresh

LEMMA StepTimes ==
  ASSUME HalfRange, IInv, TimersOK, Step
  PROVE  TimersOK'
<1>1. /\ tick \in Ticks /\ tick' = (tick + 1) % Modulus /\ tick' \in Ticks
      /\ life' = life /\ owes' = owes
  BY NextTick DEF IInv, Clocked, Ticks, Step, frame
<1>2. /\ held' \in 0 .. MaxHeld
      /\ life = "DeathPenaltyPersisting" => held < MaxHeld /\ held' = held + 1
      /\ life # "DeathPenaltyPersisting" => held' = 0
  BY CircleFacts DEF Step, TimersOK
<1>3. CASE life = "DeathPenaltyPersisting"
  <2>1. UNCHANGED timers
    BY <1>3 DEF Step, Quiescent
  <2>2. ASSUME NEW due, Timed(due)
        PROVE  Fresh(due, tick') \/ Behind(due, tick', held')
    <3>1. CASE Ahead(due, tick)
      <4>1. Behind(due, tick', 1) => Behind(due, tick', held')
        BY <1>1, <1>2, <1>3, CircleFacts, GapIs DEF Behind, TimersOK
      <4> QED
        BY <1>1, <3>1, <4>1, AheadTicks DEF Fresh
    <3>2. CASE Behind(due, tick, held)
      <4>1. Behind(due, tick', held + 1)
        BY <1>1, <3>2, BehindTicks DEF TimersOK
      <4> QED
        BY <1>2, <1>3, <4>1
    <3> QED
      BY <1>3, <2>2, <3>1, <3>2 DEF Timed, Fresh
  <2> QED
    BY <1>1, <1>2, <1>3, <2>1, <2>2 DEF TimersOK, Timed, timers
<1>4. CASE life = "DeathPersisting"
  BY <1>1, <1>2, <1>4 DEF Step, Quiescent, timers, TimersOK, Timed, Fresh
<1>5. CASE ~Quiescent
  <2>1. StepRuntime(tick')
    BY <1>5 DEF Step
  <2>2. ValidInputs(inputs)
    BY SetInputs DEF IInv
  <2>3. \A t : Stands(AfterHealth(t))
    BY HealthStepStands DEF AfterHealth, The, Accepted, IInv
  <2>4. \A t, v : Stands(v) => Stands(AfterMana(v, t))
    BY ManaStepStands DEF AfterMana, The, Accepted
  <2>5. Fresh(healthDue', tick')
    <3>1. Fresh(ReconcileHealth(Off, AfterHealth(tick'), inputs, tick'), tick')
      BY <1>1, <2>2, <2>3, ReconcileHealthKeeps DEF Fresh
    <3> QED
      BY <1>1, <1>5, <2>1, <3>1, Fired DEF StepRuntime
  <2>6. Fresh(manaDue', tick')
    <3>1. Fresh(ReconcileMana(Off, AfterMana(AfterHealth(tick'), tick'), inputs, tick'), tick')
      BY <1>1, <2>2, <2>3, <2>4, ReconcileManaKeeps DEF Fresh
    <3> QED
      BY <1>1, <1>5, <2>1, <3>1, Fired DEF StepRuntime
  <2>7. Fresh(restDue', tick')
    BY <1>1, <1>5, <2>1, <2>2, Fired, RestAhead DEF StepRuntime
  <2> QED
    BY <1>1, <1>2, <1>5, <2>5, <2>6, <2>7 DEF TimersOK, Timed, Quiescent
<1> QED
  BY <1>3, <1>4, <1>5 DEF Quiescent

(* An operation leaves a deadline, clears it or arms the timer anew.        *)
LEMMA OperationTimes ==
  ASSUME HalfRange, IInv, IInv', TimersOK, Operation \/ AvoidDeath
  PROVE  TimersOK'
<1>1. /\ tick \in Ticks /\ tick' = tick /\ held' = held /\ life' = life /\ owes' = owes
      /\ life = "Alive"
  BY DEF IInv, Clocked, Ticks, Operation, AvoidDeath, Operates, resolveActivePlayer, frame,
     ChangesHealth, ChangesMana, ChangesNoPool, PlayerLoseHealth, PlayerGainHealthNormal,
     PlayerGainHealthOvercap, PlayerAdjustBaseMaxHP, PlayerAdjustMaxHP, PlayerLoseMana,
     PlayerGainMana, PlayerAdjustMaxMana, PlayerApplyExertion, PlayerApplyRestExertion,
     PlayerSetRestThreshold, PlayerUpdateStomach, PlayerSetVitalsRuntimeInputs,
     PlayerStartResting, PlayerStopResting, PlayerMarkActed
<1>2. Stands(vitals)' /\ ValidInputs(inputs)
  BY SetInputs DEF IInv
<1>3. /\ healthDue' = healthDue \/ healthDue' = ReconcileHealth(healthDue, vitals', inputs, tick)
      /\ manaDue' = manaDue \/ manaDue' = ReconcileMana(manaDue, vitals', inputs, tick)
      /\ restDue' = restDue \/ restDue' = Off \/ restDue' = Due(tick, RestMs(inputs))
  BY DEF Operation, AvoidDeath, timers,
     ChangesHealth, ChangesMana, ChangesNoPool, PlayerLoseHealth, PlayerGainHealthNormal,
     PlayerGainHealthOvercap, PlayerAdjustBaseMaxHP, PlayerAdjustMaxHP, PlayerLoseMana,
     PlayerGainMana, PlayerAdjustMaxMana, PlayerApplyExertion, PlayerApplyRestExertion,
     PlayerSetRestThreshold, PlayerUpdateStomach, PlayerSetVitalsRuntimeInputs,
     PlayerStartResting, PlayerStopResting, PlayerMarkActed
<1>4. /\ healthDue' = healthDue \/ Fresh(healthDue', tick)
      /\ manaDue' = manaDue \/ Fresh(manaDue', tick)
      /\ restDue' = restDue \/ Fresh(restDue', tick)
  <2>1. Stands(vitals')
    BY <1>2 DEF Stands
  <2> QED
    BY <1>1, <1>2, <1>3, <2>1, ReconcileHealthKeeps, ReconcileManaKeeps, RestAhead DEF Fresh
<1> QED
  BY <1>1, <1>4 DEF TimersOK, Timed

LEMMA DeathTimes ==
  ASSUME HalfRange, IInv, IInv', TimersOK, Death
  PROVE  TimersOK'
<1>0. tick \in Ticks
  BY DEF IInv, Clocked, Ticks
<1>1. CASE PlayerBeginDeathPersistence
  BY <1>1 DEF PlayerBeginDeathPersistence, PlayerQuiesceForDeath, Operates, resolveActivePlayer,
     TimersOK, Timed, Fresh
<1>2. CASE AvoidDeath
  BY <1>2, OperationTimes
<1>3. CASE PlayerInstallPostDeathState
  <2>1. PICK in \in Inputs : InitPlayerRuntime(vitals', in, tick)
    BY <1>3 DEF PlayerInstallPostDeathState
  <2>2. Stands(vitals') /\ ValidInputs(in)
    BY <2>1, SetInputs DEF IInv, Stands
  <2>3. Fresh(healthDue', tick) /\ Fresh(manaDue', tick) /\ Fresh(restDue', tick)
    BY <1>0, <2>1, <2>2, ReconcileHealthKeeps, ReconcileManaKeeps DEF InitPlayerRuntime, Fresh
  <2>4. tick' = tick /\ held' = held /\ held = 0 /\ life' = "AwaitingRespawn"
    BY <1>3 DEF PlayerInstallPostDeathState, TimersOK
  <2> QED
    BY <2>3, <2>4, CircleFacts DEF TimersOK, Timed
<1>4. CASE PlayerReleaseRespawn
  BY <1>4 DEF PlayerReleaseRespawn, timers, TimersOK, Timed
<1>5. CASE BeginDeathPenalties
  BY <1>5 DEF BeginDeathPenalties, Operates, resolveActivePlayer, timers, TimersOK, Timed
<1>6. CASE AcceptDeathPenalties
  <2>1. /\ tick' = tick /\ held' = 0 /\ life' = "Alive" /\ ~owes' /\ life = "DeathPenaltyPersisting"
        /\ manaDue' = manaDue /\ restDue' = restDue
        /\ healthDue' = ReconcileHealth(healthDue, planned, inputs, tick)
    BY <1>6 DEF AcceptDeathPenalties
  <2>2. Stands(planned) /\ ValidInputs(inputs)
    BY <2>1, SetInputs DEF IInv
  <2>3. healthDue' = healthDue \/ Fresh(healthDue', tick)
    BY <1>0, <2>1, <2>2, ReconcileHealthKeeps
  <2>4. ASSUME NEW due, Behind(due, tick, held) PROVE Behind(due, tick, MaxHeld)
    BY <1>0, <2>4, CircleFacts, GapIs DEF Behind, TimersOK
  <2> QED
    BY <2>1, <2>3, <2>4, CircleFacts DEF TimersOK, Timed
<1> QED
  BY <1>1, <1>2, <1>3, <1>4, <1>5, <1>6 DEF Death

(* However ticks wrap and however long a penalty is being stored, a         *)
(* deadline is never so far back that it would be taken for one far ahead,  *)
(* as long as a minute of ticks and the longest persistence are less than   *)
(* half the range of ticks (in the code: 2^31 ticks, half a year and more). *)
THEOREM DeadlinesAreNotLost ==
  ASSUME HalfRange
  PROVE  Spec => []NotLost
<1>1. IInv /\ IInv' /\ TimersOK /\ [Next]_vars => TimersOK'
  <2>1. CASE UNCHANGED vars
    BY <2>1 DEF vars, TimersOK, Timed
  <2> QED
    BY <2>1, StepTimes, OperationTimes, DeathTimes DEF Next
<1>2. IInv /\ TimersOK => NotLost
  <2> SUFFICES ASSUME IInv, TimersOK, NEW due \in {healthDue, manaDue, restDue} \ {Off}
               PROVE  S!After(Modulus, due, tick) \/ (tick - due) % Modulus < MaxHeld
    BY DEF NotLost
  <2>1. tick \in Ticks /\ Timed(due) /\ held =< MaxHeld /\ held \in Int
    BY CircleFacts DEF IInv, Clocked, Ticks, TimersOK
  <2>2. CASE Ahead(due, tick)
    BY <2>1, <2>2, AfterWhenAhead
  <2>3. ASSUME NEW n \in Int, n =< MaxHeld, Behind(due, tick, n)
        PROVE  (tick - due) % Modulus < MaxHeld
    BY <2>1, <2>3, CircleFacts, GapIs DEF Behind
  <2> QED
    BY <2>1, <2>2, <2>3, CircleFacts DEF Timed, Fresh
<1> QED
  BY <1>1, <1>2, TimersInit, IInvHolds, PTL DEF Spec

=============================================================================
