---------------------------- MODULE FanoutProofs ----------------------------
(* Theorems of Fanout.tla.  Sets of sessions and entities are visited in    *)
(* ascending order; what such a visit leaves is shown by induction over the *)
(* finite sets of naturals (AddAll, ReconcileAll and the like).  There are  *)
(* two invariants.  ToldInv says of every session what its client knows at  *)
(* the stage it is at: new, being told of those it joins, joined, or        *)
(* failed.  SettledInv says of two sessions that the one sees the other     *)
(* when it is near, or that the queue or the pump will still bring it about.*)
EXTENDS Fanout, FiniteSetTheorems, WellFoundedInduction, TLAPS

-----------------------------------------------------------------------------
(* Induction over the naturals, and over the finite sets of them *)

LEMMA LeastElement ==
  ASSUME NEW T \in SUBSET Nat, T # {}
  PROVE  \E x \in T : \A y \in T : x <= y
<1>1. PICK x \in T : \A y \in T : ~(<<y, x>> \in OpToRel(<, Nat))
  BY WFMin, NatLessThanWellFounded
<1>2. ASSUME NEW y \in T PROVE x <= y
  <2>1. x \in Nat /\ y \in Nat
    OBVIOUS
  <2>2. ~(y < x)
    BY <1>1, <2>1 DEF OpToRel
  <2> QED
    BY <2>1, <2>2
<1> QED
  BY <1>2

LEMMA SetInduction ==
  ASSUME NEW T, 0 \in T, \A n \in Nat : n \in T => n + 1 \in T
  PROVE  Nat \subseteq T
<1> SUFFICES ASSUME Nat \ T # {} PROVE FALSE
  OBVIOUS
<1>1. PICK x \in Nat \ T : \A y \in Nat \ T : x <= y
  BY LeastElement, Zenon
<1>2. x # 0 /\ x - 1 \in Nat /\ x - 1 \notin Nat \ T
  BY <1>1
<1> QED
  BY <1>1, <1>2

LEMMA MinIsIn ==
  ASSUME NEW S \in SUBSET Nat, S # {}
  PROVE  Min(S) \in S
<1>1. PICK x \in S : \A y \in S : x =< y
  BY LeastElement
<1> QED
  BY <1>1, Zenon DEF Min

LEMMA MaxIsIn ==
  ASSUME NEW S \in SUBSET Nat, IsFiniteSet(S), S # {}
  PROVE  Max(S) \in S
<1> DEFINE Bounded(U) == \E x \in U : \A y \in U : x >= y
           T == {n \in Nat : \A U \in SUBSET Nat : IsFiniteSet(U) /\ Cardinality(U) = n + 1 => Bounded(U)}
<1>1. 0 \in T
  <2> SUFFICES ASSUME NEW U \in SUBSET Nat, IsFiniteSet(U), Cardinality(U) = 1 PROVE Bounded(U)
    OBVIOUS
  <2>1. PICK x : U = {x}
    BY FS_Singleton
  <2> QED
    BY <2>1
<1>2. ASSUME NEW n \in Nat, n \in T PROVE n + 1 \in T
  <2> SUFFICES ASSUME NEW U \in SUBSET Nat, IsFiniteSet(U), Cardinality(U) = n + 2 PROVE Bounded(U)
    OBVIOUS
  <2>0. U # {}
    <3>1. n + 2 # 0
      OBVIOUS
    <3> QED
      BY <3>1, FS_EmptySet
  <2>1. PICK z \in U : TRUE
    BY <2>0
  <2>2. IsFiniteSet(U \ {z}) /\ Cardinality(U \ {z}) = n + 1
    BY FS_RemoveElement, <2>1
  <2>3. PICK x \in U \ {z} : \A y \in U \ {z} : x >= y
    BY <1>2, <2>2
  <2>4. CASE x >= z
    BY <2>3, <2>4
  <2>5. CASE ~(x >= z)
    <3>1. \A y \in U : z >= y
      BY <2>1, <2>3, <2>5
    <3> QED
      BY <3>1, <2>1
  <2> QED
    BY <2>4, <2>5
<1>3. Nat \subseteq T
  <2> HIDE DEF T
  <2> QED
    BY <1>1, <1>2, SetInduction
<1>4. Cardinality(S) - 1 \in Nat /\ Cardinality(S) = (Cardinality(S) - 1) + 1
  BY FS_CardinalityType, FS_EmptySet
<1>5. Bounded(S)
  BY <1>3, <1>4
<1> QED
  BY <1>5, Zenon DEF Max

-----------------------------------------------------------------------------
(* Visits in order: what each visit keeps, all of them keep.                *)

(* P[m] are the good outcomes once those in m were visited.                 *)
LEMMA VisitsKeep ==
  ASSUME NEW S, IsFiniteSet(S), S \subseteq Nat, NEW P, NEW v,
         v[{}] \in P[{}],
         \A m \in SUBSET S : m # {} /\ v[m \ {Max(m)}] \in P[m \ {Max(m)}] => v[m] \in P[m]
  PROVE  \A m \in SUBSET S : v[m] \in P[m]
<1> DEFINE T == {n \in Nat : \A m \in SUBSET S : Cardinality(m) = n => v[m] \in P[m]}
<1>1. 0 \in T
  BY FS_EmptySet, FS_Subset
<1>2. ASSUME NEW n \in Nat, n \in T PROVE n + 1 \in T
  <2> SUFFICES ASSUME NEW m \in SUBSET S, Cardinality(m) = n + 1 PROVE v[m] \in P[m]
    <3>1. n + 1 \in Nat
      OBVIOUS
    <3> QED
      BY <3>1, SMTT(60)
  <2>0. n + 1 # 0
    OBVIOUS
  <2>1. IsFiniteSet(m) /\ m # {} /\ m \in SUBSET Nat
    BY <2>0, FS_Subset, FS_EmptySet
  <2>2. Max(m) \in m
    BY <2>1, MaxIsIn
  <2>3. Cardinality(m \ {Max(m)}) = Cardinality(m) - 1
    BY <2>1, <2>2, FS_RemoveElement
  <2>4. Cardinality(m \ {Max(m)}) = n
    BY <2>3
  <2>5. m \ {Max(m)} \in SUBSET S
    OBVIOUS
  <2>6. v[m \ {Max(m)}] \in P[m \ {Max(m)}]
    BY <1>2, <2>4, <2>5
  <2> QED
    BY <2>1, <2>6
<1>3. Nat \subseteq T
  <2> HIDE DEF T
  <2> QED
    BY <1>1, <1>2, SetInduction
<1> QED
  BY <1>3, FS_Subset, FS_CardinalityType

(* The outcomes of visiting, with a step for each outcome and member.       *)
IsVisit(v, S, f, step) ==
  v = [m \in SUBSET S |-> IF m = {} THEN f ELSE step[<<v[m \ {Max(m)}], Max(m)>>]]

LEMMA VisitsExist ==
  ASSUME NEW S, IsFiniteSet(S), S \subseteq Nat, NEW f, NEW step
  PROVE  \E v : IsVisit(v, S, f, step)
<1> DEFINE Next1(v, m) == IF m = {} THEN f ELSE step[<<v[m \ {Max(m)}], Max(m)>>]
           Upto(v, n) == \A m \in SUBSET S : Cardinality(m) =< n => v[m] = Next1(v, m)
           T == {n \in Nat : \E v : Upto(v, n)}
<1>0. ASSUME NEW m \in SUBSET S
      PROVE  /\ Cardinality(m) \in Nat
             /\ Cardinality(m) = 0 => m = {}
             /\ m # {} => m \ {Max(m)} \in SUBSET S /\ Cardinality(m \ {Max(m)}) = Cardinality(m) - 1
  <2>1. IsFiniteSet(m)
    BY FS_Subset
  <2>2. m # {} => Max(m) \in m
    BY <2>1, MaxIsIn
  <2> QED
    BY <2>1, <2>2, FS_CardinalityType, FS_EmptySet, FS_RemoveElement
<1>1. 0 \in T
  <2> DEFINE v == [m \in SUBSET S |-> f]
  <2>1. ASSUME NEW m \in SUBSET S, Cardinality(m) =< 0 PROVE v[m] = Next1(v, m)
    <3>1. Cardinality(m) \in Nat
      BY <1>0
    <3>2. Cardinality(m) = 0
      BY <2>1, <3>1
    <3>3. m = {}
      BY <1>0, <3>2
    <3> QED
      BY <3>3
  <2>2. Upto(v, 0)
    <3> HIDE DEF v, Next1
    <3> QED
      BY <2>1
  <2> QED
    <3> HIDE DEF v, Upto
    <3> QED
      BY <2>2
<1>2. ASSUME NEW n \in Nat, n \in T PROVE n + 1 \in T
  <2>1. PICK v : Upto(v, n)
    BY <1>2
  <2> DEFINE w == [m \in SUBSET S |-> IF Cardinality(m) =< n THEN v[m] ELSE Next1(v, m)]
  <2>2. ASSUME NEW m \in SUBSET S, Cardinality(m) =< n + 1 PROVE w[m] = Next1(w, m)
    <3>1. w[m] = Next1(v, m)
      BY <2>1
    <3>2. m # {} => w[m \ {Max(m)}] = v[m \ {Max(m)}]
      BY <1>0, <2>2
    <3> HIDE DEF w
    <3> QED
      BY <3>1, <3>2
  <2>3. Upto(w, n + 1)
    <3> HIDE DEF w, Next1
    <3> QED
      BY <2>2
  <2> QED
    <3> HIDE DEF w, Upto
    <3> QED
      BY <2>3
<1>3. Nat \subseteq T
  <2> HIDE DEF T
  <2> QED
    BY <1>1, <1>2, SetInduction
<1>4. PICK v : Upto(v, Cardinality(S))
  BY <1>3, <1>0
<1> DEFINE w == [m \in SUBSET S |-> v[m]]
<1>5. ASSUME NEW m \in SUBSET S PROVE w[m] = Next1(w, m)
  <2>1. Cardinality(m) =< Cardinality(S)
    BY FS_Subset
  <2>2. v[m] = Next1(v, m)
    BY <1>4, <2>1
  <2>3. m # {} => w[m \ {Max(m)}] = v[m \ {Max(m)}]
    BY <1>0
  <2>4. w[m] = v[m]
    OBVIOUS
  <2> HIDE DEF w
  <2> QED
    BY <2>2, <2>3, <2>4
<1>6. w = [m \in SUBSET S |-> Next1(w, m)]
  <2> HIDE DEF Next1
  <2> QED
    BY <1>5
<1> QED
  <2> HIDE DEF w
  <2> QED
    BY <1>6 DEF IsVisit

LEMMA GoodVisits ==
  ASSUME NEW S, IsFiniteSet(S), S \subseteq Nat, NEW P, NEW f \in P[{}], NEW step,
         \A m \in SUBSET S : \A x \in S \ m : \A g \in P[m] : step[<<g, x>>] \in P[m \cup {x}],
         NEW v, IsVisit(v, S, f, step)
  PROVE  \A m \in SUBSET S : v[m] \in P[m]
<1>1. v[{}] \in P[{}]
  BY DEF IsVisit
<1>2. ASSUME NEW m \in SUBSET S, m # {}, v[m \ {Max(m)}] \in P[m \ {Max(m)}] PROVE v[m] \in P[m]
  <2>1. Max(m) \in m
    BY <1>2, FS_Subset, MaxIsIn
  <2>2. v[m] = step[<<v[m \ {Max(m)}], Max(m)>>]
    BY <1>2 DEF IsVisit
  <2>3. (m \ {Max(m)}) \cup {Max(m)} = m /\ m \ {Max(m)} \in SUBSET S /\ Max(m) \in S \ (m \ {Max(m)})
    BY <2>1
  <2> HIDE DEF Max
  <2> QED
    BY <1>2, <2>2, <2>3
<1> QED
  BY <1>1, <1>2, VisitsKeep

(* The visits of the model, each to the members of a set.                   *)
AddTo(f, S, e) == InOrder(LAMBDA g, s : addViewerCreate(g, s, e), f, S)
DestroyAt(f, S, e) == InOrder(LAMBDA g, s : removeViewerDestroy(g, s, e), f, S)
RefreshAt(f, S, e) == InOrder(LAMBDA g, s : refreshViewerPosition(g, s, e), f, S)
FailOf(f, S) == InOrder(failRecipient, f, S)
FailAndHide(f, S, e) == InOrder(LAMBDA g, v : Hide(failRecipient(g, v), v, e), f, S)
ReconcileTo(f, s, S) == InOrder(LAMBDA g, e : reconcileCreate(g, s, e), f, S)
RetireFrom(f, s, S) == InOrder(LAMBDA g, e : removeViewerDestroy(g, s, e), f, S)

LEMMA VisitsAdd ==
  ASSUME NEW S, IsFiniteSet(S), S \subseteq Nat, NEW P, NEW e, NEW f \in P[{}],
         \A m \in SUBSET S : \A x \in S \ m : \A g \in P[m] : addViewerCreate(g, x, e) \in P[m \cup {x}]
  PROVE  AddTo(f, S, e) \in P[S]
<1> DEFINE X == UNION {P[m] : m \in SUBSET S}
           step == [t \in X \X S |-> addViewerCreate(t[1], t[2], e)]
           Is(w) == w = [m \in SUBSET S |-> IF m = {} THEN f ELSE addViewerCreate(w[m \ {Max(m)}], Max(m), e)]
           visit == CHOOSE w : Is(w)
<1>1. \A m \in SUBSET S : \A x \in S \ m : \A g \in P[m] : step[<<g, x>>] = addViewerCreate(g, x, e)
  OBVIOUS
<1>2. PICK v : IsVisit(v, S, f, step)
  <2> HIDE DEF step
  <2> QED
    BY VisitsExist
<1>3. \A m \in SUBSET S : v[m] \in P[m]
  <2>1. \A m \in SUBSET S : \A x \in S \ m : \A g \in P[m] : step[<<g, x>>] \in P[m \cup {x}]
    BY <1>1, Zenon
  <2> HIDE DEF step
  <2> QED
    BY <2>1, <1>2, GoodVisits
<1>4. Is(v)
  <2>1. ASSUME NEW m \in SUBSET S, m # {} PROVE step[<<v[m \ {Max(m)}], Max(m)>>] = addViewerCreate(v[m \ {Max(m)}], Max(m), e)
    <3>1. Max(m) \in m
      BY <2>1, FS_Subset, MaxIsIn
    <3>2. v[m \ {Max(m)}] \in P[m \ {Max(m)}] /\ Max(m) \in S \ (m \ {Max(m)}) /\ m \ {Max(m)} \in SUBSET S
      BY <1>3, <3>1
    <3> HIDE DEF step
    <3> QED
      BY <1>1, <3>2
  <2> HIDE DEF step
  <2> QED
    BY <1>2, <2>1 DEF IsVisit
<1>5. Is(visit)
  <2> HIDE DEF Is
  <2> QED
    BY <1>4
<1>6. visit[{}] \in P[{}]
  <2> HIDE DEF visit
  <2> QED
    BY <1>5
<1>7. ASSUME NEW m \in SUBSET S, m # {}, visit[m \ {Max(m)}] \in P[m \ {Max(m)}] PROVE visit[m] \in P[m]
  <2>1. Max(m) \in m
    BY <1>7, FS_Subset, MaxIsIn
  <2>2. (m \ {Max(m)}) \cup {Max(m)} = m /\ m \ {Max(m)} \in SUBSET S /\ Max(m) \in S \ (m \ {Max(m)})
    BY <2>1
  <2> HIDE DEF visit
  <2>3. visit[m] = addViewerCreate(visit[m \ {Max(m)}], Max(m), e)
    BY <1>5, <1>7
  <2>4. addViewerCreate(visit[m \ {Max(m)}], Max(m), e) \in P[(m \ {Max(m)}) \cup {Max(m)}]
    BY <1>7, <2>2, Zenon
  <2> QED
    BY <2>2, <2>3, <2>4, Zenon
<1>8. visit[S] \in P[S]
  <2> HIDE DEF visit
  <2> QED
    BY <1>6, <1>7, VisitsKeep
<1> QED
  BY <1>8, Zenon DEF InOrder, AddTo

LEMMA VisitsDestroy ==
  ASSUME NEW S, IsFiniteSet(S), S \subseteq Nat, NEW P, NEW e, NEW f \in P[{}],
         \A m \in SUBSET S : \A x \in S \ m : \A g \in P[m] : removeViewerDestroy(g, x, e) \in P[m \cup {x}]
  PROVE  DestroyAt(f, S, e) \in P[S]
<1> DEFINE X == UNION {P[m] : m \in SUBSET S}
           step == [t \in X \X S |-> removeViewerDestroy(t[1], t[2], e)]
           Is(w) == w = [m \in SUBSET S |-> IF m = {} THEN f ELSE removeViewerDestroy(w[m \ {Max(m)}], Max(m), e)]
           visit == CHOOSE w : Is(w)
<1>1. \A m \in SUBSET S : \A x \in S \ m : \A g \in P[m] : step[<<g, x>>] = removeViewerDestroy(g, x, e)
  OBVIOUS
<1>2. PICK v : IsVisit(v, S, f, step)
  <2> HIDE DEF step
  <2> QED
    BY VisitsExist
<1>3. \A m \in SUBSET S : v[m] \in P[m]
  <2>1. \A m \in SUBSET S : \A x \in S \ m : \A g \in P[m] : step[<<g, x>>] \in P[m \cup {x}]
    BY <1>1, Zenon
  <2> HIDE DEF step
  <2> QED
    BY <2>1, <1>2, GoodVisits
<1>4. Is(v)
  <2>1. ASSUME NEW m \in SUBSET S, m # {} PROVE step[<<v[m \ {Max(m)}], Max(m)>>] = removeViewerDestroy(v[m \ {Max(m)}], Max(m), e)
    <3>1. Max(m) \in m
      BY <2>1, FS_Subset, MaxIsIn
    <3>2. v[m \ {Max(m)}] \in P[m \ {Max(m)}] /\ Max(m) \in S \ (m \ {Max(m)}) /\ m \ {Max(m)} \in SUBSET S
      BY <1>3, <3>1
    <3> HIDE DEF step
    <3> QED
      BY <1>1, <3>2
  <2> HIDE DEF step
  <2> QED
    BY <1>2, <2>1 DEF IsVisit
<1>5. Is(visit)
  <2> HIDE DEF Is
  <2> QED
    BY <1>4
<1>6. visit[{}] \in P[{}]
  <2> HIDE DEF visit
  <2> QED
    BY <1>5
<1>7. ASSUME NEW m \in SUBSET S, m # {}, visit[m \ {Max(m)}] \in P[m \ {Max(m)}] PROVE visit[m] \in P[m]
  <2>1. Max(m) \in m
    BY <1>7, FS_Subset, MaxIsIn
  <2>2. (m \ {Max(m)}) \cup {Max(m)} = m /\ m \ {Max(m)} \in SUBSET S /\ Max(m) \in S \ (m \ {Max(m)})
    BY <2>1
  <2> HIDE DEF visit
  <2>3. visit[m] = removeViewerDestroy(visit[m \ {Max(m)}], Max(m), e)
    BY <1>5, <1>7
  <2>4. removeViewerDestroy(visit[m \ {Max(m)}], Max(m), e) \in P[(m \ {Max(m)}) \cup {Max(m)}]
    BY <1>7, <2>2, Zenon
  <2> QED
    BY <2>2, <2>3, <2>4, Zenon
<1>8. visit[S] \in P[S]
  <2> HIDE DEF visit
  <2> QED
    BY <1>6, <1>7, VisitsKeep
<1> QED
  BY <1>8, Zenon DEF InOrder, DestroyAt

LEMMA VisitsRefresh ==
  ASSUME NEW S, IsFiniteSet(S), S \subseteq Nat, NEW P, NEW e, NEW f \in P[{}],
         \A m \in SUBSET S : \A x \in S \ m : \A g \in P[m] : refreshViewerPosition(g, x, e) \in P[m \cup {x}]
  PROVE  RefreshAt(f, S, e) \in P[S]
<1> DEFINE X == UNION {P[m] : m \in SUBSET S}
           step == [t \in X \X S |-> refreshViewerPosition(t[1], t[2], e)]
           Is(w) == w = [m \in SUBSET S |-> IF m = {} THEN f ELSE refreshViewerPosition(w[m \ {Max(m)}], Max(m), e)]
           visit == CHOOSE w : Is(w)
<1>1. \A m \in SUBSET S : \A x \in S \ m : \A g \in P[m] : step[<<g, x>>] = refreshViewerPosition(g, x, e)
  OBVIOUS
<1>2. PICK v : IsVisit(v, S, f, step)
  <2> HIDE DEF step
  <2> QED
    BY VisitsExist
<1>3. \A m \in SUBSET S : v[m] \in P[m]
  <2>1. \A m \in SUBSET S : \A x \in S \ m : \A g \in P[m] : step[<<g, x>>] \in P[m \cup {x}]
    BY <1>1, Zenon
  <2> HIDE DEF step
  <2> QED
    BY <2>1, <1>2, GoodVisits
<1>4. Is(v)
  <2>1. ASSUME NEW m \in SUBSET S, m # {} PROVE step[<<v[m \ {Max(m)}], Max(m)>>] = refreshViewerPosition(v[m \ {Max(m)}], Max(m), e)
    <3>1. Max(m) \in m
      BY <2>1, FS_Subset, MaxIsIn
    <3>2. v[m \ {Max(m)}] \in P[m \ {Max(m)}] /\ Max(m) \in S \ (m \ {Max(m)}) /\ m \ {Max(m)} \in SUBSET S
      BY <1>3, <3>1
    <3> HIDE DEF step
    <3> QED
      BY <1>1, <3>2
  <2> HIDE DEF step
  <2> QED
    BY <1>2, <2>1 DEF IsVisit
<1>5. Is(visit)
  <2> HIDE DEF Is
  <2> QED
    BY <1>4
<1>6. visit[{}] \in P[{}]
  <2> HIDE DEF visit
  <2> QED
    BY <1>5
<1>7. ASSUME NEW m \in SUBSET S, m # {}, visit[m \ {Max(m)}] \in P[m \ {Max(m)}] PROVE visit[m] \in P[m]
  <2>1. Max(m) \in m
    BY <1>7, FS_Subset, MaxIsIn
  <2>2. (m \ {Max(m)}) \cup {Max(m)} = m /\ m \ {Max(m)} \in SUBSET S /\ Max(m) \in S \ (m \ {Max(m)})
    BY <2>1
  <2> HIDE DEF visit
  <2>3. visit[m] = refreshViewerPosition(visit[m \ {Max(m)}], Max(m), e)
    BY <1>5, <1>7
  <2>4. refreshViewerPosition(visit[m \ {Max(m)}], Max(m), e) \in P[(m \ {Max(m)}) \cup {Max(m)}]
    BY <1>7, <2>2, Zenon
  <2> QED
    BY <2>2, <2>3, <2>4, Zenon
<1>8. visit[S] \in P[S]
  <2> HIDE DEF visit
  <2> QED
    BY <1>6, <1>7, VisitsKeep
<1> QED
  BY <1>8, Zenon DEF InOrder, RefreshAt

LEMMA VisitsFail ==
  ASSUME NEW S, IsFiniteSet(S), S \subseteq Nat, NEW P, NEW f \in P[{}],
         \A m \in SUBSET S : \A x \in S \ m : \A g \in P[m] : failRecipient(g, x) \in P[m \cup {x}]
  PROVE  FailOf(f, S) \in P[S]
<1> DEFINE X == UNION {P[m] : m \in SUBSET S}
           step == [t \in X \X S |-> failRecipient(t[1], t[2])]
           Is(w) == w = [m \in SUBSET S |-> IF m = {} THEN f ELSE failRecipient(w[m \ {Max(m)}], Max(m))]
           visit == CHOOSE w : Is(w)
<1>1. \A m \in SUBSET S : \A x \in S \ m : \A g \in P[m] : step[<<g, x>>] = failRecipient(g, x)
  OBVIOUS
<1>2. PICK v : IsVisit(v, S, f, step)
  <2> HIDE DEF step
  <2> QED
    BY VisitsExist
<1>3. \A m \in SUBSET S : v[m] \in P[m]
  <2>1. \A m \in SUBSET S : \A x \in S \ m : \A g \in P[m] : step[<<g, x>>] \in P[m \cup {x}]
    BY <1>1, Zenon
  <2> HIDE DEF step
  <2> QED
    BY <2>1, <1>2, GoodVisits
<1>4. Is(v)
  <2>1. ASSUME NEW m \in SUBSET S, m # {} PROVE step[<<v[m \ {Max(m)}], Max(m)>>] = failRecipient(v[m \ {Max(m)}], Max(m))
    <3>1. Max(m) \in m
      BY <2>1, FS_Subset, MaxIsIn
    <3>2. v[m \ {Max(m)}] \in P[m \ {Max(m)}] /\ Max(m) \in S \ (m \ {Max(m)}) /\ m \ {Max(m)} \in SUBSET S
      BY <1>3, <3>1
    <3> HIDE DEF step
    <3> QED
      BY <1>1, <3>2
  <2> HIDE DEF step
  <2> QED
    BY <1>2, <2>1 DEF IsVisit
<1>5. Is(visit)
  <2> HIDE DEF Is
  <2> QED
    BY <1>4
<1>6. visit[{}] \in P[{}]
  <2> HIDE DEF visit
  <2> QED
    BY <1>5
<1>7. ASSUME NEW m \in SUBSET S, m # {}, visit[m \ {Max(m)}] \in P[m \ {Max(m)}] PROVE visit[m] \in P[m]
  <2>1. Max(m) \in m
    BY <1>7, FS_Subset, MaxIsIn
  <2>2. (m \ {Max(m)}) \cup {Max(m)} = m /\ m \ {Max(m)} \in SUBSET S /\ Max(m) \in S \ (m \ {Max(m)})
    BY <2>1
  <2> HIDE DEF visit
  <2>3. visit[m] = failRecipient(visit[m \ {Max(m)}], Max(m))
    BY <1>5, <1>7
  <2>4. failRecipient(visit[m \ {Max(m)}], Max(m)) \in P[(m \ {Max(m)}) \cup {Max(m)}]
    BY <1>7, <2>2, Zenon
  <2> QED
    BY <2>2, <2>3, <2>4, Zenon
<1>8. visit[S] \in P[S]
  <2> HIDE DEF visit
  <2> QED
    BY <1>6, <1>7, VisitsKeep
<1> QED
  BY <1>8, Zenon DEF InOrder, FailOf

LEMMA VisitsFailAndHide ==
  ASSUME NEW S, IsFiniteSet(S), S \subseteq Nat, NEW P, NEW e, NEW f \in P[{}],
         \A m \in SUBSET S : \A x \in S \ m : \A g \in P[m] : Hide(failRecipient(g, x), x, e) \in P[m \cup {x}]
  PROVE  FailAndHide(f, S, e) \in P[S]
<1> DEFINE X == UNION {P[m] : m \in SUBSET S}
           step == [t \in X \X S |-> Hide(failRecipient(t[1], t[2]), t[2], e)]
           Is(w) == w = [m \in SUBSET S |-> IF m = {} THEN f ELSE Hide(failRecipient(w[m \ {Max(m)}], Max(m)), Max(m), e)]
           visit == CHOOSE w : Is(w)
<1>1. \A m \in SUBSET S : \A x \in S \ m : \A g \in P[m] : step[<<g, x>>] = Hide(failRecipient(g, x), x, e)
  OBVIOUS
<1>2. PICK v : IsVisit(v, S, f, step)
  <2> HIDE DEF step
  <2> QED
    BY VisitsExist
<1>3. \A m \in SUBSET S : v[m] \in P[m]
  <2>1. \A m \in SUBSET S : \A x \in S \ m : \A g \in P[m] : step[<<g, x>>] \in P[m \cup {x}]
    BY <1>1, Zenon
  <2> HIDE DEF step
  <2> QED
    BY <2>1, <1>2, GoodVisits
<1>4. Is(v)
  <2>1. ASSUME NEW m \in SUBSET S, m # {} PROVE step[<<v[m \ {Max(m)}], Max(m)>>] = Hide(failRecipient(v[m \ {Max(m)}], Max(m)), Max(m), e)
    <3>1. Max(m) \in m
      BY <2>1, FS_Subset, MaxIsIn
    <3>2. v[m \ {Max(m)}] \in P[m \ {Max(m)}] /\ Max(m) \in S \ (m \ {Max(m)}) /\ m \ {Max(m)} \in SUBSET S
      BY <1>3, <3>1
    <3> HIDE DEF step
    <3> QED
      BY <1>1, <3>2
  <2> HIDE DEF step
  <2> QED
    BY <1>2, <2>1 DEF IsVisit
<1>5. Is(visit)
  <2> HIDE DEF Is
  <2> QED
    BY <1>4
<1>6. visit[{}] \in P[{}]
  <2> HIDE DEF visit
  <2> QED
    BY <1>5
<1>7. ASSUME NEW m \in SUBSET S, m # {}, visit[m \ {Max(m)}] \in P[m \ {Max(m)}] PROVE visit[m] \in P[m]
  <2>1. Max(m) \in m
    BY <1>7, FS_Subset, MaxIsIn
  <2>2. (m \ {Max(m)}) \cup {Max(m)} = m /\ m \ {Max(m)} \in SUBSET S /\ Max(m) \in S \ (m \ {Max(m)})
    BY <2>1
  <2> HIDE DEF visit
  <2>3. visit[m] = Hide(failRecipient(visit[m \ {Max(m)}], Max(m)), Max(m), e)
    BY <1>5, <1>7
  <2>4. Hide(failRecipient(visit[m \ {Max(m)}], Max(m)), Max(m), e) \in P[(m \ {Max(m)}) \cup {Max(m)}]
    BY <1>7, <2>2, Zenon
  <2> QED
    BY <2>2, <2>3, <2>4, Zenon
<1>8. visit[S] \in P[S]
  <2> HIDE DEF visit
  <2> QED
    BY <1>6, <1>7, VisitsKeep
<1> QED
  BY <1>8, Zenon DEF InOrder, FailAndHide

LEMMA VisitsReconcile ==
  ASSUME NEW S, IsFiniteSet(S), S \subseteq Nat, NEW P, NEW s, NEW f \in P[{}],
         \A m \in SUBSET S : \A x \in S \ m : \A g \in P[m] : reconcileCreate(g, s, x) \in P[m \cup {x}]
  PROVE  ReconcileTo(f, s, S) \in P[S]
<1> DEFINE X == UNION {P[m] : m \in SUBSET S}
           step == [t \in X \X S |-> reconcileCreate(t[1], s, t[2])]
           Is(w) == w = [m \in SUBSET S |-> IF m = {} THEN f ELSE reconcileCreate(w[m \ {Max(m)}], s, Max(m))]
           visit == CHOOSE w : Is(w)
<1>1. \A m \in SUBSET S : \A x \in S \ m : \A g \in P[m] : step[<<g, x>>] = reconcileCreate(g, s, x)
  OBVIOUS
<1>2. PICK v : IsVisit(v, S, f, step)
  <2> HIDE DEF step
  <2> QED
    BY VisitsExist
<1>3. \A m \in SUBSET S : v[m] \in P[m]
  <2>1. \A m \in SUBSET S : \A x \in S \ m : \A g \in P[m] : step[<<g, x>>] \in P[m \cup {x}]
    BY <1>1, Zenon
  <2> HIDE DEF step
  <2> QED
    BY <2>1, <1>2, GoodVisits
<1>4. Is(v)
  <2>1. ASSUME NEW m \in SUBSET S, m # {} PROVE step[<<v[m \ {Max(m)}], Max(m)>>] = reconcileCreate(v[m \ {Max(m)}], s, Max(m))
    <3>1. Max(m) \in m
      BY <2>1, FS_Subset, MaxIsIn
    <3>2. v[m \ {Max(m)}] \in P[m \ {Max(m)}] /\ Max(m) \in S \ (m \ {Max(m)}) /\ m \ {Max(m)} \in SUBSET S
      BY <1>3, <3>1
    <3> HIDE DEF step
    <3> QED
      BY <1>1, <3>2
  <2> HIDE DEF step
  <2> QED
    BY <1>2, <2>1 DEF IsVisit
<1>5. Is(visit)
  <2> HIDE DEF Is
  <2> QED
    BY <1>4
<1>6. visit[{}] \in P[{}]
  <2> HIDE DEF visit
  <2> QED
    BY <1>5
<1>7. ASSUME NEW m \in SUBSET S, m # {}, visit[m \ {Max(m)}] \in P[m \ {Max(m)}] PROVE visit[m] \in P[m]
  <2>1. Max(m) \in m
    BY <1>7, FS_Subset, MaxIsIn
  <2>2. (m \ {Max(m)}) \cup {Max(m)} = m /\ m \ {Max(m)} \in SUBSET S /\ Max(m) \in S \ (m \ {Max(m)})
    BY <2>1
  <2> HIDE DEF visit
  <2>3. visit[m] = reconcileCreate(visit[m \ {Max(m)}], s, Max(m))
    BY <1>5, <1>7
  <2>4. reconcileCreate(visit[m \ {Max(m)}], s, Max(m)) \in P[(m \ {Max(m)}) \cup {Max(m)}]
    BY <1>7, <2>2, Zenon
  <2> QED
    BY <2>2, <2>3, <2>4, Zenon
<1>8. visit[S] \in P[S]
  <2> HIDE DEF visit
  <2> QED
    BY <1>6, <1>7, VisitsKeep
<1> QED
  BY <1>8, Zenon DEF InOrder, ReconcileTo

LEMMA VisitsRetire ==
  ASSUME NEW S, IsFiniteSet(S), S \subseteq Nat, NEW P, NEW s, NEW f \in P[{}],
         \A m \in SUBSET S : \A x \in S \ m : \A g \in P[m] : removeViewerDestroy(g, s, x) \in P[m \cup {x}]
  PROVE  RetireFrom(f, s, S) \in P[S]
<1> DEFINE X == UNION {P[m] : m \in SUBSET S}
           step == [t \in X \X S |-> removeViewerDestroy(t[1], s, t[2])]
           Is(w) == w = [m \in SUBSET S |-> IF m = {} THEN f ELSE removeViewerDestroy(w[m \ {Max(m)}], s, Max(m))]
           visit == CHOOSE w : Is(w)
<1>1. \A m \in SUBSET S : \A x \in S \ m : \A g \in P[m] : step[<<g, x>>] = removeViewerDestroy(g, s, x)
  OBVIOUS
<1>2. PICK v : IsVisit(v, S, f, step)
  <2> HIDE DEF step
  <2> QED
    BY VisitsExist
<1>3. \A m \in SUBSET S : v[m] \in P[m]
  <2>1. \A m \in SUBSET S : \A x \in S \ m : \A g \in P[m] : step[<<g, x>>] \in P[m \cup {x}]
    BY <1>1, Zenon
  <2> HIDE DEF step
  <2> QED
    BY <2>1, <1>2, GoodVisits
<1>4. Is(v)
  <2>1. ASSUME NEW m \in SUBSET S, m # {} PROVE step[<<v[m \ {Max(m)}], Max(m)>>] = removeViewerDestroy(v[m \ {Max(m)}], s, Max(m))
    <3>1. Max(m) \in m
      BY <2>1, FS_Subset, MaxIsIn
    <3>2. v[m \ {Max(m)}] \in P[m \ {Max(m)}] /\ Max(m) \in S \ (m \ {Max(m)}) /\ m \ {Max(m)} \in SUBSET S
      BY <1>3, <3>1
    <3> HIDE DEF step
    <3> QED
      BY <1>1, <3>2
  <2> HIDE DEF step
  <2> QED
    BY <1>2, <2>1 DEF IsVisit
<1>5. Is(visit)
  <2> HIDE DEF Is
  <2> QED
    BY <1>4
<1>6. visit[{}] \in P[{}]
  <2> HIDE DEF visit
  <2> QED
    BY <1>5
<1>7. ASSUME NEW m \in SUBSET S, m # {}, visit[m \ {Max(m)}] \in P[m \ {Max(m)}] PROVE visit[m] \in P[m]
  <2>1. Max(m) \in m
    BY <1>7, FS_Subset, MaxIsIn
  <2>2. (m \ {Max(m)}) \cup {Max(m)} = m /\ m \ {Max(m)} \in SUBSET S /\ Max(m) \in S \ (m \ {Max(m)})
    BY <2>1
  <2> HIDE DEF visit
  <2>3. visit[m] = removeViewerDestroy(visit[m \ {Max(m)}], s, Max(m))
    BY <1>5, <1>7
  <2>4. removeViewerDestroy(visit[m \ {Max(m)}], s, Max(m)) \in P[(m \ {Max(m)}) \cup {Max(m)}]
    BY <1>7, <2>2, Zenon
  <2> QED
    BY <2>2, <2>3, <2>4, Zenon
<1>8. visit[S] \in P[S]
  <2> HIDE DEF visit
  <2> QED
    BY <1>6, <1>7, VisitsKeep
<1> QED
  BY <1>8, Zenon DEF InOrder, RetireFrom

-----------------------------------------------------------------------------
(* What is shown to one session: the steps of its view *)

Forwards == UNION {[D -> Nat] : D \in SUBSET Sessions}

Presences == [active : BOOLEAN, center : Int, forward : Forwards, next : Nat]

Fans ==
  [presence : [Sessions -> Presences], ready : SUBSET Sessions, up : SUBSET Sessions,
   shown : [Sessions -> SUBSET (Nat \X Sessions)], moving : [Sessions -> SUBSET Nat]]

(* Handles are given once, and the own entity has one.                      *)
HandlesOK(s, p) ==
  /\ p.active => s \in Visible(p)
  /\ ~p.active => Visible(p) = {}
  /\ \A a, b \in Visible(p) : p.forward[a] = p.forward[b] => a = b
  /\ p.next # InvalidNetID => \A a \in Visible(p) : p.forward[a] < p.next

Told(p) == {<<p.forward[e], e>> : e \in Visible(p)}

Handles(shown) == {told[1] : told \in shown}

(* What the server believes a client in the world to know, unless a death   *)
(* has torn what it is told of its own entity.                              *)
Knowing(f, s) ==
  /\ HandlesOK(s, f.presence[s])
  /\ s \in f.up /\ <<s, s>> \notin torn =>
       /\ Told(f.presence[s]) \subseteq f.shown[s]
       /\ s \in f.ready => f.shown[s] = Told(f.presence[s])
       /\ f.moving[s] \subseteq Handles(f.shown[s])

SameView(f, g, s) ==
  /\ g.presence[s] = f.presence[s] /\ g.shown[s] = f.shown[s] /\ g.moving[s] = f.moving[s]
  /\ s \in g.ready <=> s \in f.ready
  /\ s \in g.up <=> s \in f.up

OthersSame(f, g, s) == \A t \in Sessions \ {s} : SameView(f, g, t)

(* A session that is still connected knows of exactly those in V.           *)
Changed(f, g, s, V) ==
  /\ Knowing(g, s)
  /\ g.presence[s].center = f.presence[s].center /\ (g.presence[s].active <=> f.presence[s].active)
  /\ s \in g.ready => s \in f.ready
  /\ s \in g.up => s \in f.up /\ Visible(g.presence[s]) = V /\ (s \in f.ready => s \in g.ready)

LEMMA FanFields ==
  ASSUME NEW f \in Fans
  PROVE  /\ f = [presence |-> f.presence, ready |-> f.ready, up |-> f.up, shown |-> f.shown, moving |-> f.moving]
         /\ f.presence \in [Sessions -> Presences] /\ f.ready \in SUBSET Sessions /\ f.up \in SUBSET Sessions
         /\ f.shown \in [Sessions -> SUBSET (Nat \X Sessions)] /\ f.moving \in [Sessions -> SUBSET Nat]
BY DEF Fans

LEMMA PresenceFields ==
  ASSUME NEW p \in Presences
  PROVE  /\ p = [active |-> p.active, center |-> p.center, forward |-> p.forward, next |-> p.next]
         /\ p.active \in BOOLEAN /\ p.center \in Int /\ p.next \in Nat
         /\ Visible(p) \in SUBSET Sessions /\ p.forward \in [Visible(p) -> Nat]
<1>1. p.forward \in Forwards
  BY DEF Presences
<1>2. PICK D \in SUBSET Sessions : p.forward \in [D -> Nat]
  BY <1>1 DEF Forwards
<1> QED
  BY <1>2 DEF Presences, Visible

LEMMA HideFromPresence ==
  ASSUME NEW p \in Presences, NEW s \in Sessions, NEW e \in Sessions, NEW q, q = HideVisible(s, p, e)
  PROVE  /\ q \in Presences
         /\ (q.active <=> p.active) /\ q.center = p.center /\ q.next = p.next
         /\ Visible(q) = IF ~p.active \/ e = s THEN Visible(p) ELSE Visible(p) \ {e}
         /\ \A v \in Visible(q) : q.forward[v] = p.forward[v]
         /\ HandlesOK(s, p) => HandlesOK(s, q)
<1>1. CASE ~p.active \/ e = s
  BY <1>1 DEF HideVisible
<1>2. CASE ~(~p.active \/ e = s)
  <2> DEFINE fw == [v \in Visible(p) \ {e} |-> p.forward[v]]
  <2>1. q = [p EXCEPT !.forward = fw]
    BY <1>2 DEF HideVisible, Restrict, Visible
  <2>2. fw \in [Visible(p) \ {e} -> Nat]
    BY PresenceFields
  <2>3. q = [active |-> p.active, center |-> p.center, forward |-> fw, next |-> p.next]
    BY <2>1, PresenceFields
  <2>4. fw \in Forwards
    BY <2>2, PresenceFields DEF Forwards
  <2>5. q \in Presences
    <3> HIDE DEF fw
    <3> QED
      BY <2>3, <2>4, PresenceFields DEF Presences
  <2>6. Visible(q) = Visible(p) \ {e} /\ \A v \in Visible(q) : q.forward[v] = p.forward[v]
    BY <2>3 DEF Visible
  <2>7. (q.active <=> p.active) /\ q.center = p.center /\ q.next = p.next
    BY <2>3
  <2>8. HandlesOK(s, p) => HandlesOK(s, q)
    BY <2>6, <2>7, <1>2 DEF HandlesOK
  <2> QED
    BY <1>2, <2>5, <2>6, <2>7, <2>8
<1> QED
  BY <1>1, <1>2

(* A new handle.                                                            *)
Granted(p, e) ==
  [p EXCEPT !.forward = [v \in DOMAIN @ \cup {e} |-> IF v = e THEN p.next ELSE @[v]],
            !.next = IF @ = MaxNetID THEN InvalidNetID ELSE @ + 1]

LEMMA GrantKeeps ==
  ASSUME NEW p \in Presences, NEW s \in Sessions, NEW e \in Sessions, e \notin Visible(p),
         p.active, p.next # InvalidNetID, HandlesOK(s, p), NEW q, q = Granted(p, e)
  PROVE  /\ q \in Presences
         /\ (q.active <=> p.active) /\ q.center = p.center
         /\ Visible(q) = Visible(p) \cup {e}
         /\ q.forward[e] = p.next
         /\ \A v \in Visible(p) : q.forward[v] = p.forward[v]
         /\ HandlesOK(s, q)
<1> DEFINE fw == [v \in Visible(p) \cup {e} |-> IF v = e THEN p.next ELSE p.forward[v]]
           nx == IF p.next = MaxNetID THEN InvalidNetID ELSE p.next + 1
<1>0. nx \in Nat /\ (nx # InvalidNetID => nx = p.next + 1)
  BY PresenceFields DEF InvalidNetID
<1>1. q = [active |-> p.active, center |-> p.center, forward |-> fw, next |-> nx]
  <2>1. q = [p EXCEPT !.forward = fw, !.next = nx]
    BY DEF Granted, Visible
  <2> HIDE DEF fw, nx
  <2> QED
    BY <2>1, PresenceFields
<1>2. fw \in [Visible(p) \cup {e} -> Nat] /\ Visible(p) \cup {e} \in SUBSET Sessions
  BY PresenceFields
<1>3. fw \in Forwards
  BY <1>2 DEF Forwards
<1>4. q \in Presences
  <2> HIDE DEF fw, nx
  <2> QED
    BY <1>0, <1>1, <1>3, PresenceFields DEF Presences
<1>5. (q.active <=> p.active) /\ q.center = p.center /\ q.next = nx
  BY <1>1
<1>6. Visible(q) = Visible(p) \cup {e} /\ q.forward[e] = p.next /\ \A v \in Visible(p) : q.forward[v] = p.forward[v]
  BY <1>1 DEF Visible
<1>7. \A v \in Visible(p) : p.forward[v] \in Nat /\ p.forward[v] < p.next
  BY PresenceFields DEF HandlesOK
<1>8. HandlesOK(s, q)
  <2> HIDE DEF fw, nx
  <2>1. \A a, b \in Visible(q) : q.forward[a] = q.forward[b] => a = b
    <3>1. ASSUME NEW a \in Visible(q), NEW b \in Visible(q), q.forward[a] = q.forward[b] PROVE a = b
      <4>1. CASE a = e /\ b # e
        BY <1>6, <1>7, <3>1, <4>1
      <4>2. CASE a # e /\ b = e
        BY <1>6, <1>7, <3>1, <4>2
      <4>3. CASE a # e /\ b # e
        BY <1>6, <3>1, <4>3 DEF HandlesOK
      <4> QED
        BY <4>1, <4>2, <4>3
    <3> QED
      BY <3>1
  <2>2. nx # InvalidNetID => \A a \in Visible(q) : q.forward[a] < nx
    BY <1>0, <1>6, <1>7, PresenceFields
  <2> QED
    BY <1>5, <1>6, <2>1, <2>2 DEF HandlesOK
<1> QED
  BY <1>4, <1>5, <1>6, <1>8

WithPresence(f, s, q) == [f EXCEPT !.presence[s] = q]

LEMMA SetPresence ==
  ASSUME NEW f \in Fans, NEW s \in Sessions, NEW q \in Presences, NEW r, r = WithPresence(f, s, q)
  PROVE  /\ r \in Fans /\ OthersSame(f, r, s)
         /\ r.presence[s] = q /\ r.ready = f.ready /\ r.up = f.up /\ r.shown = f.shown /\ r.moving = f.moving
<1>1. r = [presence |-> [f.presence EXCEPT ![s] = q], ready |-> f.ready, up |-> f.up,
           shown |-> f.shown, moving |-> f.moving]
  BY FanFields DEF WithPresence
<1>2. [f.presence EXCEPT ![s] = q] \in [Sessions -> Presences]
  BY FanFields
<1>3. r \in Fans
  BY <1>1, <1>2, FanFields DEF Fans
<1>4. \A t \in Sessions : r.presence[t] = IF t = s THEN q ELSE f.presence[t]
  BY <1>1, FanFields
<1> QED
  BY <1>1, <1>3, <1>4 DEF OthersSame, SameView

LEMMA FailFields ==
  ASSUME NEW f \in Fans, NEW s \in Sessions, NEW r, r = failRecipient(f, s)
  PROVE  /\ r \in Fans /\ OthersSame(f, r, s)
         /\ r.presence = f.presence /\ r.shown = f.shown /\ r.moving[s] = {}
         /\ s \notin r.ready /\ s \notin r.up
<1> DEFINE g == [f EXCEPT !.ready = @ \ {s}]
<1>0. PICK pr, re, up, sh, mo : f = [presence |-> pr, ready |-> re, up |-> up, shown |-> sh, moving |-> mo]
  BY FanFields
<1>1. g = [presence |-> f.presence, ready |-> f.ready \ {s}, up |-> f.up, shown |-> f.shown, moving |-> f.moving]
  BY <1>0
<1>2. r = [g EXCEPT !.up = @ \ {s}, !.moving[s] = {}]
  BY DEF failRecipient, CloseNow, ClearReady
<1> HIDE DEF g
<1>3. r = [presence |-> f.presence, ready |-> f.ready \ {s}, up |-> f.up \ {s}, shown |-> f.shown,
           moving |-> [f.moving EXCEPT ![s] = {}]]
  BY <1>1, <1>2
<1>4. [f.moving EXCEPT ![s] = {}] \in [Sessions -> SUBSET Nat]
  BY FanFields
<1>5. r \in Fans
  BY <1>3, <1>4, FanFields DEF Fans
<1>6. \A t \in Sessions : r.moving[t] = IF t = s THEN {} ELSE f.moving[t]
  BY <1>3, FanFields
<1> QED
  BY <1>3, <1>5, <1>6 DEF OthersSame, SameView

(* A session that is let go is no longer connected.                         *)
LEMMA FailChanges ==
  ASSUME NEW f \in Fans, NEW s \in Sessions, HandlesOK(s, f.presence[s]), NEW r, r = failRecipient(f, s), NEW V
  PROVE  r \in Fans /\ OthersSame(f, r, s) /\ Changed(f, r, s, V) /\ s \notin r.up
BY FailFields DEF Changed, Knowing

LEMMA HideFields ==
  ASSUME NEW f \in Fans, NEW s \in Sessions, NEW e \in Sessions, NEW r, r = Hide(f, s, e)
  PROVE  /\ r \in Fans /\ OthersSame(f, r, s)
         /\ r.presence[s] = HideVisible(s, f.presence[s], e)
         /\ r.ready = f.ready /\ r.up = f.up /\ r.shown = f.shown /\ r.moving = f.moving
<1>1. f.presence[s] \in Presences
  BY FanFields
<1>2. HideVisible(s, f.presence[s], e) \in Presences
  BY <1>1, HideFromPresence
<1>3. r = WithPresence(f, s, HideVisible(s, f.presence[s], e))
  BY DEF Hide, WithPresence
<1> QED
  BY <1>2, <1>3, SetPresence

(* The entity is announced, or the session is let go.                       *)
LEMMA EmitFields ==
  ASSUME NEW f \in Fans, NEW s \in Sessions, NEW e \in Sessions, HandlesOK(s, f.presence[s]),
         e \in Visible(f.presence[s]), NEW r, r = emitCreate(f, s, e)
  PROVE  /\ r \in Fans /\ OthersSame(f, r, s)
         /\ HandlesOK(s, r.presence[s])
         /\ r.presence[s].center = f.presence[s].center /\ (r.presence[s].active <=> f.presence[s].active)
         /\ r.moving[s] \subseteq f.moving[s]
         /\ \/ s \notin r.up /\ s \notin r.ready
            \/ /\ InSim(e) /\ s \in f.up
               /\ r.presence = f.presence /\ r.ready = f.ready /\ r.up = f.up /\ r.moving = f.moving
               /\ r.shown[s] = f.shown[s] \cup {<<f.presence[s].forward[e], e>>}
<1>p. f.presence[s] \in Presences
  BY FanFields
<1>1. CASE ~InSim(e)
  <2>1. r = failRecipient(f, s)
    BY <1>1 DEF emitCreate
  <2> QED
    BY <2>1, FailFields
<1>2. CASE InSim(e) /\ s \notin f.up
  <2> DEFINE g == Hide(f, s, e)
  <2>1. r = failRecipient(g, s)
    BY <1>2 DEF emitCreate
  <2>2. /\ g \in Fans /\ OthersSame(f, g, s) /\ g.presence[s] = HideVisible(s, f.presence[s], e)
    BY HideFields
  <2>3. /\ HandlesOK(s, g.presence[s])
        /\ g.presence[s].center = f.presence[s].center /\ (g.presence[s].active <=> f.presence[s].active)
    BY <1>p, <2>2, HideFromPresence
  <2> HIDE DEF g
  <2>4. /\ r \in Fans /\ OthersSame(g, r, s)
        /\ r.presence = g.presence /\ r.moving[s] = {} /\ s \notin r.ready /\ s \notin r.up
    BY <2>1, <2>2, FailFields
  <2> QED
    BY <2>2, <2>3, <2>4 DEF OthersSame, SameView
<1>3. CASE InSim(e) /\ s \in f.up
  <2> DEFINE new == f.shown[s] \cup {<<f.presence[s].forward[e], e>>}
  <2>1. r = [f EXCEPT !.shown[s] = new]
    BY <1>3 DEF emitCreate
  <2>2. f.presence[s].forward[e] \in Nat
    BY <1>p, PresenceFields
  <2>3. new \in SUBSET (Nat \X Sessions)
    BY <2>2, FanFields
  <2> HIDE DEF new
  <2>4. r = [presence |-> f.presence, ready |-> f.ready, up |-> f.up, shown |-> [f.shown EXCEPT ![s] = new],
             moving |-> f.moving]
    BY <2>1, FanFields
  <2>5. [f.shown EXCEPT ![s] = new] \in [Sessions -> SUBSET (Nat \X Sessions)]
    BY <2>3, FanFields
  <2>6. r \in Fans
    BY <2>4, <2>5, FanFields DEF Fans
  <2>7. \A t \in Sessions : r.shown[t] = IF t = s THEN new ELSE f.shown[t]
    BY <2>4, FanFields
  <2> QED
    BY <1>3, <2>4, <2>6, <2>7 DEF OthersSame, SameView, new
<1> QED
  BY <1>1, <1>2, <1>3

(* The same for a session that knows of all that it sees but this entity.   *)
LEMMA EmitChanges ==
  ASSUME NEW f \in Fans, NEW s \in Sessions, NEW e \in Sessions, HandlesOK(s, f.presence[s]),
         e \in Visible(f.presence[s]), NEW r, r = emitCreate(f, s, e),
         s \in f.up /\ <<s, s>> \notin torn =>
           /\ Told(f.presence[s]) \subseteq f.shown[s] \cup {<<f.presence[s].forward[e], e>>}
           /\ s \in f.ready => f.shown[s] \subseteq Told(f.presence[s])
           /\ f.moving[s] \subseteq Handles(f.shown[s])
  PROVE  /\ r \in Fans /\ OthersSame(f, r, s)
         /\ Changed(f, r, s, Visible(f.presence[s]))
         /\ s \in r.up => InSim(e)
<1>1. CASE s \notin r.up /\ s \notin r.ready
  BY <1>1, EmitFields DEF Changed, Knowing
<1>2. CASE ~(s \notin r.up /\ s \notin r.ready)
  <2>1. /\ InSim(e) /\ s \in f.up
        /\ r.presence = f.presence /\ r.ready = f.ready /\ r.up = f.up /\ r.moving = f.moving
        /\ r.shown[s] = f.shown[s] \cup {<<f.presence[s].forward[e], e>>}
    BY <1>2, EmitFields
  <2>2. <<f.presence[s].forward[e], e>> \in Told(f.presence[s])
    BY DEF Told
  <2>3. <<s, s>> \notin torn => r.moving[s] \subseteq Handles(r.shown[s])
    BY <2>1 DEF Handles
  <2>4. Knowing(r, s)
    BY <2>1, <2>2, <2>3 DEF Knowing
  <2> QED
    BY <2>1, <2>4, EmitFields DEF Changed
<1> QED
  BY <1>1, <1>2

LEMMA GrantTells ==
  ASSUME NEW p \in Presences, NEW s \in Sessions, NEW e \in Sessions, e \notin Visible(p),
         p.active, p.next # InvalidNetID, HandlesOK(s, p), NEW q, q = Granted(p, e)
  PROVE  /\ q \in Presences /\ (q.active <=> p.active) /\ q.center = p.center
         /\ Visible(q) = Visible(p) \cup {e} /\ HandlesOK(s, q)
         /\ Told(q) = Told(p) \cup {<<q.forward[e], e>>}
BY GrantKeeps DEF Told

LEMMA HideRetires ==
  ASSUME NEW p \in Presences, NEW s \in Sessions, NEW e \in Sessions, e \in Visible(p), e # s,
         HandlesOK(s, p), NEW q, q = HideVisible(s, p, e)
  PROVE  /\ q \in Presences /\ (q.active <=> p.active) /\ q.center = p.center
         /\ Visible(q) = Visible(p) \ {e} /\ HandlesOK(s, q)
         /\ Told(q) = Told(p) \ {<<p.forward[e], e>>}
<1>1. p.active
  BY DEF HandlesOK
<1>2. /\ q \in Presences /\ (q.active <=> p.active) /\ q.center = p.center
      /\ Visible(q) = Visible(p) \ {e} /\ HandlesOK(s, q)
      /\ \A v \in Visible(q) : q.forward[v] = p.forward[v]
  BY <1>1, HideFromPresence
<1>3. Told(q) = Told(p) \ {<<p.forward[e], e>>}
  BY <1>2 DEF Told
<1> QED
  BY <1>2, <1>3

LEMMA GrantIs ==
  ASSUME NEW p, NEW e
  PROVE  EnsureVisible(p, e) = IF ~p.active THEN {}
                               ELSE IF e \in Visible(p) THEN {p}
                               ELSE IF p.next = InvalidNetID THEN {}
                               ELSE {Granted(p, e)}
BY DEF EnsureVisible, Visible, Granted

(* A session with a view of its own, that is given a handle and told of it. *)
LEMMA GrantChanges ==
  ASSUME NEW f \in Fans, NEW s \in Sessions, NEW e \in Sessions, Knowing(f, s),
         e \notin Visible(f.presence[s]), f.presence[s].active, f.presence[s].next # InvalidNetID,
         NEW g, g = WithPresence(f, s, Granted(f.presence[s], e)), NEW r, r = emitCreate(g, s, e)
  PROVE  /\ r \in Fans /\ OthersSame(f, r, s)
         /\ Changed(f, r, s, Visible(f.presence[s]) \cup {e})
         /\ s \in r.up => InSim(e)
<1> DEFINE p == f.presence[s]
           q == Granted(p, e)
<1>1. p \in Presences /\ HandlesOK(s, p)
  BY FanFields DEF Knowing
<1>2. /\ q \in Presences /\ (q.active <=> p.active) /\ q.center = p.center
      /\ Visible(q) = Visible(p) \cup {e} /\ HandlesOK(s, q)
      /\ Told(q) = Told(p) \cup {<<q.forward[e], e>>}
  BY <1>1, GrantTells
<1>3. g = WithPresence(f, s, q)
  OBVIOUS
<1> HIDE DEF q
<1>4. /\ g \in Fans /\ OthersSame(f, g, s) /\ g.presence[s] = q
      /\ g.ready = f.ready /\ g.up = f.up /\ g.shown = f.shown /\ g.moving = f.moving
  BY <1>2, <1>3, SetPresence
<1>5. s \in g.up /\ <<s, s>> \notin torn =>
         /\ Told(g.presence[s]) \subseteq g.shown[s] \cup {<<g.presence[s].forward[e], e>>}
         /\ s \in g.ready => g.shown[s] \subseteq Told(g.presence[s])
         /\ g.moving[s] \subseteq Handles(g.shown[s])
  BY <1>2, <1>4 DEF Knowing
<1>6. /\ r \in Fans /\ OthersSame(g, r, s) /\ Changed(g, r, s, Visible(q)) /\ (s \in r.up => InSim(e))
  BY <1>2, <1>4, <1>5, EmitChanges
<1> QED
  <2>1. OthersSame(f, r, s)
    BY <1>4, <1>6 DEF OthersSame, SameView
  <2>2. Changed(f, r, s, Visible(q))
    BY <1>2, <1>4, <1>6 DEF Changed
  <2> QED
    BY <1>2, <1>6, <2>1, <2>2

Added(f, g, s, e) ==
  /\ Changed(f, g, s, Visible(f.presence[s]) \cup {e})
  /\ s \in g.up => e \in Visible(f.presence[s]) \/ InSim(e)

LEMMA AddChanges ==
  ASSUME NEW f \in Fans, NEW s \in Sessions, NEW e \in Sessions, Knowing(f, s), NEW r, r = addViewerCreate(f, s, e)
  PROVE  r \in Fans /\ OthersSame(f, r, s) /\ Added(f, r, s, e)
<1> DEFINE p == f.presence[s]
           G == EnsureVisible(p, e)
<1>1. G = IF ~p.active THEN {} ELSE IF e \in Visible(p) THEN {p}
          ELSE IF p.next = InvalidNetID THEN {} ELSE {Granted(p, e)}
  BY GrantIs
<1>2. r = IF G = {} THEN failRecipient(f, s) ELSE IF G = {p} THEN f
          ELSE emitCreate(WithPresence(f, s, CHOOSE x \in G : TRUE), s, e)
  BY DEF addViewerCreate, WithPresence
<1>3. CASE G = {}
  BY <1>2, <1>3, FailChanges DEF Knowing, Added
<1>4. CASE p.active /\ e \in Visible(p)
  <2>1. r = f
    BY <1>1, <1>2, <1>4
  <2>2. Visible(p) \cup {e} = Visible(p)
    BY <1>4
  <2> QED
    BY <2>1, <2>2, <1>4 DEF Added, Changed, OthersSame, SameView
<1>5. CASE G # {} /\ ~(p.active /\ e \in Visible(p))
  <2>1. p.active /\ e \notin Visible(p) /\ p.next # InvalidNetID /\ G = {Granted(p, e)}
    BY <1>1, <1>5
  <2>2. G # {p}
    <3>1. p \in Presences /\ HandlesOK(s, p)
      BY FanFields DEF Knowing
    <3> HIDE DEF p
    <3>2. Visible(Granted(p, e)) = Visible(p) \cup {e}
      BY <2>1, <3>1, GrantKeeps
    <3> QED
      BY <2>1, <3>2
  <2>3. (CHOOSE x \in G : TRUE) = Granted(p, e)
    BY <2>1
  <2>4. r = emitCreate(WithPresence(f, s, Granted(p, e)), s, e)
    BY <1>2, <1>5, <2>2, <2>3
  <2> QED
    BY <2>1, <2>4, GrantChanges DEF Added
<1> QED
  BY <1>3, <1>4, <1>5

(* A reconciled entity is told anew.                                        *)
LEMMA ReconcileChanges ==
  ASSUME NEW f \in Fans, NEW s \in Sessions, NEW e \in Sessions, Knowing(f, s), NEW r, r = reconcileCreate(f, s, e)
  PROVE  r \in Fans /\ OthersSame(f, r, s) /\ Added(f, r, s, e)
<1> DEFINE p == f.presence[s]
           G == EnsureVisible(p, e)
<1>1. G = IF ~p.active THEN {} ELSE IF e \in Visible(p) THEN {p}
          ELSE IF p.next = InvalidNetID THEN {} ELSE {Granted(p, e)}
  BY GrantIs
<1>2. r = IF G = {} THEN failRecipient(f, s)
          ELSE emitCreate(WithPresence(f, s, CHOOSE x \in G : TRUE), s, e)
  BY DEF reconcileCreate, WithPresence
<1>p. p \in Presences
  BY FanFields
<1>3. CASE G = {}
  BY <1>2, <1>3, FailChanges DEF Knowing, Added
<1>4. CASE p.active /\ e \in Visible(p)
  <2>1. (CHOOSE x \in G : TRUE) = p /\ G # {}
    BY <1>1, <1>4
  <2> DEFINE g == WithPresence(f, s, p)
  <2>2. r = emitCreate(g, s, e)
    BY <1>2, <2>1
  <2>3. /\ g \in Fans /\ OthersSame(f, g, s) /\ g.presence[s] = f.presence[s]
        /\ g.ready = f.ready /\ g.up = f.up /\ g.shown = f.shown /\ g.moving = f.moving
    BY <1>p, SetPresence
  <2>4. Visible(p) \cup {e} = Visible(p)
    BY <1>4
  <2> HIDE DEF g
  <2>5. /\ r \in Fans /\ OthersSame(g, r, s) /\ Changed(g, r, s, Visible(g.presence[s]))
    BY <1>4, <2>2, <2>3, EmitChanges DEF Knowing
  <2> QED
    BY <1>4, <2>3, <2>4, <2>5 DEF Added, Changed, OthersSame, SameView
<1>5. CASE G # {} /\ ~(p.active /\ e \in Visible(p))
  <2>1. p.active /\ e \notin Visible(p) /\ p.next # InvalidNetID /\ G = {Granted(p, e)}
    BY <1>1, <1>5
  <2>3. (CHOOSE x \in G : TRUE) = Granted(p, e)
    BY <2>1
  <2>4. r = emitCreate(WithPresence(f, s, Granted(p, e)), s, e)
    BY <1>2, <1>5, <2>3
  <2> QED
    BY <2>1, <2>4, GrantChanges DEF Added
<1> QED
  BY <1>3, <1>4, <1>5

LEMMA CancelIs ==
  ASSUME NEW f \in Fans, NEW s \in Sessions, NEW h
  PROVE  CancelState(f, s, h) = [presence |-> f.presence, ready |-> f.ready, up |-> f.up, shown |-> f.shown,
                                 moving |-> [f.moving EXCEPT ![s] = f.moving[s] \ {h}]]
<1>1. PICK pr, re, up, xs, xm : f = [presence |-> pr, ready |-> re, up |-> up, shown |-> xs, moving |-> xm]
  BY FanFields
<1>2. pr = f.presence /\ re = f.ready /\ up = f.up /\ xs = f.shown /\ xm = f.moving
  BY <1>1
<1>3. CancelState(f, s, h) = [f EXCEPT !.moving = [xm EXCEPT ![s] = xm[s] \ {h}]]
  BY <1>2 DEF CancelState
<1> QED
  BY <1>1, <1>2, <1>3

(* An entity is taken back, and what was still to be said of it.            *)
LEMMA DestroyChanges ==
  ASSUME NEW f \in Fans, NEW s \in Sessions, NEW e \in Sessions, e # s, Knowing(f, s),
         NEW r, r = removeViewerDestroy(f, s, e)
  PROVE  r \in Fans /\ OthersSame(f, r, s) /\ Changed(f, r, s, Visible(f.presence[s]) \ {e})
<1> DEFINE p == f.presence[s]
           h == p.forward[e]
           q == HideVisible(s, p, e)
<1>p. p \in Presences /\ HandlesOK(s, p)
  BY FanFields DEF Knowing
<1>0. r = IF e \notin Visible(p) THEN f
          ELSE IF s \in f.up THEN Hide([CancelState(f, s, h) EXCEPT !.shown[s] = @ \ {<<h, e>>}], s, e)
          ELSE Hide(failRecipient(f, s), s, e)
  BY DEF removeViewerDestroy
<1>1. CASE e \notin Visible(p)
  <2>1. r = f /\ Visible(p) \ {e} = Visible(p)
    BY <1>0, <1>1
  <2> QED
    BY <2>1 DEF Changed, OthersSame, SameView
<1>q. ASSUME e \in Visible(p)
      PROVE  /\ q \in Presences /\ (q.active <=> p.active) /\ q.center = p.center
             /\ Visible(q) = Visible(p) \ {e} /\ HandlesOK(s, q)
             /\ Told(q) = Told(p) \ {<<h, e>>}
  BY <1>p, <1>q, HideRetires
<1>2. CASE e \in Visible(p) /\ s \in f.up
  <2> DEFINE mv == f.moving[s] \ {h}
             sh == f.shown[s] \ {<<h, e>>}
             g == [CancelState(f, s, h) EXCEPT !.shown[s] = sh]
  <2>0. PICK pr, re, up, xs, xm : f = [presence |-> pr, ready |-> re, up |-> up, shown |-> xs, moving |-> xm]
    BY FanFields
  <2>1. r = Hide(g, s, e)
    <3>1. CancelState(f, s, h).shown[s] = f.shown[s]
      BY <2>0 DEF CancelState
    <3> QED
      BY <1>0, <1>2, <3>1
  <2>5. pr = f.presence /\ re = f.ready /\ up = f.up /\ xs = f.shown /\ xm = f.moving
    BY <2>0
  <2>2. CancelState(f, s, h) = [presence |-> pr, ready |-> re, up |-> up, shown |-> xs, moving |-> [xm EXCEPT ![s] = mv]]
    BY <2>5, CancelIs
  <2>3. mv \in SUBSET Nat /\ sh \in SUBSET (Nat \X Sessions)
    BY FanFields
  <2> HIDE DEF mv, sh
  <2>4. g = [presence |-> pr, ready |-> re, up |-> up, shown |-> [xs EXCEPT ![s] = sh], moving |-> [xm EXCEPT ![s] = mv]]
    BY <2>2
  <2>6. [xs EXCEPT ![s] = sh] \in [Sessions -> SUBSET (Nat \X Sessions)] /\ [xm EXCEPT ![s] = mv] \in [Sessions -> SUBSET Nat]
    BY <2>3, <2>5, FanFields
  <2>7. g \in Fans
    BY <2>4, <2>5, <2>6, FanFields DEF Fans
  <2>8. /\ g.presence = f.presence /\ g.ready = f.ready /\ g.up = f.up
        /\ g.shown[s] = sh /\ g.moving[s] = mv
        /\ \A t \in Sessions \ {s} : g.shown[t] = f.shown[t] /\ g.moving[t] = f.moving[t]
    <3>1. /\ g.presence = f.presence /\ g.ready = f.ready /\ g.up = f.up
          /\ g.shown = [f.shown EXCEPT ![s] = sh] /\ g.moving = [f.moving EXCEPT ![s] = mv]
      BY <2>4, <2>5
    <3>2. f.shown \in [Sessions -> SUBSET (Nat \X Sessions)] /\ f.moving \in [Sessions -> SUBSET Nat]
      BY FanFields
    <3> HIDE DEF g
    <3> QED
      BY <3>1, <3>2
  <2> HIDE DEF g
  <2>9. /\ r \in Fans /\ OthersSame(g, r, s) /\ r.presence[s] = q
        /\ r.ready = f.ready /\ r.up = f.up /\ r.shown = g.shown /\ r.moving = g.moving
    BY <2>1, <2>7, <2>8, HideFields
  <2>10. OthersSame(f, r, s)
    BY <2>8, <2>9 DEF OthersSame, SameView
  <2>11. Knowing(r, s)
    <3> HIDE DEF q, h, p
    <3>0. p = f.presence[s]
      BY DEF p
    <3> SUFFICES ASSUME <<s, s>> \notin torn
                 PROVE  /\ Told(q) \subseteq sh /\ (s \in f.ready => sh = Told(q))
                        /\ mv \subseteq Handles(sh)
      BY <1>q, <1>2, <2>8, <2>9 DEF Knowing
    <3>1. /\ Told(p) \subseteq f.shown[s] /\ (s \in f.ready => f.shown[s] = Told(p))
          /\ f.moving[s] \subseteq Handles(f.shown[s])
      BY <1>2, <3>0 DEF Knowing
    <3>2. Told(q) \subseteq sh /\ (s \in f.ready => sh = Told(q))
      BY <1>q, <1>2, <3>1 DEF sh
    <3>3. mv \subseteq Handles(sh)
      <4>1. ASSUME NEW k \in mv PROVE k \in Handles(sh)
        <5>1. PICK t \in f.shown[s] : t[1] = k
          BY <3>1 DEF mv, Handles
        <5>2. t \in sh
          BY <5>1 DEF mv, sh
        <5> QED
          BY <5>1, <5>2 DEF Handles
      <4> QED
        BY <4>1
    <3> QED
      BY <3>2, <3>3
  <2> QED
    BY <1>q, <1>2, <2>9, <2>10, <2>11 DEF Changed
<1>3. CASE e \in Visible(p) /\ s \notin f.up
  <2> DEFINE g == failRecipient(f, s)
  <2>1. r = Hide(g, s, e)
    BY <1>0, <1>3
  <2>2. g \in Fans /\ OthersSame(f, g, s) /\ g.presence = f.presence /\ s \notin g.ready /\ s \notin g.up
    BY FailFields
  <2> HIDE DEF g
  <2>3. /\ r \in Fans /\ OthersSame(g, r, s) /\ r.presence[s] = q
        /\ r.ready = g.ready /\ r.up = g.up
    BY <2>1, <2>2, HideFields
  <2> QED
    BY <1>q, <1>3, <2>2, <2>3 DEF Changed, Knowing, OthersSame, SameView
<1> QED
  BY <1>1, <1>2, <1>3

(* The own entity is never forgotten, though the client may be told so.     *)
LEMMA DestroyOwn ==
  ASSUME NEW f \in Fans, NEW s \in Sessions, Knowing(f, s), <<s, s>> \in torn,
         NEW r, r = removeViewerDestroy(f, s, s)
  PROVE  r \in Fans /\ OthersSame(f, r, s) /\ Changed(f, r, s, Visible(f.presence[s]))
<1> DEFINE p == f.presence[s]
           h == p.forward[s]
<1>p. p \in Presences /\ HandlesOK(s, p)
  BY FanFields DEF Knowing
<1>h. HideVisible(s, p, s) = p
  BY DEF HideVisible
<1>0. r = IF s \notin Visible(p) THEN f
          ELSE IF s \in f.up THEN Hide([CancelState(f, s, h) EXCEPT !.shown[s] = @ \ {<<h, s>>}], s, s)
          ELSE Hide(failRecipient(f, s), s, s)
  BY DEF removeViewerDestroy
<1>1. CASE s \notin Visible(p)
  BY <1>0, <1>1 DEF Changed, OthersSame, SameView
<1>2. CASE s \in Visible(p) /\ s \in f.up
  <2> DEFINE mv == f.moving[s] \ {h}
             sh == f.shown[s] \ {<<h, s>>}
             g == [CancelState(f, s, h) EXCEPT !.shown[s] = sh]
  <2>0. PICK pr, re, up, xs, xm : f = [presence |-> pr, ready |-> re, up |-> up, shown |-> xs, moving |-> xm]
    BY FanFields
  <2>1. r = Hide(g, s, s)
    <3>1. CancelState(f, s, h).shown[s] = f.shown[s]
      BY <2>0 DEF CancelState
    <3> QED
      BY <1>0, <1>2, <3>1
  <2>2. pr = f.presence /\ re = f.ready /\ up = f.up /\ xs = f.shown /\ xm = f.moving
    BY <2>0
  <2>3. CancelState(f, s, h) = [presence |-> pr, ready |-> re, up |-> up, shown |-> xs, moving |-> [xm EXCEPT ![s] = mv]]
    BY <2>2, CancelIs
  <2>4. mv \in SUBSET Nat /\ sh \in SUBSET (Nat \X Sessions)
    BY FanFields
  <2> HIDE DEF mv, sh
  <2>5. g = [presence |-> pr, ready |-> re, up |-> up, shown |-> [xs EXCEPT ![s] = sh], moving |-> [xm EXCEPT ![s] = mv]]
    BY <2>3
  <2>6. [xs EXCEPT ![s] = sh] \in [Sessions -> SUBSET (Nat \X Sessions)] /\ [xm EXCEPT ![s] = mv] \in [Sessions -> SUBSET Nat]
    BY <2>2, <2>4, FanFields
  <2>7. g \in Fans
    BY <2>2, <2>5, <2>6, FanFields DEF Fans
  <2>8. /\ g.presence = f.presence /\ g.ready = f.ready /\ g.up = f.up
        /\ \A t \in Sessions \ {s} : g.shown[t] = f.shown[t] /\ g.moving[t] = f.moving[t]
    <3>1. /\ g.presence = f.presence /\ g.ready = f.ready /\ g.up = f.up
          /\ g.shown = [f.shown EXCEPT ![s] = sh] /\ g.moving = [f.moving EXCEPT ![s] = mv]
      BY <2>2, <2>5
    <3>2. f.shown \in [Sessions -> SUBSET (Nat \X Sessions)] /\ f.moving \in [Sessions -> SUBSET Nat]
      BY FanFields
    <3> HIDE DEF g
    <3> QED
      BY <3>1, <3>2
  <2> HIDE DEF g
  <2>9. /\ r \in Fans /\ OthersSame(g, r, s) /\ r.presence[s] = HideVisible(s, g.presence[s], s)
        /\ r.ready = g.ready /\ r.up = g.up /\ r.shown = g.shown /\ r.moving = g.moving
    BY <2>1, <2>7, HideFields
  <2>10. OthersSame(f, r, s) /\ r.presence[s] = f.presence[s]
    BY <1>h, <2>8, <2>9 DEF OthersSame, SameView
  <2> QED
    BY <1>p, <2>8, <2>9, <2>10 DEF Changed, Knowing
<1>3. CASE s \in Visible(p) /\ s \notin f.up
  <2> DEFINE g == failRecipient(f, s)
  <2>1. r = Hide(g, s, s)
    BY <1>0, <1>3
  <2>2. g \in Fans /\ OthersSame(f, g, s) /\ g.presence = f.presence /\ s \notin g.ready /\ s \notin g.up
    BY FailFields
  <2> HIDE DEF g
  <2>3. /\ r \in Fans /\ OthersSame(g, r, s) /\ r.presence[s] = HideVisible(s, g.presence[s], s)
        /\ r.ready = g.ready /\ r.up = g.up
    BY <2>1, <2>2, HideFields
  <2> QED
    BY <1>p, <1>h, <2>2, <2>3 DEF Changed, Knowing, OthersSame, SameView
<1> QED
  BY <1>1, <1>2, <1>3

LEMMA RefreshChanges ==
  ASSUME NEW f \in Fans, NEW s \in Sessions, NEW e \in Sessions, Knowing(f, s), NEW r, r = refreshViewerPosition(f, s, e)
  PROVE  r \in Fans /\ OthersSame(f, r, s) /\ Changed(f, r, s, Visible(f.presence[s]))
<1> DEFINE h == f.presence[s].forward[e]
<1>p. f.presence[s] \in Presences
  BY FanFields
<1>0. PICK pr, re, up, xs, xm : f = [presence |-> pr, ready |-> re, up |-> up, shown |-> xs, moving |-> xm]
  BY FanFields
<1>f. pr = f.presence /\ re = f.ready /\ up = f.up /\ xs = f.shown /\ xm = f.moving
  BY <1>0
<1>1. CASE e \notin Visible(f.presence[s])
  BY <1>1 DEF refreshViewerPosition, Changed, OthersSame, SameView
<1>2. CASE e \in Visible(f.presence[s]) /\ s \notin f.up
  <2>1. r = [f EXCEPT !.ready = @ \ {s}]
    BY <1>2 DEF refreshViewerPosition, ClearReady
  <2>2. r = [presence |-> f.presence, ready |-> f.ready \ {s}, up |-> f.up, shown |-> f.shown, moving |-> f.moving]
    BY <1>0, <2>1
  <2>3. r \in Fans
    BY <2>2, FanFields DEF Fans
  <2> QED
    BY <1>2, <2>2, <2>3 DEF Changed, Knowing, OthersSame, SameView
<1>3. CASE e \in Visible(f.presence[s]) /\ s \in f.up
  <2> DEFINE new == f.moving[s] \cup {h}
  <2>1. r = [f EXCEPT !.moving[s] = new]
    BY <1>3 DEF refreshViewerPosition
  <2>2. h \in Nat
    BY <1>p, <1>3, PresenceFields
  <2>3. new \in SUBSET Nat
    BY <2>2, FanFields
  <2>h. <<s, s>> \notin torn => new \subseteq Handles(f.shown[s])
    <3> SUFFICES ASSUME <<s, s>> \notin torn PROVE new \subseteq Handles(f.shown[s])
      OBVIOUS
    <3>1. <<h, e>> \in Told(f.presence[s])
      BY <1>3 DEF Told
    <3>2. <<h, e>> \in f.shown[s] /\ f.moving[s] \subseteq Handles(f.shown[s])
      BY <1>3, <3>1 DEF Knowing
    <3> QED
      BY <3>2 DEF Handles
  <2> HIDE DEF new
  <2>4. r = [presence |-> f.presence, ready |-> f.ready, up |-> f.up, shown |-> f.shown, moving |-> [f.moving EXCEPT ![s] = new]]
    BY <1>0, <1>f, <2>1
  <2>5. [f.moving EXCEPT ![s] = new] \in [Sessions -> SUBSET Nat]
    BY <2>3, FanFields
  <2>6. r \in Fans
    BY <2>4, <2>5, FanFields DEF Fans
  <2>7. \A t \in Sessions : r.moving[t] = IF t = s THEN new ELSE f.moving[t]
    BY <2>4, FanFields
  <2>8. Knowing(r, s)
    BY <1>3, <2>4, <2>7, <2>h DEF Knowing
  <2> QED
    BY <2>4, <2>6, <2>7, <2>8 DEF Changed, OthersSame, SameView
<1> QED
  BY <1>1, <1>2, <1>3

LEMMA FailAndHideChanges ==
  ASSUME NEW f \in Fans, NEW s \in Sessions, NEW e \in Sessions, HandlesOK(s, f.presence[s]),
         NEW r, r = Hide(failRecipient(f, s), s, e)
  PROVE  r \in Fans /\ OthersSame(f, r, s) /\ HandlesOK(s, r.presence[s]) /\ s \notin r.up /\ s \notin r.ready
         /\ r.moving[s] = {}
         /\ r.presence[s].center = f.presence[s].center /\ (r.presence[s].active <=> f.presence[s].active)
<1> DEFINE g == failRecipient(f, s)
<1>1. g \in Fans /\ OthersSame(f, g, s) /\ g.presence = f.presence /\ s \notin g.ready /\ s \notin g.up /\ g.moving[s] = {}
  BY FailFields
<1>2. r = Hide(g, s, e)
  OBVIOUS
<1> HIDE DEF g
<1>3. /\ r \in Fans /\ OthersSame(g, r, s) /\ r.presence[s] = HideVisible(s, g.presence[s], e)
      /\ r.ready = g.ready /\ r.up = g.up /\ r.moving = g.moving
  BY <1>1, <1>2, HideFields
<1>4. f.presence[s] \in Presences
  BY FanFields
<1>5. /\ HandlesOK(s, r.presence[s])
      /\ r.presence[s].center = f.presence[s].center /\ (r.presence[s].active <=> f.presence[s].active)
  BY <1>1, <1>3, <1>4, HideFromPresence
<1> QED
  BY <1>1, <1>3, <1>5 DEF OthersSame, SameView

FailedAndHidden(f, g, s) ==
  /\ HandlesOK(s, g.presence[s]) /\ s \notin g.up /\ s \notin g.ready /\ g.moving[s] = {}
  /\ g.presence[s].center = f.presence[s].center /\ (g.presence[s].active <=> f.presence[s].active)

(* What all those visited see afterwards, and that the others see the same. *)
LEMMA AddAll ==
  ASSUME NEW f \in Fans, NEW e \in Sessions, NEW S \in SUBSET Sessions, \A s \in S : Knowing(f, s),
         NEW g, g = AddTo(f, S, e)
  PROVE  g \in Fans /\ (\A s \in S : Added(f, g, s, e)) /\ \A s \in Sessions \ S : SameView(f, g, s)
<1> DEFINE Good(m, k) == (\A s \in m : Added(f, k, s, e)) /\ \A s \in Sessions \ m : SameView(f, k, s)
           P == [m \in SUBSET S |-> {k \in Fans : Good(m, k)}]
<1>1. f \in P[{}]
  BY DEF SameView
<1>2. ASSUME NEW m \in SUBSET S, NEW x \in S \ m, NEW k \in P[m] PROVE addViewerCreate(k, x, e) \in P[m \cup {x}]
  <2> DEFINE r == addViewerCreate(k, x, e)
  <2>1. k \in Fans /\ Good(m, k)
    OBVIOUS
  <2>2. SameView(f, k, x)
    BY <2>1
  <2>3. Knowing(k, x)
    BY <2>2 DEF Knowing, SameView
  <2>4. r \in Fans /\ OthersSame(k, r, x) /\ Added(k, r, x, e)
    BY <2>1, <2>3, AddChanges DEF Added, Changed
  <2> HIDE DEF r
  <2>5. Added(f, r, x, e)
    BY <2>2, <2>4 DEF Added, Changed, SameView
  <2>6. ASSUME NEW s \in m PROVE Added(f, r, s, e)
    <3>1. SameView(k, r, s) /\ Added(f, k, s, e)
      BY <2>1, <2>4 DEF OthersSame
    <3> QED
      BY <3>1 DEF Added, Changed, Knowing, SameView
  <2>7. ASSUME NEW s \in Sessions \ (m \cup {x}) PROVE SameView(f, r, s)
    <3>1. SameView(k, r, s) /\ SameView(f, k, s)
      BY <2>1, <2>4 DEF OthersSame
    <3> QED
      BY <3>1 DEF SameView
  <2>8. Good(m \cup {x}, r)
    BY <2>5, <2>6, <2>7
  <2> HIDE DEF Good
  <2> QED
    BY <2>4, <2>8 DEF r
<1>3. IsFiniteSet(S) /\ S \subseteq Nat
  BY PresenceConstants, FS_Subset
<1>4. AddTo(f, S, e) \in P[S]
  <2> HIDE DEF P
  <2> QED
    BY <1>1, <1>2, <1>3, VisitsAdd
<1> QED
  BY <1>4

LEMMA DestroyAll ==
  ASSUME NEW f \in Fans, NEW e \in Sessions, NEW S \in SUBSET Sessions, e \notin S, \A s \in S : Knowing(f, s),
         NEW g, g = DestroyAt(f, S, e)
  PROVE  g \in Fans /\ (\A s \in S : Changed(f, g, s, Visible(f.presence[s]) \ {e})) /\ \A s \in Sessions \ S : SameView(f, g, s)
<1> DEFINE Good(m, k) == (\A s \in m : Changed(f, k, s, Visible(f.presence[s]) \ {e})) /\ \A s \in Sessions \ m : SameView(f, k, s)
           P == [m \in SUBSET S |-> {k \in Fans : Good(m, k)}]
<1>1. f \in P[{}]
  BY DEF SameView
<1>2. ASSUME NEW m \in SUBSET S, NEW x \in S \ m, NEW k \in P[m] PROVE removeViewerDestroy(k, x, e) \in P[m \cup {x}]
  <2> DEFINE r == removeViewerDestroy(k, x, e)
  <2>1. k \in Fans /\ Good(m, k)
    OBVIOUS
  <2>2. SameView(f, k, x)
    BY <2>1
  <2>3. Knowing(k, x)
    BY <2>2 DEF Knowing, SameView
  <2>4. r \in Fans /\ OthersSame(k, r, x) /\ Changed(k, r, x, Visible(k.presence[x]) \ {e})
    BY <2>1, <2>3, DestroyChanges DEF Changed
  <2> HIDE DEF r
  <2>5. Changed(f, r, x, Visible(f.presence[x]) \ {e})
    BY <2>2, <2>4 DEF Changed, SameView
  <2>6. ASSUME NEW s \in m PROVE Changed(f, r, s, Visible(f.presence[s]) \ {e})
    <3>1. SameView(k, r, s) /\ Changed(f, k, s, Visible(f.presence[s]) \ {e})
      BY <2>1, <2>4 DEF OthersSame
    <3> QED
      BY <3>1 DEF Changed, Knowing, SameView
  <2>7. ASSUME NEW s \in Sessions \ (m \cup {x}) PROVE SameView(f, r, s)
    <3>1. SameView(k, r, s) /\ SameView(f, k, s)
      BY <2>1, <2>4 DEF OthersSame
    <3> QED
      BY <3>1 DEF SameView
  <2>8. Good(m \cup {x}, r)
    BY <2>5, <2>6, <2>7
  <2> HIDE DEF Good
  <2> QED
    BY <2>4, <2>8 DEF r
<1>3. IsFiniteSet(S) /\ S \subseteq Nat
  BY PresenceConstants, FS_Subset
<1>4. DestroyAt(f, S, e) \in P[S]
  <2> HIDE DEF P
  <2> QED
    BY <1>1, <1>2, <1>3, VisitsDestroy
<1> QED
  BY <1>4

LEMMA RefreshAll ==
  ASSUME NEW f \in Fans, NEW e \in Sessions, NEW S \in SUBSET Sessions, \A s \in S : Knowing(f, s),
         NEW g, g = RefreshAt(f, S, e)
  PROVE  g \in Fans /\ (\A s \in S : Changed(f, g, s, Visible(f.presence[s]))) /\ \A s \in Sessions \ S : SameView(f, g, s)
<1> DEFINE Good(m, k) == (\A s \in m : Changed(f, k, s, Visible(f.presence[s]))) /\ \A s \in Sessions \ m : SameView(f, k, s)
           P == [m \in SUBSET S |-> {k \in Fans : Good(m, k)}]
<1>1. f \in P[{}]
  BY DEF SameView
<1>2. ASSUME NEW m \in SUBSET S, NEW x \in S \ m, NEW k \in P[m] PROVE refreshViewerPosition(k, x, e) \in P[m \cup {x}]
  <2> DEFINE r == refreshViewerPosition(k, x, e)
  <2>1. k \in Fans /\ Good(m, k)
    OBVIOUS
  <2>2. SameView(f, k, x)
    BY <2>1
  <2>3. Knowing(k, x)
    BY <2>2 DEF Knowing, SameView
  <2>4. r \in Fans /\ OthersSame(k, r, x) /\ Changed(k, r, x, Visible(k.presence[x]))
    BY <2>1, <2>3, RefreshChanges DEF Changed
  <2> HIDE DEF r
  <2>5. Changed(f, r, x, Visible(f.presence[x]))
    BY <2>2, <2>4 DEF Changed, SameView
  <2>6. ASSUME NEW s \in m PROVE Changed(f, r, s, Visible(f.presence[s]))
    <3>1. SameView(k, r, s) /\ Changed(f, k, s, Visible(f.presence[s]))
      BY <2>1, <2>4 DEF OthersSame
    <3> QED
      BY <3>1 DEF Changed, Knowing, SameView
  <2>7. ASSUME NEW s \in Sessions \ (m \cup {x}) PROVE SameView(f, r, s)
    <3>1. SameView(k, r, s) /\ SameView(f, k, s)
      BY <2>1, <2>4 DEF OthersSame
    <3> QED
      BY <3>1 DEF SameView
  <2>8. Good(m \cup {x}, r)
    BY <2>5, <2>6, <2>7
  <2> HIDE DEF Good
  <2> QED
    BY <2>4, <2>8 DEF r
<1>3. IsFiniteSet(S) /\ S \subseteq Nat
  BY PresenceConstants, FS_Subset
<1>4. RefreshAt(f, S, e) \in P[S]
  <2> HIDE DEF P
  <2> QED
    BY <1>1, <1>2, <1>3, VisitsRefresh
<1> QED
  BY <1>4

LEMMA FailAll ==
  ASSUME NEW f \in Fans, NEW S \in SUBSET Sessions, \A s \in S : HandlesOK(s, f.presence[s]),
         NEW g, g = FailOf(f, S)
  PROVE  g \in Fans /\ (\A s \in S : FailedAndHidden(f, g, s)) /\ \A s \in Sessions \ S : SameView(f, g, s)
<1> DEFINE Good(m, k) == (\A s \in m : FailedAndHidden(f, k, s)) /\ \A s \in Sessions \ m : SameView(f, k, s)
           P == [m \in SUBSET S |-> {k \in Fans : Good(m, k)}]
<1>1. f \in P[{}]
  BY DEF SameView
<1>2. ASSUME NEW m \in SUBSET S, NEW x \in S \ m, NEW k \in P[m] PROVE failRecipient(k, x) \in P[m \cup {x}]
  <2> DEFINE r == failRecipient(k, x)
  <2>1. k \in Fans /\ Good(m, k)
    OBVIOUS
  <2>2. SameView(f, k, x)
    BY <2>1
  <2>3. HandlesOK(x, k.presence[x])
    BY <2>2 DEF Knowing, SameView
  <2>4. r \in Fans /\ OthersSame(k, r, x) /\ FailedAndHidden(k, r, x)
    BY <2>1, <2>3, FailFields DEF FailedAndHidden
  <2> HIDE DEF r
  <2>5. FailedAndHidden(f, r, x)
    BY <2>2, <2>4 DEF FailedAndHidden, SameView
  <2>6. ASSUME NEW s \in m PROVE FailedAndHidden(f, r, s)
    <3>1. SameView(k, r, s) /\ FailedAndHidden(f, k, s)
      BY <2>1, <2>4 DEF OthersSame
    <3> QED
      BY <3>1 DEF FailedAndHidden, Knowing, SameView
  <2>7. ASSUME NEW s \in Sessions \ (m \cup {x}) PROVE SameView(f, r, s)
    <3>1. SameView(k, r, s) /\ SameView(f, k, s)
      BY <2>1, <2>4 DEF OthersSame
    <3> QED
      BY <3>1 DEF SameView
  <2>8. Good(m \cup {x}, r)
    BY <2>5, <2>6, <2>7
  <2> HIDE DEF Good
  <2> QED
    BY <2>4, <2>8 DEF r
<1>3. IsFiniteSet(S) /\ S \subseteq Nat
  BY PresenceConstants, FS_Subset
<1>4. FailOf(f, S) \in P[S]
  <2> HIDE DEF P
  <2> QED
    BY <1>1, <1>2, <1>3, VisitsFail
<1> QED
  BY <1>4

LEMMA FailAndHideAll ==
  ASSUME NEW f \in Fans, NEW e \in Sessions, NEW S \in SUBSET Sessions, \A s \in S : HandlesOK(s, f.presence[s]),
         NEW g, g = FailAndHide(f, S, e)
  PROVE  g \in Fans /\ (\A s \in S : FailedAndHidden(f, g, s)) /\ \A s \in Sessions \ S : SameView(f, g, s)
<1> DEFINE Good(m, k) == (\A s \in m : FailedAndHidden(f, k, s)) /\ \A s \in Sessions \ m : SameView(f, k, s)
           P == [m \in SUBSET S |-> {k \in Fans : Good(m, k)}]
<1>1. f \in P[{}]
  BY DEF SameView
<1>2. ASSUME NEW m \in SUBSET S, NEW x \in S \ m, NEW k \in P[m] PROVE Hide(failRecipient(k, x), x, e) \in P[m \cup {x}]
  <2> DEFINE r == Hide(failRecipient(k, x), x, e)
  <2>1. k \in Fans /\ Good(m, k)
    OBVIOUS
  <2>2. SameView(f, k, x)
    BY <2>1
  <2>3. HandlesOK(x, k.presence[x])
    BY <2>2 DEF Knowing, SameView
  <2>4. r \in Fans /\ OthersSame(k, r, x) /\ FailedAndHidden(k, r, x)
    BY <2>1, <2>3, FailAndHideChanges DEF FailedAndHidden
  <2> HIDE DEF r
  <2>5. FailedAndHidden(f, r, x)
    BY <2>2, <2>4 DEF FailedAndHidden, SameView
  <2>6. ASSUME NEW s \in m PROVE FailedAndHidden(f, r, s)
    <3>1. SameView(k, r, s) /\ FailedAndHidden(f, k, s)
      BY <2>1, <2>4 DEF OthersSame
    <3> QED
      BY <3>1 DEF FailedAndHidden, Knowing, SameView
  <2>7. ASSUME NEW s \in Sessions \ (m \cup {x}) PROVE SameView(f, r, s)
    <3>1. SameView(k, r, s) /\ SameView(f, k, s)
      BY <2>1, <2>4 DEF OthersSame
    <3> QED
      BY <3>1 DEF SameView
  <2>8. Good(m \cup {x}, r)
    BY <2>5, <2>6, <2>7
  <2> HIDE DEF Good
  <2> QED
    BY <2>4, <2>8 DEF r
<1>3. IsFiniteSet(S) /\ S \subseteq Nat
  BY PresenceConstants, FS_Subset
<1>4. FailAndHide(f, S, e) \in P[S]
  <2> HIDE DEF P
  <2> QED
    BY <1>1, <1>2, <1>3, VisitsFailAndHide
<1> QED
  BY <1>4

LEMMA ChangedAgain ==
  ASSUME NEW f, NEW s \in Sessions, NEW V, NEW W, NEW g, Changed(f, g, s, V), NEW r, Changed(g, r, s, W),
         OthersSame(f, g, s), OthersSame(g, r, s)
  PROVE  Changed(f, r, s, W) /\ OthersSame(f, r, s)
<1>1. Changed(f, r, s, W)
  BY DEF Changed
<1>2. OthersSame(f, r, s)
  BY DEF OthersSame, SameView
<1> QED
  BY <1>1, <1>2

LEMMA ReconcileAll ==
  ASSUME NEW f \in Fans, NEW s \in Sessions, NEW S \in SUBSET Sessions, Knowing(f, s),
         NEW g, g = ReconcileTo(f, s, S)
  PROVE  /\ g \in Fans /\ OthersSame(f, g, s)
         /\ Changed(f, g, s, Visible(f.presence[s]) \cup S)
<1> DEFINE Good(m, k) == OthersSame(f, k, s) /\ Changed(f, k, s, Visible(f.presence[s]) \cup m)
           P == [m \in SUBSET S |-> {k \in Fans : Good(m, k)}]
<1>1. f \in P[{}]
  BY DEF SameView, OthersSame, Changed
<1>2. ASSUME NEW m \in SUBSET S, NEW x \in S \ m, NEW k \in P[m] PROVE reconcileCreate(k, s, x) \in P[m \cup {x}]
  <2> DEFINE r == reconcileCreate(k, s, x)
  <2>1. k \in Fans /\ Good(m, k)
    OBVIOUS
  <2>2. Knowing(k, s)
    BY <2>1 DEF Changed
  <2>3. r \in Fans /\ OthersSame(k, r, s) /\ Changed(k, r, s, Visible(k.presence[s]) \cup {x})
    BY <2>1, <2>2, ReconcileChanges DEF Added
  <2> HIDE DEF r
  <2>4. Changed(f, r, s, Visible(k.presence[s]) \cup {x}) /\ OthersSame(f, r, s)
    BY <2>1, <2>3, ChangedAgain
  <2>5. s \in r.up => s \in k.up
    BY <2>3 DEF Changed
  <2>6. s \in k.up => Visible(k.presence[s]) = Visible(f.presence[s]) \cup m
    BY <2>1 DEF Changed
  <2>7. Changed(f, r, s, Visible(f.presence[s]) \cup (m \cup {x}))
    <3>1. s \in r.up => Visible(k.presence[s]) \cup {x} = Visible(f.presence[s]) \cup (m \cup {x})
      BY <2>5, <2>6
    <3> QED
      BY <2>4, <3>1 DEF Changed
  <2>8. Good(m \cup {x}, r)
    BY <2>4, <2>7
  <2> HIDE DEF Good
  <2> QED
    BY <2>3, <2>8 DEF r
<1>3. IsFiniteSet(S) /\ S \subseteq Nat
  BY PresenceConstants, FS_Subset
<1>4. ReconcileTo(f, s, S) \in P[S]
  <2> HIDE DEF P
  <2> QED
    BY <1>1, <1>2, <1>3, VisitsReconcile
<1> QED
  BY <1>4

LEMMA RetireAll ==
  ASSUME NEW f \in Fans, NEW s \in Sessions, NEW S \in SUBSET Sessions, s \notin S, Knowing(f, s),
         NEW g, g = RetireFrom(f, s, S)
  PROVE  /\ g \in Fans /\ OthersSame(f, g, s)
         /\ Changed(f, g, s, Visible(f.presence[s]) \ S)
<1> DEFINE Good(m, k) == OthersSame(f, k, s) /\ Changed(f, k, s, Visible(f.presence[s]) \ m)
           P == [m \in SUBSET S |-> {k \in Fans : Good(m, k)}]
<1>1. f \in P[{}]
  BY DEF SameView, OthersSame, Changed
<1>2. ASSUME NEW m \in SUBSET S, NEW x \in S \ m, NEW k \in P[m] PROVE removeViewerDestroy(k, s, x) \in P[m \cup {x}]
  <2> DEFINE r == removeViewerDestroy(k, s, x)
  <2>1. k \in Fans /\ Good(m, k)
    OBVIOUS
  <2>2. Knowing(k, s)
    BY <2>1 DEF Changed
  <2>3. r \in Fans /\ OthersSame(k, r, s) /\ Changed(k, r, s, Visible(k.presence[s]) \ {x})
    BY <2>1, <2>2, DestroyChanges
  <2> HIDE DEF r
  <2>4. Changed(f, r, s, Visible(k.presence[s]) \ {x}) /\ OthersSame(f, r, s)
    BY <2>1, <2>3, ChangedAgain
  <2>5. s \in r.up => s \in k.up
    BY <2>3 DEF Changed
  <2>6. s \in k.up => Visible(k.presence[s]) = Visible(f.presence[s]) \ m
    BY <2>1 DEF Changed
  <2>7. Changed(f, r, s, Visible(f.presence[s]) \ (m \cup {x}))
    <3>1. s \in r.up => Visible(k.presence[s]) \ {x} = Visible(f.presence[s]) \ (m \cup {x})
      BY <2>5, <2>6
    <3> QED
      BY <2>4, <3>1 DEF Changed
  <2>8. Good(m \cup {x}, r)
    BY <2>4, <2>7
  <2> HIDE DEF Good
  <2> QED
    BY <2>3, <2>8 DEF r
<1>3. IsFiniteSet(S) /\ S \subseteq Nat
  BY PresenceConstants, FS_Subset
<1>4. RetireFrom(f, s, S) \in P[S]
  <2> HIDE DEF P
  <2> QED
    BY <1>1, <1>2, <1>3, VisitsRetire
<1> QED
  BY <1>4

(* A view that is reconciled is of exactly who is near.                     *)
Near(f, s, at) == {s} \cup EntitiesInCell(at, BaseAOICells(f.presence[s].center))

LEMMA ReconcileIs ==
  ASSUME NEW f, NEW s, NEW at
  PROVE  reconcileVisibleSet(f, s, at) =
           LET desired == {s} \cup EntitiesInCell(at, BaseAOICells(f.presence[s].center))
               visible == Visible(f.presence[s])
               created == ReconcileTo(f, s, desired \ visible)
           IN RetireFrom(created, s, (visible \ desired) \ {s})
BY Zenon DEF reconcileVisibleSet, ReconcileTo, RetireFrom

LEMMA ViewReconciled ==
  ASSUME NEW f \in Fans, NEW s \in Sessions, Knowing(f, s), NEW at,
         NEW r, r = reconcileVisibleSet(f, s, at)
  PROVE  r \in Fans /\ OthersSame(f, r, s) /\ Changed(f, r, s, Near(f, s, at))
<1> DEFINE D == Near(f, s, at)
           V == Visible(f.presence[s])
           g == ReconcileTo(f, s, D \ V)
<1>1. D \in SUBSET Sessions /\ s \in D
  BY DEF Near, EntitiesInCell
<1>2. V \in SUBSET Sessions
  BY FanFields, PresenceFields
<1>3. r = RetireFrom(g, s, (V \ D) \ {s})
  BY ReconcileIs DEF Near
<1> HIDE DEF D
<1>4. g \in Fans /\ OthersSame(f, g, s) /\ Changed(f, g, s, V \cup (D \ V))
  BY <1>1, <1>2, ReconcileAll
<1> HIDE DEF g, V
<1>5. Knowing(g, s)
  BY <1>4 DEF Changed
<1>6. r \in Fans /\ OthersSame(g, r, s) /\ Changed(g, r, s, Visible(g.presence[s]) \ ((V \ D) \ {s}))
  BY <1>2, <1>3, <1>4, <1>5, RetireAll
<1>7. OthersSame(f, r, s) /\ Changed(f, r, s, Visible(g.presence[s]) \ ((V \ D) \ {s}))
  BY <1>4, <1>6, ChangedAgain
<1>8. s \in r.up => Visible(g.presence[s]) \ ((V \ D) \ {s}) = D
  <2>1. s \in r.up => Visible(g.presence[s]) = V \cup (D \ V)
    BY <1>4, <1>6 DEF Changed
  <2> QED
    BY <2>1, <1>1
<1>9. Changed(f, r, s, D)
  BY <1>7, <1>8 DEF Changed
<1> QED
  BY <1>6, <1>7, <1>9 DEF D

(* An entity that is moved elsewhere: its own session's center follows, the *)
(* rest is told by the three visits.                                        *)
Centered(f, e, cell) ==
  IF ~f.presence[e].active THEN f ELSE [f EXCEPT !.presence[e] = UpdateCenter(@, cell)]

LEMMA RelocateIs ==
  ASSUME NEW f, NEW e, NEW cell
  PROVE  RelocateEntity(f, e, cell) =
           LET centered == Centered(f, e, cell)
               desired == Subscribers(centered.presence, cell) \cap f.ready
               current == Viewers(f.presence, e) \cap f.ready
               created == AddTo(centered, desired \ current, e)
               removed == DestroyAt(created, current \ desired, e)
           IN RefreshAt(removed, current \cap desired, e)
BY Zenon DEF RelocateEntity, AddTo, DestroyAt, RefreshAt, Centered

LEMMA CenterFields ==
  ASSUME NEW f \in Fans, NEW e \in Sessions, NEW c \in Int, NEW g, g = WithPresence(f, e, UpdateCenter(f.presence[e], c))
  PROVE  /\ g \in Fans /\ OthersSame(f, g, e)
         /\ g.ready = f.ready /\ g.up = f.up /\ g.shown = f.shown /\ g.moving = f.moving
         /\ g.presence[e].forward = f.presence[e].forward /\ g.presence[e].next = f.presence[e].next
         /\ (g.presence[e].active <=> f.presence[e].active) /\ g.presence[e].center = c
         /\ HandlesOK(e, f.presence[e]) => HandlesOK(e, g.presence[e])
         /\ Knowing(f, e) => Knowing(g, e)
<1> DEFINE p == f.presence[e]
           q == UpdateCenter(p, c)
<1>1. p \in Presences
  BY FanFields
<1>2. q = [active |-> p.active, center |-> c, forward |-> p.forward, next |-> p.next]
  BY <1>1, PresenceFields DEF UpdateCenter
<1>3. q \in Presences
  BY <1>1, <1>2 DEF Presences
<1>4. g = WithPresence(f, e, q)
  OBVIOUS
<1> HIDE DEF q
<1>5. /\ g \in Fans /\ OthersSame(f, g, e) /\ g.presence[e] = q
      /\ g.ready = f.ready /\ g.up = f.up /\ g.shown = f.shown /\ g.moving = f.moving
  BY <1>3, <1>4, SetPresence
<1>6. Visible(q) = Visible(p) /\ Told(q) = Told(p)
  BY <1>2 DEF Visible, Told
<1>7. HandlesOK(e, p) => HandlesOK(e, q)
  BY <1>2, <1>6 DEF HandlesOK
<1>8. Knowing(f, e) => Knowing(g, e)
  BY <1>5, <1>6, <1>7 DEF Knowing
<1> QED
  BY <1>2, <1>5, <1>7, <1>8

(* The viewers that a relocation leaves the entity with.                    *)
Seen(f, e, cell, s) ==
  LET g == Centered(f, e, cell)
  IN IF s \in Subscribers(g.presence, cell) THEN Visible(f.presence[s]) \cup {e} ELSE Visible(f.presence[s]) \ {e}

LEMMA SameKnowing ==
  ASSUME NEW f, NEW g, NEW h, NEW s \in Sessions, SameView(f, g, s), SameView(g, h, s), Knowing(f, s)
  PROVE  Knowing(h, s)
<1>1. Knowing(g, s)
  BY DEF Knowing, SameView
<1> QED
  BY <1>1 DEF Knowing, SameView

LEMMA RelocateTells ==
  ASSUME NEW f \in Fans, NEW e \in Sessions, NEW cell \in Cells, f.presence[e].active,
         \A s \in f.ready : Knowing(f, s),
         NEW g, g = Centered(f, e, cell), NEW r, r = RelocateEntity(f, e, cell)
  PROVE  /\ r \in Fans
         /\ \A s \in f.ready : Changed(g, r, s, Seen(f, e, cell, s))
         /\ \A s \in Sessions \ f.ready : SameView(g, r, s)
<1> DEFINE D == Subscribers(g.presence, cell) \cap f.ready
           C == Viewers(f.presence, e) \cap f.ready
           a == AddTo(g, D \ C, e)
           d == DestroyAt(a, C \ D, e)
<1>1. r = RefreshAt(d, C \cap D, e)
  BY RelocateIs
<1>2. cell \in Int /\ cell \in BaseAOICells(cell)
  BY PresenceConstants DEF BaseAOICells
<1>3. /\ g \in Fans /\ OthersSame(f, g, e) /\ g.ready = f.ready /\ g.up = f.up
      /\ g.presence[e].forward = f.presence[e].forward
      /\ (g.presence[e].active <=> f.presence[e].active) /\ g.presence[e].center = cell
      /\ Knowing(f, e) => Knowing(g, e)
  <2>1. g = WithPresence(f, e, UpdateCenter(f.presence[e], cell))
    BY DEF Centered, WithPresence
  <2> QED
    BY <1>2, <2>1, CenterFields
<1>4. ASSUME NEW s \in Sessions PROVE Visible(g.presence[s]) = Visible(f.presence[s]) /\ (s \in f.ready => Knowing(g, s))
  BY <1>3 DEF OthersSame, SameView, Knowing, Visible
<1>5. e \notin C \ D
  BY <1>2, <1>3 DEF Subscribers
<1>6. D \in SUBSET f.ready /\ C \in SUBSET f.ready /\ f.ready \in SUBSET Sessions
  BY FanFields
<1>7. \A s \in f.ready : s \in C <=> e \in Visible(g.presence[s])
  BY <1>4, <1>6 DEF Viewers
<1>8. \A s \in f.ready : Seen(f, e, cell, s) = IF s \in D THEN Visible(g.presence[s]) \cup {e} ELSE Visible(g.presence[s]) \ {e}
  BY <1>4, <1>6 DEF Seen
<1> HIDE DEF D, C
<1>9. a \in Fans /\ (\A s \in D \ C : Added(g, a, s, e)) /\ \A s \in Sessions \ (D \ C) : SameView(g, a, s)
  <2>1. \A s \in D \ C : Knowing(g, s)
    BY <1>4, <1>6
  <2>2. D \ C \in SUBSET Sessions
    BY <1>6
  <2> QED
    BY <1>3, <2>1, <2>2, AddAll
<1> HIDE DEF a
<1>10. \A s \in C \ D : Knowing(a, s)
  BY <1>4, <1>6, <1>9 DEF Knowing, SameView
<1>11. /\ d \in Fans /\ (\A s \in C \ D : Changed(a, d, s, Visible(a.presence[s]) \ {e}))
       /\ \A s \in Sessions \ (C \ D) : SameView(a, d, s)
  <2>1. C \ D \in SUBSET Sessions
    BY <1>6
  <2> QED
    BY <1>5, <1>9, <1>10, <2>1, DestroyAll
<1> HIDE DEF d
<1>12. ASSUME NEW s \in C \cap D PROVE Knowing(d, s)
  <2>1. s \in Sessions /\ Knowing(g, s)
    BY <1>4, <1>6
  <2>2. SameView(g, a, s) /\ SameView(a, d, s)
    BY <1>9, <1>11, <2>1
  <2> QED
    BY <2>1, <2>2, SameKnowing
<1>13. /\ r \in Fans /\ (\A s \in C \cap D : Changed(d, r, s, Visible(d.presence[s])))
       /\ \A s \in Sessions \ (C \cap D) : SameView(d, r, s)
  <2>1. C \cap D \in SUBSET Sessions
    BY <1>6
  <2> QED
    BY <1>1, <1>11, <1>12, <2>1, RefreshAll
<1>14. ASSUME NEW s \in Sessions, s \notin C \cup D PROVE SameView(g, r, s)
  <2>1. SameView(g, a, s) /\ SameView(a, d, s) /\ SameView(d, r, s)
    BY <1>9, <1>11, <1>13, <1>14
  <2> QED
    BY <2>1 DEF SameView
<1>15. ASSUME NEW s \in f.ready PROVE Changed(g, r, s, Seen(f, e, cell, s))
  <2> s \in Sessions
    BY <1>6
  <2> DEFINE V == Visible(g.presence[s])
  <2>0. Seen(f, e, cell, s) = (IF s \in D THEN V \cup {e} ELSE V \ {e}) /\ (s \in C <=> e \in V)
    BY <1>7, <1>8
  <2>1. CASE s \in D \ C
    <3>1. Changed(g, a, s, V \cup {e})
      BY <1>9, <2>1 DEF Added
    <3>2. SameView(a, d, s) /\ SameView(d, r, s)
      BY <1>11, <1>13, <2>1
    <3> QED
      BY <2>0, <2>1, <3>1, <3>2 DEF Changed, Knowing, SameView
  <2>2. CASE s \in C \ D
    <3>1. Changed(a, d, s, Visible(a.presence[s]) \ {e})
      BY <1>11, <2>2
    <3>2. SameView(g, a, s) /\ SameView(d, r, s)
      BY <1>9, <1>13, <2>2
    <3>3. Visible(a.presence[s]) = V
      BY <3>2 DEF SameView
    <3> HIDE DEF V
    <3> QED
      BY <2>0, <2>2, <3>1, <3>2, <3>3 DEF Changed, Knowing, SameView
  <2>3. CASE s \in C \cap D
    <3>1. Changed(d, r, s, Visible(d.presence[s]))
      BY <1>13, <2>3
    <3>2. SameView(g, a, s) /\ SameView(a, d, s)
      BY <1>9, <1>11, <2>3
    <3>3. Visible(d.presence[s]) = V /\ V \cup {e} = V
      BY <2>0, <2>3, <3>2 DEF SameView
    <3> HIDE DEF V
    <3> QED
      BY <2>0, <2>3, <3>1, <3>2, <3>3 DEF Changed, SameView
  <2>4. CASE s \notin C \cup D
    <3>1. SameView(g, r, s) /\ Knowing(g, s) /\ V \ {e} = V
      BY <1>4, <1>14, <2>0, <2>4
    <3> QED
      BY <2>0, <2>4, <3>1 DEF Changed, Knowing, SameView
  <2> QED
    BY <2>1, <2>2, <2>3, <2>4
<1>16. ASSUME NEW s \in Sessions \ f.ready PROVE SameView(g, r, s)
  BY <1>6, <1>14
<1> QED
  BY <1>13, <1>15, <1>16

-----------------------------------------------------------------------------
(* The inductive invariant *)

Past == {"in", "leaving", "removing", "fallback", "removed", "gone"}
Away == {"out", "staged", "unstaged", "aborted", "gone"}
Early == {"out", "staged", "active", "booting"}
Phases == Past \cup Away \cup Early \cup {"failed"}

Events == [kind : {"movement", "bootstrap", "remove"}, entity : Sessions, cell : Cells, tick : Nat]

Moving == {"center", "sets", "viewers"}
Pumps ==
  [at : {"idle", "bootstrap", "notify", "remove"} \cup Moving, entity : Nat, cell : Int,
   creates : SUBSET Sessions, removes : SUBSET Sessions, moves : SUBSET Sessions]

Types ==
  /\ tick \in Nat /\ cellOf \in [Sessions -> Cells] /\ phase \in [Sessions -> Phases]
  /\ events \in Seq(Events) /\ relocated \in [Sessions -> Nat] /\ fan \in Fans
  /\ pump \in Pumps /\ (pump.at # "idle" => pump.entity \in Sessions)

(* A control waits for its one answer: one of a session in the queue, or    *)
(* the pump has it.                                                         *)
Control(x) == x.kind # "movement"
NoControl(q, s) == \A i \in 1..Len(q) : ~(Control(q[i]) /\ q[i].entity = s)
OneControl(q) ==
  \A i, j \in 1..Len(q) : Control(q[i]) /\ Control(q[j]) /\ q[i].entity = q[j].entity => i = j

EventOK(x) ==
  /\ x.kind = "bootstrap" => phase[x.entity] = "booting"
  /\ x.kind = "remove" => phase[x.entity] = "removing"
  /\ x.kind = "movement" => phase[x.entity] \in Past

EventsOK == OneControl(events) /\ \A i \in 1..Len(events) : EventOK(events[i])

PumpOK ==
  /\ pump.at \in {"bootstrap", "notify"} => phase[pump.entity] = "booting" /\ NoControl(events, pump.entity)
  /\ pump.at = "remove" => /\ phase[pump.entity] = "removing" /\ NoControl(events, pump.entity)
                           /\ pump.entity \notin pump.removes
  /\ pump.at \in Moving => phase[pump.entity] \in Past /\ pump.cell \in Cells
  /\ pump.at = "sets" /\ fan.presence[pump.entity].active =>
       fan.presence[pump.entity].center = pump.cell \/ <<pump.entity, pump.entity>> \in torn
  /\ pump.at = "viewers" => /\ pump.entity \notin pump.removes \/ <<pump.entity, pump.entity>> \in torn
                            /\ \A s \in pump.creates \cup pump.removes \cup pump.moves : phase[s] \in Past

(* A session is new, is told of those it joins, has joined, or has failed.  *)
Joining(s) == pump.at = "bootstrap" /\ pump.entity = s
Joined(s) == phase[s] \in Past \/ (pump.at = "notify" /\ pump.entity = s)
New(s) == phase[s] \in Early /\ ~Joining(s) /\ ~Joined(s)

PresenceIn(s) == (fan.presence[s].active <=> phase[s] \notin Away) /\ HandlesOK(s, fan.presence[s])

ToldBut(p, V) == {<<p.forward[e], e>> : e \in Visible(p) \ V}

(* What the client of a session that is connected knows.                    *)
ViewOK(s) ==
  s \in fan.up =>
    /\ Joined(s) => Knowing(fan, s)
    /\ ~Joined(s) => fan.moving[s] = {}
    /\ New(s) => fan.shown[s] = {} /\ Visible(fan.presence[s]) \subseteq {s}
    /\ Joining(s) => fan.shown[s] = ToldBut(fan.presence[s], pump.creates)

ReadyOK == \A s \in fan.ready : Joined(s)

ViewsOK == \A s \in Sessions : PresenceIn(s) /\ ViewOK(s)

ToldInv == Types /\ EventsOK /\ PumpOK /\ ReadyOK /\ ViewsOK

-----------------------------------------------------------------------------
(* The queue *)

LEMMA AppendEvents ==
  ASSUME NEW q \in Seq(Events), NEW x \in Events, NEW r, r = Append(q, x)
  PROVE  /\ r \in Seq(Events) /\ Len(r) = Len(q) + 1
         /\ \A i \in 1..Len(r) : r[i] = IF i = Len(q) + 1 THEN x ELSE q[i]
         /\ OneControl(q) /\ (Control(x) => NoControl(q, x.entity)) => OneControl(r)
         /\ \A s : NoControl(q, s) /\ ~(Control(x) /\ x.entity = s) => NoControl(r, s)
<1>1. r \in Seq(Events) /\ Len(r) = Len(q) + 1 /\ Len(q) \in Nat
  OBVIOUS
<1>2. \A i \in 1..Len(r) : r[i] = IF i = Len(q) + 1 THEN x ELSE q[i]
  OBVIOUS
<1>3. ASSUME OneControl(q), Control(x) => NoControl(q, x.entity),
             NEW i \in 1..Len(r), NEW j \in 1..Len(r), Control(r[i]), Control(r[j]), r[i].entity = r[j].entity
      PROVE  i = j
  <2>1. CASE i = Len(q) + 1 /\ j # Len(q) + 1
    BY <1>1, <1>2, <1>3, <2>1 DEF NoControl
  <2>2. CASE i # Len(q) + 1 /\ j = Len(q) + 1
    BY <1>1, <1>2, <1>3, <2>2 DEF NoControl
  <2>3. CASE i # Len(q) + 1 /\ j # Len(q) + 1
    BY <1>1, <1>2, <1>3, <2>3 DEF OneControl
  <2> QED
    BY <2>1, <2>2, <2>3
<1>4. ASSUME NEW s, NoControl(q, s), ~(Control(x) /\ x.entity = s) PROVE NoControl(r, s)
  BY <1>1, <1>2, <1>4 DEF NoControl
<1>5. OneControl(q) /\ (Control(x) => NoControl(q, x.entity)) => OneControl(r)
  BY <1>3 DEF OneControl
<1> QED
  BY <1>1, <1>2, <1>4, <1>5

LEMMA TailEvents ==
  ASSUME NEW q \in Seq(Events), q # <<>>, NEW r, r = Tail(q)
  PROVE  /\ r \in Seq(Events) /\ Len(r) = Len(q) - 1 /\ Len(q) \in Nat \ {0}
         /\ Head(q) = q[1] /\ q[1] \in Events
         /\ \A i \in 1..Len(r) : r[i] = q[i + 1]
         /\ OneControl(q) => OneControl(r) /\ (Control(q[1]) => NoControl(r, q[1].entity))
         /\ \A s : NoControl(q, s) => NoControl(r, s)
<1>1. r \in Seq(Events) /\ Len(r) = Len(q) - 1 /\ Len(q) \in Nat \ {0} /\ Head(q) = q[1] /\ q[1] \in Events
  OBVIOUS
<1>2. \A i \in 1..Len(r) : r[i] = q[i + 1] /\ i + 1 \in 1..Len(q)
  OBVIOUS
<1>3. OneControl(q) => OneControl(r)
  BY <1>1, <1>2 DEF OneControl
<1>4. OneControl(q) => (Control(q[1]) => NoControl(r, q[1].entity))
  BY <1>1, <1>2 DEF OneControl, NoControl
<1>5. ASSUME NEW s, NoControl(q, s) PROVE NoControl(r, s)
  BY <1>1, <1>2, <1>5 DEF NoControl
<1> QED
  BY <1>1, <1>2, <1>3, <1>4, <1>5

-----------------------------------------------------------------------------
(* What leaves the invariant alone *)

(* Who has joined knows what it is believed to know.                        *)
LEMMA JoinedKnows ==
  ASSUME ToldInv
  PROVE  \A s \in Sessions : Joined(s) => Knowing(fan, s)
BY DEF ToldInv, ViewsOK, PresenceIn, ViewOK, Knowing

LEMMA ReadyKnows ==
  ASSUME ToldInv
  PROVE  \A s \in fan.ready : Joined(s) /\ Knowing(fan, s)
<1>1. fan.ready \in SUBSET Sessions
  BY FanFields DEF ToldInv, Types
<1> QED
  BY <1>1, JoinedKnows DEF ToldInv, ReadyOK

SameStage(s) ==
  /\ Joined(s)' <=> Joined(s)
  /\ Joining(s)' <=> Joining(s)
  /\ New(s)' => New(s)
  /\ Joining(s) => pump'.creates = pump.creates

LEMMA ViewKept ==
  ASSUME NEW s \in Sessions, SameStage(s), ViewOK(s), SameView(fan, fan', s), torn \subseteq torn'
  PROVE  ViewOK(s)'
<1>1. Knowing(fan, s) => Knowing(fan', s)
  BY DEF Knowing, SameView
<1>2. Knowing(fan', s) => Knowing(fan, s)'
  BY DEF Knowing
<1> QED
  BY <1>1, <1>2 DEF ViewOK, SameView, SameStage, ToldBut

LEMMA ViewFollows ==
  ASSUME NEW s \in Sessions, SameStage(s), Joined(s), ~Joining(s), Knowing(fan', s), torn \subseteq torn'
  PROVE  ViewOK(s)'
<1>1. Knowing(fan, s)'
  BY DEF Knowing
<1> QED
  BY <1>1 DEF ViewOK, SameStage, New

(* A session's phase goes on, and nothing waits for it.                     *)
Goes(s) ==
  \/ phase'[s] = phase[s]
  \/ phase[s] \notin {"booting", "removing"} /\ (phase[s] \in Past => phase'[s] \in Past)

Steady(s) ==
  fan'.presence[s].active => fan.presence[s].active /\ fan'.presence[s].center = fan.presence[s].center

LEMMA EventFollows ==
  ASSUME NEW x \in Events, EventOK(x), Goes(x.entity)
  PROVE  EventOK(x)'
BY DEF EventOK, Goes, Past, Events

LEMMA EventsKept ==
  ASSUME ToldInv, events' = events, \A s \in Sessions : Goes(s)
  PROVE  EventsOK'
<1>1. ASSUME NEW i \in 1..Len(events) PROVE EventOK(events[i])'
  <2>1. EventOK(events[i]) /\ events[i] \in Events
    BY DEF ToldInv, EventsOK, Types
  <2>2. Goes(events[i].entity)
    BY <2>1 DEF Events
  <2> QED
    BY <2>1, <2>2 DEF EventOK, Goes, Past, Events
<1> QED
  BY <1>1 DEF EventsOK, ToldInv

LEMMA PumpKept ==
  ASSUME ToldInv, pump' = pump, torn \subseteq torn', \A s \in Sessions : Goes(s),
         pump.at \in {"bootstrap", "notify", "remove"} /\ NoControl(events, pump.entity) => NoControl(events', pump.entity),
         pump.at = "sets" => \A s \in Sessions : s = pump.entity /\ phase[s] \in Past => Steady(s) \/ <<s, s>> \in torn'
  PROVE  PumpOK'
<1>1. CASE pump.at = "idle"
  BY <1>1 DEF PumpOK, Moving
<1>2. CASE pump.at # "idle"
  <2>1. Goes(pump.entity) /\ PumpOK /\ pump \in Pumps
    BY <1>2 DEF ToldInv, Types
  <2>2. pump.at = "viewers" => \A s \in pump.creates \cup pump.removes \cup pump.moves : phase'[s] \in Past
    BY <2>1 DEF PumpOK, Goes, Pumps
  <2>3. pump.at = "sets" /\ fan'.presence[pump.entity].active =>
          fan'.presence[pump.entity].center = pump.cell \/ <<pump.entity, pump.entity>> \in torn'
    <3>1. pump.at = "sets" => Steady(pump.entity) \/ <<pump.entity, pump.entity>> \in torn'
      BY <1>2, <2>1 DEF PumpOK, Moving, ToldInv, Types
    <3> QED
      BY <3>1, <2>1 DEF PumpOK, Steady
  <2>4. pump.at \in {"bootstrap", "notify", "remove"} => phase'[pump.entity] = phase[pump.entity]
    BY <2>1 DEF Goes, PumpOK
  <2>5. pump.at \in Moving => phase'[pump.entity] \in Past
    BY <2>1 DEF Goes, PumpOK
  <2> QED
    BY <2>1, <2>2, <2>3, <2>4, <2>5 DEF PumpOK
<1> QED
  BY <1>1, <1>2

(* The queue is the same, or longer by one event.                           *)
LEMMA EventQueued ==
  ASSUME ToldInv, NEW x \in Events, events' = Append(events, x), EventOK(x)', pump' = pump, torn' = torn,
         \A s \in Sessions : Goes(s), \A s \in Sessions : Steady(s),
         Control(x) => NoControl(events, x.entity),
         Control(x) /\ pump.at \in {"bootstrap", "notify", "remove"} => pump.entity # x.entity
  PROVE  EventsOK' /\ PumpOK' /\ events' \in Seq(Events)
<1>1. events \in Seq(Events) /\ EventsOK
  BY DEF ToldInv, Types
<1>2. /\ events' \in Seq(Events) /\ Len(events') = Len(events) + 1
      /\ \A i \in 1..Len(events') : events'[i] = IF i = Len(events) + 1 THEN x ELSE events[i]
      /\ OneControl(events')
      /\ \A s : NoControl(events, s) /\ ~(Control(x) /\ x.entity = s) => NoControl(events', s)
  <2>1. OneControl(events)
    BY <1>1 DEF EventsOK
  <2>2. events' \in Seq(Events) /\ Len(events') = Len(events) + 1
    BY <1>1, AppendEvents
  <2>3. \A i \in 1..Len(events') : events'[i] = IF i = Len(events) + 1 THEN x ELSE events[i]
    BY <1>1, AppendEvents
  <2>4. OneControl(events')
    BY <1>1, <2>1, AppendEvents
  <2>5. \A s : NoControl(events, s) /\ ~(Control(x) /\ x.entity = s) => NoControl(events', s)
    BY <1>1, AppendEvents
  <2> QED
    BY <2>2, <2>3, <2>4, <2>5
<1>4. ASSUME NEW i \in 1..Len(events') PROVE EventOK(events[i])'
  <2>1. CASE i = Len(events) + 1
    BY <1>2, <2>1 DEF EventOK
  <2>2. CASE i # Len(events) + 1
    <3>1. i \in 1..Len(events) /\ events'[i] = events[i]
      BY <1>1, <1>2, <2>2
    <3>2. EventOK(events[i]) /\ events[i] \in Events
      BY <1>1, <3>1 DEF EventsOK
    <3>3. Goes(events[i].entity)
      BY <3>2 DEF Events
    <3> QED
      BY <3>1, <3>2, <3>3 DEF EventOK, Goes, Past, Events
  <2> QED
    BY <2>1, <2>2
<1>5. EventsOK'
  BY <1>2, <1>4 DEF EventsOK
<1>6. PumpOK'
  BY <1>2, PumpKept
<1> QED
  BY <1>2, <1>5, <1>6

(* One session's phase goes on, unseen.                                     *)
LEMMA PhaseKept ==
  ASSUME ToldInv, pump' = pump, fan' = fan, torn' = torn,
         \A s \in Sessions : /\ phase'[s] \in Past <=> phase[s] \in Past
                             /\ phase'[s] \in Early => phase[s] \in Early
                             /\ phase'[s] \in Away <=> phase[s] \in Away
  PROVE  ReadyOK' /\ ViewsOK'
<1>1. fan.ready \in SUBSET Sessions
  BY FanFields DEF ToldInv, Types
<1>2. ASSUME NEW s \in Sessions PROVE SameStage(s)
  BY DEF SameStage, Joined, Joining, New
<1>3. ReadyOK'
  BY <1>1, <1>2 DEF ReadyOK, ToldInv, SameStage
<1>4. ASSUME NEW s \in Sessions PROVE ViewOK(s)'
  BY <1>2, ViewKept DEF ToldInv, ViewsOK, SameView
<1>5. ASSUME NEW s \in Sessions PROVE PresenceIn(s)'
  BY DEF ToldInv, ViewsOK, PresenceIn
<1> QED
  BY <1>3, <1>4, <1>5 DEF ViewsOK

(* Each session's view is the same, or that of who has joined, or is let    *)
(* go; or it loses an entity that nothing more will be told of.             *)
Hidden(s) ==
  /\ ~Joining(s) /\ s \notin fan'.ready
  /\ fan'.shown[s] = fan.shown[s] /\ fan'.moving[s] = fan.moving[s] /\ (s \in fan'.up => s \in fan.up)
  /\ Told(fan'.presence[s]) \subseteq Told(fan.presence[s])
  /\ Visible(fan'.presence[s]) \subseteq Visible(fan.presence[s])
  /\ HandlesOK(s, fan'.presence[s])

Followed(s) ==
  \/ SameView(fan, fan', s)
  \/ Joined(s) /\ Knowing(fan', s)
  \/ s \notin fan'.up /\ HandlesOK(s, fan'.presence[s])
  \/ Hidden(s)

LEMMA ViewGoes ==
  ASSUME ToldInv, NEW s \in Sessions, torn \subseteq torn', SameStage(s), Followed(s), fan'.presence[s].active <=> fan.presence[s].active,
         phase'[s] \in Away <=> phase[s] \in Away
  PROVE  ViewOK(s)' /\ PresenceIn(s)'
<1>1. ViewOK(s) /\ PresenceIn(s)
  BY DEF ToldInv, ViewsOK
<1>2. Joined(s) => ~Joining(s)
  BY DEF Joined, Joining, ToldInv, PumpOK, Past
<1>3. HandlesOK(s, fan'.presence[s])
  BY <1>1 DEF Followed, Hidden, SameView, PresenceIn, Knowing
<1>4. PresenceIn(s)'
  BY <1>1, <1>3 DEF PresenceIn
<1>5. CASE SameView(fan, fan', s)
  BY <1>1, <1>4, <1>5, ViewKept
<1>6. CASE Joined(s) /\ Knowing(fan', s)
  BY <1>2, <1>4, <1>6, ViewFollows
<1>7. CASE s \notin fan'.up
  BY <1>4, <1>7 DEF ViewOK
<1>8. CASE Hidden(s)
  <2>1. Joined(s) /\ s \in fan'.up => Knowing(fan', s)
    BY <1>1, <1>8 DEF Hidden, ViewOK, Knowing
  <2>2. Knowing(fan', s) => Knowing(fan, s)'
    BY DEF Knowing
  <2> QED
    BY <1>1, <1>4, <1>8, <2>1, <2>2 DEF Hidden, ViewOK, SameStage
<1> QED
  BY <1>5, <1>6, <1>7, <1>8 DEF Followed

LEMMA StageFollows ==
  ASSUME ToldInv, torn \subseteq torn', fan'.ready \subseteq fan.ready,
         \A s \in Sessions : SameStage(s) /\ Followed(s),
         \A s \in Sessions : (fan'.presence[s].active <=> fan.presence[s].active) /\ (phase'[s] \in Away <=> phase[s] \in Away)
  PROVE  ReadyOK' /\ ViewsOK'
<1>1. fan.ready \in SUBSET Sessions
  BY FanFields DEF ToldInv, Types
<1>2. ReadyOK'
  BY <1>1 DEF ReadyOK, ToldInv, SameStage
<1>3. ASSUME NEW s \in Sessions PROVE ViewOK(s)' /\ PresenceIn(s)'
  BY ViewGoes
<1> QED
  BY <1>2, <1>3 DEF ViewsOK

LEMMA FanFollows ==
  ASSUME ToldInv, Types', UNCHANGED <<events, pump>>, torn \subseteq torn', fan'.ready \subseteq fan.ready,
         \A s \in Sessions : /\ Goes(s)
                             /\ phase'[s] \in Past <=> phase[s] \in Past
                             /\ phase'[s] \in Early => phase[s] \in Early
                             /\ phase'[s] \in Away <=> phase[s] \in Away,
         \A s \in Sessions : Followed(s) /\ (fan'.presence[s].active <=> fan.presence[s].active),
         pump.at = "sets" => \A s \in Sessions : s = pump.entity /\ phase[s] \in Past => Steady(s) \/ <<s, s>> \in torn'
  PROVE  ToldInv'
<1>1. \A s \in Sessions : Goes(s)
  OBVIOUS
<1>2. EventsOK' /\ PumpOK'
  BY <1>1, EventsKept, PumpKept
<1>3. \A s \in Sessions : SameStage(s)
  BY DEF SameStage, Joined, Joining, New
<1>4. ReadyOK' /\ ViewsOK'
  BY <1>3, StageFollows
<1> QED
  BY <1>2, <1>4 DEF ToldInv

-----------------------------------------------------------------------------
(* The steps of the sessions *)

(* Nothing is under way for a session that does not wait for the pump.      *)
LEMMA NothingAsked ==
  ASSUME ToldInv, NEW s \in Sessions, phase[s] \notin {"booting", "removing"}
  PROVE  NoControl(events, s) /\ (pump.at \in {"bootstrap", "notify", "remove"} => pump.entity # s)
<1>1. ASSUME NEW i \in 1..Len(events), Control(events[i]), events[i].entity = s PROVE FALSE
  <2>1. EventOK(events[i]) /\ events[i] \in Events
    BY DEF ToldInv, EventsOK, Types
  <2> QED
    BY <1>1, <2>1 DEF EventOK, Control, Events
<1>2. NoControl(events, s)
  BY <1>1 DEF NoControl
<1> QED
  BY <1>2 DEF ToldInv, PumpOK

LEMMA MoveTold ==
  ASSUME ToldInv, NEW e \in Sessions, NEW cell \in Cells, Move(e, cell)
  PROVE  ToldInv'
<1>1. phase[e] = "in" /\ tick' = tick + 1 /\ cellOf' = [cellOf EXCEPT ![e] = cell]
      /\ UNCHANGED <<phase, pump, relocated, fan, torn>>
  BY DEF Move
<1>2. ReadyOK' /\ ViewsOK'
  BY <1>1, PhaseKept
<1>3. \A s \in Sessions : Goes(s) /\ Steady(s)
  BY <1>1 DEF Goes, Steady
<1>4. cellOf' \in [Sessions -> Cells] /\ tick' \in Nat
  BY <1>1 DEF ToldInv, Types
<1>5. EventsOK' /\ PumpOK' /\ events' \in Seq(Events)
  <2>1. CASE events' = events
    BY <1>1, <1>3, <2>1, EventsKept, PumpKept DEF ToldInv, Types
  <2>2. CASE Enqueue("movement", e, cell)
    <3>0. [kind |-> "movement", entity |-> e, cell |-> cell, tick |-> tick + 1] \in Events
      BY DEF Events, ToldInv, Types
    <3>1. PICK x \in Events : x = [kind |-> "movement", entity |-> e, cell |-> cell, tick |-> tick + 1]
      BY <3>0
    <3>2. EventOK(x)' /\ ~Control(x)
      BY <1>1, <3>1 DEF EventOK, Past, Control
    <3>3. events' = Append(events, x)
      BY <2>2, <3>1 DEF Enqueue
    <3> QED
      BY <1>1, <1>3, <3>2, <3>3, EventQueued
  <2> QED
    BY <2>1, <2>2 DEF Move, OnMovement
<1>6. Types'
  BY <1>1, <1>4, <1>5 DEF ToldInv, Types
<1> QED
  BY <1>2, <1>5, <1>6 DEF ToldInv

(* One session's phase goes on; nothing else does, but where it is.         *)
LEMMA SessionTold ==
  ASSUME ToldInv, NEW s \in Sessions, NEW next \in Phases, phase' = [phase EXCEPT ![s] = next],
         phase[s] \notin {"booting", "removing"}, next \in Past <=> phase[s] \in Past,
         next \in Early => phase[s] \in Early, next \in Away <=> phase[s] \in Away,
         UNCHANGED <<tick, events, pump, relocated, fan, torn>>, cellOf' \in [Sessions -> Cells]
  PROVE  ToldInv'
<1>0. phase \in [Sessions -> Phases]
  BY DEF ToldInv, Types
<1>1. \A t \in Sessions : phase'[t] = IF t = s THEN next ELSE phase[t]
  BY <1>0
<1>2. \A t \in Sessions : Goes(t) /\ Steady(t)
  BY <1>1 DEF Goes, Steady
<1>3. ReadyOK' /\ ViewsOK'
  <2>1. \A t \in Sessions : /\ phase'[t] \in Past <=> phase[t] \in Past
                            /\ phase'[t] \in Early => phase[t] \in Early
                            /\ phase'[t] \in Away <=> phase[t] \in Away
    BY <1>1
  <2> QED
    BY <2>1, PhaseKept
<1>4. EventsOK' /\ PumpOK'
  BY <1>2, EventsKept, PumpKept
<1>5. phase' \in [Sessions -> Phases]
  BY <1>0
<1>6. Types'
  BY <1>5 DEF ToldInv, Types
<1> QED
  BY <1>3, <1>4, <1>6 DEF ToldInv

LEMMA PrepareEnterTold ==
  ASSUME ToldInv, NEW s \in Sessions, NEW cell \in Cells, PrepareEnter(s, cell)
  PROVE  ToldInv'
<1>1. cellOf' \in [Sessions -> Cells]
  BY DEF PrepareEnter, ToldInv, Types
<1>2. /\ phase[s] = "out" /\ phase' = [phase EXCEPT ![s] = "staged"]
      /\ UNCHANGED <<tick, events, pump, relocated, fan, torn>>
  BY DEF PrepareEnter
<1> QED
  BY <1>1, <1>2, SessionTold DEF Phases, Past, Early, Away

LEMMA AbortEnterTold ==
  ASSUME ToldInv, NEW s \in Sessions, AbortEnter(s)
  PROVE  ToldInv'
<1>1. /\ phase[s] = "unstaged" /\ phase' = [phase EXCEPT ![s] = "aborted"]
      /\ UNCHANGED <<tick, events, pump, relocated, fan, torn>> /\ cellOf' \in [Sessions -> Cells]
  BY DEF AbortEnter, ToldInv, Types
<1> QED
  BY <1>1, SessionTold DEF Phases, Past, Early, Away

LEMMA ExitWorldTold ==
  ASSUME ToldInv, NEW s \in Sessions, ExitWorld(s)
  PROVE  ToldInv'
<1>1. /\ phase[s] = "in" /\ phase' = [phase EXCEPT ![s] = "leaving"]
      /\ UNCHANGED <<tick, events, pump, relocated, fan, torn>> /\ cellOf' \in [Sessions -> Cells]
  BY DEF ExitWorld, ToldInv, Types
<1> QED
  BY <1>1, SessionTold DEF Phases, Past, Early, Away

LEMMA SubmitTold ==
  ASSUME ToldInv, NEW s \in Sessions, NEW kind, NEW admitted, NEW refused,
         submitControl(s, kind, admitted, refused),
         \/ phase[s] = "active" /\ kind = "bootstrap" /\ admitted = "booting" /\ refused = "failed"
         \/ phase[s] = "leaving" /\ kind = "remove" /\ admitted = "removing" /\ refused = "fallback"
  PROVE  ToldInv'
<1>0. phase \in [Sessions -> Phases] /\ cellOf \in [Sessions -> Cells] /\ tick \in Nat
  BY DEF ToldInv, Types
<1>1. UNCHANGED <<tick, cellOf, pump, relocated, fan, torn>>
  BY DEF submitControl
<1>2. CASE phase' = [phase EXCEPT ![s] = refused] /\ UNCHANGED events
  BY <1>0, <1>1, <1>2, SessionTold DEF Phases, Past, Early, Away
<1>3. CASE phase' = [phase EXCEPT ![s] = admitted] /\ Enqueue(kind, s, cellOf[s])
  <2>0. PICK x \in Events : x = [kind |-> kind, entity |-> s, cell |-> cellOf[s], tick |-> tick + 1]
    <3>1. [kind |-> kind, entity |-> s, cell |-> cellOf[s], tick |-> tick + 1] \in Events
      BY <1>0 DEF Events
    <3> QED
      BY <3>1
  <2>1. events' = Append(events, x)
    BY <1>3, <2>0 DEF Enqueue
  <2>2. \A t \in Sessions : phase'[t] = IF t = s THEN admitted ELSE phase[t]
    BY <1>0, <1>3
  <2>3. Control(x) /\ x.entity = s
    BY <2>0 DEF Control
  <2>4. EventOK(x)'
    BY <2>0, <2>2 DEF EventOK
  <2>5. \A t \in Sessions : Goes(t)
    BY <2>2 DEF Goes, Past
  <2>6. Control(x) => NoControl(events, x.entity)
    BY <2>3, NothingAsked
  <2>12. Control(x) /\ pump.at \in {"bootstrap", "notify", "remove"} => pump.entity # x.entity
    BY <2>3, NothingAsked
  <2>7. \A t \in Sessions : Steady(t)
    BY <1>1 DEF Steady
  <2>8. EventsOK' /\ PumpOK' /\ events' \in Seq(Events)
    BY <1>1, <2>1, <2>4, <2>5, <2>6, <2>12, <2>7, EventQueued
  <2>9. ReadyOK' /\ ViewsOK'
    <3>1. \A t \in Sessions : /\ phase'[t] \in Past <=> phase[t] \in Past
                              /\ phase'[t] \in Early => phase[t] \in Early
                              /\ phase'[t] \in Away <=> phase[t] \in Away
      BY <2>2 DEF Past, Early, Away
    <3> QED
      BY <1>1, <3>1, PhaseKept
  <2>10. phase' \in [Sessions -> Phases]
    BY <1>0, <1>3 DEF Phases, Past, Early
  <2>11. Types'
    BY <1>1, <2>8, <2>10 DEF ToldInv, Types
  <2> QED
    BY <2>8, <2>9, <2>11 DEF ToldInv
<1> QED
  BY <1>2, <1>3 DEF submitControl

LEMMA CommitEnterTold ==
  ASSUME ToldInv, NEW s \in Sessions, CommitEnter(s)
  PROVE  ToldInv'
<1> DEFINE p == Activate(s, cellOf[s])
<1>0. phase \in [Sessions -> Phases] /\ cellOf \in [Sessions -> Cells] /\ fan \in Fans
  BY DEF ToldInv, Types
<1>1. /\ phase[s] = "staged" /\ phase' = [phase EXCEPT ![s] = "active"]
      /\ fan' = WithPresence(fan, s, p) /\ UNCHANGED <<tick, cellOf, events, pump, relocated, torn>>
  BY DEF CommitEnter, WithPresence
<1>2. p \in Presences /\ p.active /\ Visible(p) = {s} /\ HandlesOK(s, p)
  <2>1. p = [active |-> TRUE, center |-> cellOf[s], forward |-> [e \in {s} |-> 1], next |-> 2]
    BY DEF Activate
  <2>2. cellOf[s] \in Int
    BY <1>0, PresenceConstants
  <2>3. [e \in {s} |-> 1] \in Forwards
    <3>1. [e \in {s} |-> 1] \in [{s} -> Nat] /\ {s} \in SUBSET Sessions
      OBVIOUS
    <3> QED
      BY <3>1 DEF Forwards
  <2> HIDE DEF p
  <2> QED
    BY <2>1, <2>2, <2>3 DEF Presences, Visible, HandlesOK
<1> HIDE DEF p
<1>3. /\ fan' \in Fans /\ OthersSame(fan, fan', s) /\ fan'.presence[s] = p
      /\ fan'.ready = fan.ready /\ fan'.up = fan.up /\ fan'.shown = fan.shown /\ fan'.moving = fan.moving
  BY <1>0, <1>1, <1>2, SetPresence
<1>4. \A t \in Sessions : phase'[t] = IF t = s THEN "active" ELSE phase[t]
  BY <1>0, <1>1
<1>5. \A t \in Sessions : Goes(t)
  BY <1>1, <1>4 DEF Goes, Past
<1>6. \A t \in Sessions : phase[t] \in Past => Steady(t)
  BY <1>1, <1>3 DEF Past, OthersSame, SameView, Steady
<1>7. EventsOK' /\ PumpOK'
  BY <1>1, <1>5, <1>6, EventsKept, PumpKept
<1>8. pump.at \in {"bootstrap", "notify", "remove"} => pump.entity # s
  BY <1>1, NothingAsked
<1>9. \A t \in Sessions : SameStage(t)
  BY <1>1, <1>4, <1>8 DEF SameStage, Joined, Joining, New, Past, Early
<1>10. ReadyOK'
  BY <1>0, <1>3, <1>9, FanFields DEF ReadyOK, ToldInv, SameStage
<1>11. ASSUME NEW t \in Sessions, t # s PROVE ViewOK(t)' /\ PresenceIn(t)'
  <2>1. SameView(fan, fan', t)
    BY <1>3, <1>11 DEF OthersSame
  <2>2. ViewOK(t)'
    BY <1>1, <1>9, <2>1, ViewKept DEF ToldInv, ViewsOK
  <2> QED
    BY <1>4, <1>11, <2>1, <2>2 DEF ToldInv, ViewsOK, PresenceIn, SameView
<1>12. PresenceIn(s)'
  BY <1>2, <1>3, <1>4 DEF PresenceIn, Away
<1>13. ViewOK(s)'
  <2>1. ~Joined(s) /\ ~Joining(s) /\ New(s)
    BY <1>1, <1>8 DEF Joined, Joining, New, Past, Early
  <2>2. ViewOK(s)
    BY DEF ToldInv, ViewsOK
  <2> QED
    BY <1>2, <1>3, <1>9, <2>1, <2>2 DEF ViewOK, SameStage
<1>14. Types'
  BY <1>0, <1>1, <1>3 DEF ToldInv, Types, Phases, Early
<1> QED
  BY <1>7, <1>10, <1>11, <1>12, <1>13, <1>14 DEF ToldInv, ViewsOK

(* The session's own presence ends.                                         *)
LEMMA EndPresenceTold ==
  ASSUME ToldInv, NEW s \in Sessions, NEW next, EndPresence(s, next),
         \/ phase[s] = "failed" /\ next = "unstaged"
         \/ phase[s] = "removed" /\ next = "gone"
  PROVE  ToldInv'
<1>0. phase \in [Sessions -> Phases] /\ fan \in Fans
  BY DEF ToldInv, Types
<1>1. /\ phase' = [phase EXCEPT ![s] = next]
      /\ fan' = [fan EXCEPT !.presence[s] = NoPresence, !.shown[s] = {}, !.moving[s] = {}]
      /\ UNCHANGED <<tick, cellOf, events, pump, relocated, torn>>
  BY DEF EndPresence
<1>2. NoPresence \in Presences /\ ~NoPresence.active /\ Visible(NoPresence) = {} /\ HandlesOK(s, NoPresence)
  <2>1. <<>> \in Forwards /\ DOMAIN <<>> = {}
    <3>1. <<>> \in [{} -> Nat]
      OBVIOUS
    <3> QED
      BY <3>1 DEF Forwards
  <2> QED
    BY <2>1 DEF NoPresence, Presences, InvalidNetID, Visible, HandlesOK
<1> HIDE DEF NoPresence
<1>3. /\ fan' \in Fans /\ OthersSame(fan, fan', s) /\ fan'.presence[s] = NoPresence
      /\ fan'.ready = fan.ready /\ fan'.up = fan.up /\ fan'.shown[s] = {} /\ fan'.moving[s] = {}
  <2>1. PICK pr, re, up, xs, xm : fan = [presence |-> pr, ready |-> re, up |-> up, shown |-> xs, moving |-> xm]
    BY <1>0, FanFields
  <2>2. pr = fan.presence /\ re = fan.ready /\ up = fan.up /\ xs = fan.shown /\ xm = fan.moving
    BY <2>1
  <2>3. fan' = [presence |-> [pr EXCEPT ![s] = NoPresence], ready |-> re, up |-> up,
                shown |-> [xs EXCEPT ![s] = {}], moving |-> [xm EXCEPT ![s] = {}]]
    BY <1>1, <2>1
  <2>4. /\ pr \in [Sessions -> Presences] /\ xs \in [Sessions -> SUBSET (Nat \X Sessions)]
        /\ xm \in [Sessions -> SUBSET Nat] /\ re \in SUBSET Sessions /\ up \in SUBSET Sessions
    BY <1>0, <2>2, FanFields
  <2>5. /\ [pr EXCEPT ![s] = NoPresence] \in [Sessions -> Presences]
        /\ [xs EXCEPT ![s] = {}] \in [Sessions -> SUBSET (Nat \X Sessions)]
        /\ [xm EXCEPT ![s] = {}] \in [Sessions -> SUBSET Nat]
    BY <1>2, <2>4
  <2>6. fan' \in Fans
    BY <2>3, <2>4, <2>5 DEF Fans
  <2>7. OthersSame(fan, fan', s)
    BY <2>1, <2>3, <2>4 DEF OthersSame, SameView
  <2> QED
    BY <2>1, <2>3, <2>4, <2>6, <2>7
<1>4. \A t \in Sessions : phase'[t] = IF t = s THEN next ELSE phase[t]
  BY <1>0, <1>1
<1>5. \A t \in Sessions : Goes(t) /\ Steady(t)
  BY <1>2, <1>3, <1>4 DEF Goes, Steady, Past, OthersSame, SameView
<1>7. EventsOK' /\ PumpOK'
  BY <1>1, <1>5, EventsKept, PumpKept
<1>8. pump.at \in {"bootstrap", "notify", "remove"} => pump.entity # s
  BY NothingAsked
<1>9. \A t \in Sessions : SameStage(t)
  BY <1>1, <1>4, <1>8 DEF SameStage, Joined, Joining, New, Past, Early
<1>10. ReadyOK'
  BY <1>0, <1>3, <1>9, FanFields DEF ReadyOK, ToldInv, SameStage
<1>11. ASSUME NEW t \in Sessions, t # s PROVE ViewOK(t)' /\ PresenceIn(t)'
  <2>1. SameView(fan, fan', t)
    BY <1>3, <1>11 DEF OthersSame
  <2>2. ViewOK(t)'
    BY <1>1, <1>9, <2>1, ViewKept DEF ToldInv, ViewsOK
  <2> QED
    BY <1>4, <1>11, <2>1, <2>2 DEF ToldInv, ViewsOK, PresenceIn, SameView
<1>12. PresenceIn(s)'
  BY <1>2, <1>3, <1>4 DEF PresenceIn, Away
<1>13. ViewOK(s)'
  <2>1. ~Joining(s) /\ Told(NoPresence) = {}
    BY <1>2, <1>8 DEF Joining, Told
  <2> QED
    BY <1>2, <1>3, <1>9, <2>1 DEF ViewOK, SameStage, Knowing
<1>14. Types'
  BY <1>0, <1>1, <1>3 DEF ToldInv, Types, Phases, Past, Away
<1> QED
  BY <1>7, <1>10, <1>11, <1>12, <1>13, <1>14 DEF ToldInv, ViewsOK

-----------------------------------------------------------------------------
(* The steps of the simulation and of the connections *)

LEMMA ClearFields ==
  ASSUME NEW f \in Fans, NEW s \in Sessions, NEW r, r = ClearReady(f, s)
  PROVE  /\ r \in Fans /\ OthersSame(f, r, s) /\ r.ready = f.ready \ {s}
         /\ r.presence = f.presence /\ r.up = f.up /\ r.shown = f.shown /\ r.moving = f.moving
         /\ Knowing(f, s) => Knowing(r, s)
<1>1. PICK pr, re, up, xs, xm : f = [presence |-> pr, ready |-> re, up |-> up, shown |-> xs, moving |-> xm]
  BY FanFields
<1>2. r = [presence |-> f.presence, ready |-> f.ready \ {s}, up |-> f.up, shown |-> f.shown, moving |-> f.moving]
  BY <1>1 DEF ClearReady
<1>3. r \in Fans
  BY <1>2, FanFields DEF Fans
<1> QED
  BY <1>2, <1>3 DEF OthersSame, SameView, Knowing

LEMMA CloseFields ==
  ASSUME NEW f \in Fans, NEW s \in Sessions, NEW r, r = CloseNow(f, s)
  PROVE  r \in Fans /\ OthersSame(f, r, s) /\ r.presence = f.presence /\ r.ready = f.ready /\ r.up = f.up \ {s}
<1>1. PICK pr, re, up, xs, xm : f = [presence |-> pr, ready |-> re, up |-> up, shown |-> xs, moving |-> xm]
  BY FanFields
<1>2. pr = f.presence /\ re = f.ready /\ up = f.up /\ xs = f.shown /\ xm = f.moving
  BY <1>1
<1>3. r = [presence |-> f.presence, ready |-> f.ready, up |-> f.up \ {s}, shown |-> f.shown,
           moving |-> [f.moving EXCEPT ![s] = {}]]
  BY <1>1, <1>2 DEF CloseNow
<1>4. [f.moving EXCEPT ![s] = {}] \in [Sessions -> SUBSET Nat]
  BY FanFields
<1>5. r \in Fans
  BY <1>3, <1>4, FanFields DEF Fans
<1> QED
  BY <1>3, <1>5, FanFields DEF OthersSame, SameView

LEMMA WriteTold ==
  ASSUME ToldInv, NEW s \in Sessions, Write(s)
  PROVE  ToldInv'
<1>0. fan \in Fans
  BY DEF ToldInv, Types
<1>1. PICK h \in fan.moving[s] : fan' = [fan EXCEPT !.moving[s] = @ \ {h}]
  BY DEF Write
<1>2. s \in fan.up /\ UNCHANGED <<tick, cellOf, phase, events, pump, relocated, torn>>
  BY DEF Write
<1>3. fan' = CancelState(fan, s, h)
  BY <1>1 DEF CancelState
<1>4. fan' = [presence |-> fan.presence, ready |-> fan.ready, up |-> fan.up, shown |-> fan.shown,
              moving |-> [fan.moving EXCEPT ![s] = fan.moving[s] \ {h}]]
  BY <1>0, <1>3, CancelIs
<1>5. [fan.moving EXCEPT ![s] = fan.moving[s] \ {h}] \in [Sessions -> SUBSET Nat]
  BY <1>0, FanFields
<1>6. fan' \in Fans
  BY <1>0, <1>4, <1>5, FanFields DEF Fans
<1>7. fan'.presence = fan.presence /\ fan'.ready = fan.ready
  BY <1>4
<1>8. Joined(s) /\ Knowing(fan, s)
  BY <1>2, JoinedKnows DEF ToldInv, ViewsOK, ViewOK
<1>9. Knowing(fan', s)
  BY <1>0, <1>4, <1>8, FanFields DEF Knowing
<1>10. OthersSame(fan, fan', s)
  BY <1>0, <1>4, FanFields DEF OthersSame, SameView
<1>11. \A t \in Sessions : Followed(t) /\ Steady(t) /\ Goes(t)
  BY <1>2, <1>7, <1>8, <1>9, <1>10 DEF Followed, OthersSame, Steady, Goes
<1>12. Types'
  BY <1>2, <1>6 DEF ToldInv, Types
<1> QED
  BY <1>2, <1>7, <1>11, <1>12, FanFollows

LEMMA LoseTold ==
  ASSUME ToldInv, NEW s \in Sessions, Lose(s)
  PROVE  ToldInv'
<1>0. fan \in Fans
  BY DEF ToldInv, Types
<1>1. fan' = CloseNow(fan, s) /\ UNCHANGED <<tick, cellOf, phase, events, pump, relocated, torn>>
  BY DEF Lose
<1>2. fan' \in Fans /\ OthersSame(fan, fan', s) /\ fan'.presence = fan.presence /\ fan'.ready = fan.ready /\ s \notin fan'.up
  BY <1>0, <1>1, CloseFields
<1>3. HandlesOK(s, fan'.presence[s])
  BY <1>2 DEF ToldInv, ViewsOK, PresenceIn
<1>4. \A t \in Sessions : Followed(t) /\ Steady(t) /\ Goes(t)
  BY <1>1, <1>2, <1>3 DEF Followed, OthersSame, Steady, Goes
<1>5. Types'
  BY <1>1, <1>2 DEF ToldInv, Types
<1> QED
  BY <1>1, <1>2, <1>4, <1>5, FanFollows

LEMMA CloseTold ==
  ASSUME ToldInv, Close
  PROVE  ToldInv'
<1>1. UNCHANGED <<tick, cellOf, phase, events, pump, relocated, fan, torn>>
  BY DEF Close
<1>2. Types'
  BY <1>1 DEF ToldInv, Types
<1>3. \A t \in Sessions : Followed(t) /\ Steady(t) /\ Goes(t)
  BY <1>1 DEF Followed, Steady, Goes, SameView
<1> QED
  BY <1>1, <1>2, <1>3, FanFollows

LEMMA EmitDeathTold ==
  ASSUME ToldInv, NEW e \in Sessions, EmitDeath(e)
  PROVE  ToldInv'
<1> DEFINE S == (Viewers(fan.presence, e) \cap fan.ready) \ fan.up
<1>0. fan \in Fans
  BY DEF ToldInv, Types
<1>1. fan' = FailOf(fan, S) /\ UNCHANGED <<tick, cellOf, phase, events, pump, relocated, torn>>
  BY Zenon DEF EmitDeath, FailOf
<1>2. S \in SUBSET Sessions /\ \A s \in S : HandlesOK(s, fan.presence[s])
  BY DEF Viewers, ToldInv, ViewsOK, PresenceIn
<1> HIDE DEF S
<1>3. /\ fan' \in Fans /\ (\A s \in S : FailedAndHidden(fan, fan', s))
      /\ \A s \in Sessions \ S : SameView(fan, fan', s)
  BY <1>0, <1>1, <1>2, FailAll
<1>4. \A t \in Sessions : Followed(t) /\ Steady(t) /\ Goes(t)
  BY <1>1, <1>3 DEF Followed, Steady, Goes, FailedAndHidden, SameView
<1>5. \A t \in Sessions : (fan'.presence[t].active <=> fan.presence[t].active) /\ (t \in fan'.ready => t \in fan.ready)
  BY <1>3 DEF FailedAndHidden, SameView
<1>6. fan'.ready \subseteq fan.ready
  BY <1>3, <1>5, FanFields
<1>7. Types'
  BY <1>1, <1>3 DEF ToldInv, Types
<1> QED
  BY <1>1, <1>4, <1>5, <1>6, <1>7, FanFollows

LEMMA FallbackTold ==
  ASSUME ToldInv, NEW s \in Sessions, removePresenceFallback(s)
  PROVE  ToldInv'
<1> DEFINE S == Viewers(fan.presence, s)
           f == ClearReady(fan, s)
<1>0. fan \in Fans /\ phase \in [Sessions -> Phases]
  BY DEF ToldInv, Types
<1>1. /\ phase[s] = "fallback" /\ phase' = [phase EXCEPT ![s] = "removed"]
      /\ UNCHANGED <<tick, cellOf, events, pump, relocated, torn>>
  BY DEF removePresenceFallback
<1>2. fan' = FailAndHide(f, S, s)
  BY Zenon DEF removePresenceFallback, FailAndHide
<1>3. f \in Fans /\ OthersSame(fan, f, s) /\ f.ready = fan.ready \ {s} /\ f.presence = fan.presence
      /\ (Knowing(fan, s) => Knowing(f, s))
  BY <1>0, ClearFields
<1>4. S \in SUBSET Sessions /\ \A t \in S : HandlesOK(t, f.presence[t])
  BY <1>3 DEF Viewers, ToldInv, ViewsOK, PresenceIn
<1> HIDE DEF S, f
<1>5. /\ fan' \in Fans /\ (\A t \in S : FailedAndHidden(f, fan', t))
      /\ \A t \in Sessions \ S : SameView(f, fan', t)
  BY <1>2, <1>3, <1>4, FailAndHideAll
<1>6. Joined(s) /\ Knowing(f, s)
  BY <1>1, <1>3, JoinedKnows DEF Joined, Past
<1>7. \A t \in Sessions : Followed(t)
  <2>1. ASSUME NEW t \in S PROVE Followed(t)
    BY <1>5 DEF Followed, FailedAndHidden
  <2>2. ASSUME NEW t \in Sessions \ S, t # s PROVE Followed(t)
    BY <1>3, <1>5, <2>2 DEF Followed, SameView, OthersSame
  <2>3. ASSUME s \notin S PROVE Followed(s)
    <3>1. SameView(f, fan', s)
      BY <1>5, <2>3
    <3>2. Knowing(fan', s)
      BY <1>6, <3>1 DEF SameView, Knowing
    <3> QED
      BY <1>6, <3>2 DEF Followed
  <2> QED
    BY <2>1, <2>2, <2>3
<1>8. \A t \in Sessions : /\ Steady(t) /\ (fan'.presence[t].active <=> fan.presence[t].active)
                          /\ (t \in fan'.ready => t \in fan.ready)
  BY <1>3, <1>5 DEF Steady, FailedAndHidden, SameView
<1>9. fan'.ready \subseteq fan.ready
  BY <1>5, <1>8, FanFields
<1>10. \A t \in Sessions : phase'[t] = IF t = s THEN "removed" ELSE phase[t]
  BY <1>0, <1>1
<1>11. \A t \in Sessions : /\ Goes(t)
                           /\ phase'[t] \in Past <=> phase[t] \in Past
                           /\ phase'[t] \in Early => phase[t] \in Early
                           /\ phase'[t] \in Away <=> phase[t] \in Away
  BY <1>1, <1>10 DEF Goes, Past, Early, Away
<1>12. Types'
  BY <1>0, <1>1, <1>5 DEF ToldInv, Types, Phases, Past
<1> QED
  BY <1>1, <1>7, <1>8, <1>9, <1>11, <1>12, FanFollows

(* What a relocation leaves, whatever the pump is doing meanwhile.          *)
LEMMA OnDeathCompletedTold ==
  ASSUME ToldInv, NEW e \in Sessions, NEW cell \in Cells, OnDeathCompleted(e, cell)
  PROVE  ToldInv'
<1> DEFINE g == Centered(fan, e, cell)
           told == RelocateEntity(fan, e, cell)
           at == [cellOf EXCEPT ![e] = cell]
<1>0. fan \in Fans /\ cellOf \in [Sessions -> Cells] /\ relocated \in [Sessions -> Nat] /\ tick \in Nat /\ cell \in Int
  BY PresenceConstants DEF ToldInv, Types
<1>1. /\ phase[e] = "in" /\ torn' = torn \cup Overlapped(e) /\ cellOf' = at /\ relocated' = [relocated EXCEPT ![e] = tick]
      /\ fan' = IF e \in told.ready THEN reconcileVisibleSet(told, e, at) ELSE told
      /\ UNCHANGED <<tick, phase, events, pump>>
  BY DEF OnDeathCompleted
<1>2. fan.presence[e].active /\ Joined(e) /\ Knowing(fan, e)
  BY <1>1, JoinedKnows DEF ToldInv, ViewsOK, PresenceIn, Away, Joined, Past
<1>3. \A s \in fan.ready : Joined(s) /\ Knowing(fan, s)
  BY ReadyKnows
<1>4. /\ told \in Fans
      /\ \A s \in fan.ready : Changed(g, told, s, Seen(fan, e, cell, s))
      /\ \A s \in Sessions \ fan.ready : SameView(g, told, s)
  BY <1>0, <1>2, <1>3, RelocateTells
<1>5. g \in Fans /\ OthersSame(fan, g, e) /\ (g.presence[e].active <=> fan.presence[e].active) /\ g.ready = fan.ready
      /\ Knowing(g, e)
  <2>1. g = WithPresence(fan, e, UpdateCenter(fan.presence[e], cell))
    BY <1>2 DEF Centered, WithPresence
  <2> HIDE DEF g
  <2> QED
    BY <1>0, <1>2, <2>1, CenterFields
<1> HIDE DEF g, told, at
<1>6. \A s \in Sessions : /\ SameView(fan, told, s) \/ (Joined(s) /\ Knowing(told, s))
                          /\ (told.presence[s].active <=> fan.presence[s].active)
                          /\ s \in told.ready => s \in fan.ready
  <2>1. ASSUME NEW s \in fan.ready
        PROVE  Joined(s) /\ Knowing(told, s) /\ (told.presence[s].active <=> g.presence[s].active)
    BY <1>3, <1>4 DEF Changed
  <2>2. ASSUME NEW s \in Sessions \ fan.ready, s # e PROVE SameView(fan, told, s)
    BY <1>4, <1>5, <2>2 DEF OthersSame, SameView
  <2>3. ASSUME e \notin fan.ready
        PROVE  Knowing(told, e) /\ (told.presence[e].active <=> g.presence[e].active) /\ e \notin told.ready
    <3>1. SameView(g, told, e)
      BY <1>4, <2>3
    <3> QED
      BY <1>5, <2>3, <3>1 DEF SameView, Knowing
  <2>4. \A s \in Sessions : g.presence[s].active <=> fan.presence[s].active
    BY <1>5 DEF OthersSame, SameView
  <2>5. ASSUME NEW s \in fan.ready
        PROVE  Joined(s) /\ Knowing(told, s) /\ (told.presence[s].active <=> fan.presence[s].active)
    BY <1>0, <2>1, <2>4, FanFields
  <2>6. ASSUME NEW s \in Sessions \ fan.ready, s # e
        PROVE  SameView(fan, told, s) /\ (told.presence[s].active <=> fan.presence[s].active) /\ s \notin told.ready
    BY <2>2, <2>6 DEF SameView
  <2>7. ASSUME e \notin fan.ready
        PROVE  Joined(e) /\ Knowing(told, e) /\ (told.presence[e].active <=> fan.presence[e].active) /\ e \notin told.ready
    BY <1>2, <2>3, <2>4, <2>7
  <2> TAKE s \in Sessions
  <2>8. CASE s \in fan.ready
    BY <2>5, <2>8
  <2>9. CASE s \notin fan.ready /\ s # e
    BY <2>6, <2>9
  <2>10. CASE s \notin fan.ready /\ s = e
    BY <2>7, <2>10
  <2> QED
    BY <2>8, <2>9, <2>10
<1>7. fan' \in Fans /\ \A s \in Sessions : /\ SameView(fan, fan', s) \/ (Joined(s) /\ Knowing(fan', s))
                                           /\ (fan'.presence[s].active <=> fan.presence[s].active)
                                           /\ s \in fan'.ready => s \in fan.ready
  <2>1. CASE e \notin told.ready
    BY <1>1, <1>4, <1>6, <2>1
  <2>2. CASE e \in told.ready
    <3>1. Knowing(told, e) /\ fan' = reconcileVisibleSet(told, e, at)
      BY <1>1, <1>2, <1>6, <2>2 DEF SameView, Knowing
    <3>2. fan' \in Fans /\ OthersSame(told, fan', e) /\ Changed(told, fan', e, Near(told, e, at))
      BY <1>4, <3>1, ViewReconciled
    <3>3. Joined(e) /\ Knowing(fan', e) /\ (fan'.presence[e].active <=> told.presence[e].active)
          /\ (e \in fan'.ready => e \in told.ready)
      BY <1>2, <3>2 DEF Changed
    <3>4. \A s \in Sessions \ {e} : SameView(told, fan', s)
      BY <3>2 DEF OthersSame
    <3>5. ASSUME NEW s \in Sessions \ {e} PROVE SameView(fan, fan', s) \/ (Joined(s) /\ Knowing(fan', s))
      BY <1>6, <3>4 DEF SameView, Knowing
    <3> QED
      BY <1>6, <3>2, <3>3, <3>4, <3>5 DEF SameView
  <2> QED
    BY <2>1, <2>2
<1>8. fan'.ready \subseteq fan.ready
  BY <1>7, FanFields
<1>9. Types'
  <2>1. at \in [Sessions -> Cells] /\ [relocated EXCEPT ![e] = tick] \in [Sessions -> Nat]
    BY <1>0 DEF at
  <2> QED
    BY <1>1, <1>7, <2>1 DEF ToldInv, Types
<1>10. \A s \in Sessions : Followed(s) /\ Goes(s)
  BY <1>1, <1>7 DEF Followed, Goes
<1>11. \A s \in Sessions : /\ Goes(s)
                           /\ phase'[s] \in Past <=> phase[s] \in Past
                           /\ phase'[s] \in Early => phase[s] \in Early
                           /\ phase'[s] \in Away <=> phase[s] \in Away
  BY <1>1 DEF Goes
<1>12. torn \subseteq torn'
  BY <1>1
<1>13. ASSUME NEW s \in Sessions, s # e PROVE fan'.presence[s].center = fan.presence[s].center
  <2>1. told.presence[s].center = g.presence[s].center
    BY <1>0, <1>4, FanFields DEF Changed, SameView
  <2>2. g.presence[s].center = fan.presence[s].center
    BY <1>5, <1>13 DEF OthersSame, SameView
  <2>3. fan'.presence[s] = told.presence[s]
    <3>1. CASE e \notin told.ready
      BY <1>1, <3>1
    <3>2. CASE e \in told.ready
      <4>1. Knowing(told, e) /\ fan' = reconcileVisibleSet(told, e, at)
        BY <1>1, <1>2, <1>6, <3>2 DEF SameView, Knowing
      <4>2. OthersSame(told, fan', e)
        BY <1>4, <4>1, ViewReconciled
      <4> QED
        BY <1>13, <4>2 DEF OthersSame, SameView
    <3> QED
      BY <3>1, <3>2
  <2> QED
    BY <2>1, <2>2, <2>3
<1>14. pump.at = "sets" => \A s \in Sessions : s = pump.entity /\ phase[s] \in Past => Steady(s) \/ <<s, s>> \in torn'
  <2>1. ASSUME pump.at = "sets", e = pump.entity PROVE <<e, e>> \in torn'
    <3>1. Overlapped(e) = ({e} \X Sessions) \cup (Sessions \X {e})
      BY <2>1, Zenon DEF Overlapped
    <3> QED
      BY <1>1, <3>1
  <2>2. ASSUME NEW s \in Sessions, s # e PROVE Steady(s)
    BY <1>7, <1>13, <2>2 DEF Steady
  <2> QED
    BY <2>1, <2>2
<1> QED
  BY <1>1, <1>7, <1>8, <1>9, <1>10, <1>11, <1>12, <1>14, FanFollows

-----------------------------------------------------------------------------
(* The steps of the pump *)

(* A control is answered: its session goes on.                              *)
LEMMA CompleteIs ==
  ASSUME ToldInv, NEW s \in Sessions, NEW ok, complete(s, ok)
  PROVE  /\ phase' \in [Sessions -> Phases]
         /\ \A t \in Sessions \ {s} : phase'[t] = phase[t]
         /\ phase[s] \in Past => phase'[s] \in Past
         /\ phase'[s] = IF phase[s] = "booting" THEN (IF ok THEN "in" ELSE "failed")
                        ELSE IF phase[s] = "removing" THEN (IF ok THEN "removed" ELSE "fallback")
                        ELSE phase[s]
<1> DEFINE next == IF phase[s] = "booting" THEN (IF ok THEN "in" ELSE "failed")
                   ELSE IF phase[s] = "removing" THEN (IF ok THEN "removed" ELSE "fallback")
                   ELSE phase[s]
<1>0. phase \in [Sessions -> Phases]
  BY DEF ToldInv, Types
<1>1. phase' = [phase EXCEPT ![s] = next]
  BY DEF complete
<1>2. next \in Phases /\ (phase[s] \in Past => next \in Past)
  BY <1>0 DEF Phases, Past
<1> HIDE DEF next
<1>3. phase' \in [Sessions -> Phases] /\ (\A t \in Sessions \ {s} : phase'[t] = phase[t]) /\ phase'[s] = next
  BY <1>0, <1>1, <1>2
<1> QED
  BY <1>2, <1>3 DEF next

LEMMA EventTaken ==
  ASSUME ToldInv, events # <<>>, events' = Tail(events), NEW x, x = Head(events),
         \A s \in Sessions : Goes(s) \/ (s = x.entity /\ Control(x) /\ (phase[s] \in Past => phase'[s] \in Past))
  PROVE  /\ events' \in Seq(Events) /\ EventsOK'
         /\ x \in Events /\ EventOK(x)
         /\ Control(x) => NoControl(events', x.entity)
<1>1. events \in Seq(Events) /\ OneControl(events)
  BY DEF ToldInv, Types, EventsOK
<1>2. /\ events' \in Seq(Events) /\ Len(events') = Len(events) - 1 /\ Len(events) \in Nat \ {0}
      /\ x = events[1] /\ x \in Events
  BY <1>1, TailEvents
<1>3. \A i \in 1..Len(events') : events'[i] = events[i + 1]
  BY <1>1, TailEvents
<1>4. OneControl(events') /\ (Control(x) => NoControl(events', x.entity))
  <2>1. OneControl(events) => OneControl(events') /\ (Control(events[1]) => NoControl(events', events[1].entity))
    BY <1>1, TailEvents
  <2> QED
    BY <1>1, <1>2, <2>1
<1>5. \A i \in 1..Len(events) : EventOK(events[i]) /\ events[i] \in Events
  BY <1>1 DEF ToldInv, EventsOK
<1>6. ASSUME NEW i \in 1..Len(events') PROVE EventOK(events[i])'
  <2>1. events'[i] \in Events /\ EventOK(events'[i])
    BY <1>2, <1>3, <1>5
  <2>2. PICK y \in Events : y = events'[i]
    BY <2>1
  <2>3. EventOK(y)
    BY <2>1, <2>2
  <2>4. y.entity \in Sessions
    BY DEF Events
  <2>5. CASE Goes(y.entity)
    BY <2>2, <2>3, <2>5 DEF EventOK, Goes, Past, Events
  <2>6. CASE ~Goes(y.entity)
    <3>1. y.entity = x.entity /\ Control(x) /\ (phase[y.entity] \in Past => phase'[y.entity] \in Past)
      BY <2>4, <2>6
    <3>2. ~Control(y)
      BY <1>4, <2>2, <3>1 DEF NoControl
    <3> QED
      BY <2>2, <2>3, <3>1, <3>2 DEF EventOK, Control, Events
  <2> QED
    BY <2>5, <2>6
<1>7. EventsOK'
  BY <1>4, <1>6 DEF EventsOK
<1>8. EventOK(x)
  BY <1>2, <1>5
<1> QED
  BY <1>2, <1>4, <1>7, <1>8

LEMMA IdleIs ==
  Idle \in Pumps /\ Idle.at = "idle"
BY DEF Idle, Pumps

LEMMA TakeTold ==
  ASSUME ToldInv, Take
  PROVE  ToldInv'
<1> DEFINE ev == Head(events)
           Begin(at) == [Idle EXCEPT !.at = at, !.entity = ev.entity, !.cell = ev.cell]
<1>0. phase \in [Sessions -> Phases] /\ fan \in Fans /\ relocated \in [Sessions -> Nat]
  BY DEF ToldInv, Types
<1>1. /\ pump.at = "idle" /\ events # <<>> /\ events' = Tail(events)
      /\ UNCHANGED <<tick, cellOf, torn>>
  BY DEF Take
<1>e. ev \in Events /\ EventOK(ev) /\ ev.entity \in Sessions /\ ev.cell \in Cells /\ ev.cell \in Int
  <2>1. events \in Seq(Events)
    BY DEF ToldInv, Types
  <2>2. ev = events[1] /\ 1 \in 1..Len(events) /\ events[1] \in Events
    BY <1>1, <2>1
  <2>3. EventOK(events[1])
    BY <2>2 DEF ToldInv, EventsOK
  <2> HIDE DEF ev
  <2> QED
    BY <2>2, <2>3, PresenceConstants DEF Events
<1>b. ASSUME NEW at \in {"center", "bootstrap", "remove"}
      PROVE  /\ Begin(at) \in Pumps /\ Begin(at).at = at /\ Begin(at).entity = ev.entity /\ Begin(at).cell = ev.cell
             /\ Begin(at) = [at |-> at, entity |-> ev.entity, cell |-> ev.cell, creates |-> {}, removes |-> {}, moves |-> {}]
  <2> HIDE DEF ev
  <2>1. ev.entity \in Nat
    BY <1>e, PresenceConstants
  <2>2. Begin(at) = [at |-> at, entity |-> ev.entity, cell |-> ev.cell, creates |-> {}, removes |-> {}, moves |-> {}]
    <3>1. PICK q : q = Begin(at)
      OBVIOUS
    <3>2. q = [at |-> at, entity |-> ev.entity, cell |-> ev.cell, creates |-> {}, removes |-> {}, moves |-> {}]
      BY <3>1 DEF Idle
    <3> QED
      BY <3>1, <3>2
  <2> HIDE DEF Begin
  <2> QED
    BY <1>e, <2>1, <2>2 DEF Pumps, Moving
<1>2. CASE closed
  <2>1. /\ IF ev.kind = "movement" THEN UNCHANGED phase ELSE complete(ev.entity, FALSE)
        /\ UNCHANGED <<pump, relocated, fan, torn>>
    BY <1>2 DEF Take
  <2>2. phase' \in [Sessions -> Phases] /\ \A s \in Sessions :
          /\ Goes(s) \/ (s = ev.entity /\ Control(ev) /\ (phase[s] \in Past => phase'[s] \in Past))
          /\ phase'[s] \in Past <=> phase[s] \in Past
          /\ phase'[s] \in Early => phase[s] \in Early
          /\ phase'[s] \in Away <=> phase[s] \in Away
    <3> HIDE DEF ev
    <3>1. CASE ev.kind = "movement"
      BY <1>0, <2>1, <3>1 DEF Goes
    <3>2. CASE ev.kind # "movement"
      <4>1. /\ phase' \in [Sessions -> Phases]
            /\ \A t \in Sessions \ {ev.entity} : phase'[t] = phase[t]
            /\ phase'[ev.entity] = IF phase[ev.entity] = "booting" THEN "failed"
                                   ELSE IF phase[ev.entity] = "removing" THEN "fallback"
                                   ELSE phase[ev.entity]
        BY <1>e, <2>1, <3>2, CompleteIs
      <4> QED
        BY <3>2, <4>1 DEF Goes, Control, Past, Early, Away
    <3> QED
      BY <3>1, <3>2
  <2>3. events' \in Seq(Events) /\ EventsOK'
    BY <1>1, <2>2, EventTaken
  <2>4. PumpOK'
    BY <1>1, <2>1 DEF PumpOK, Moving
  <2>5. ReadyOK' /\ ViewsOK'
    BY <2>1, <2>2, PhaseKept
  <2>6. Types'
    BY <1>1, <2>1, <2>2, <2>3 DEF ToldInv, Types
  <2> QED
    BY <2>3, <2>4, <2>5, <2>6 DEF ToldInv
<1>3. CASE ~closed /\ ev.kind = "movement"
  <2>1. pump' \in {Idle, Begin("center")} /\ UNCHANGED <<phase, relocated, fan, torn>>
    BY <1>3 DEF Take
  <2>2. events' \in Seq(Events) /\ EventsOK'
    BY <1>1, <2>1, EventTaken DEF Goes
  <2>3. phase[ev.entity] \in Past
    BY <1>3, <1>e DEF EventOK
  <2>4. pump' \in Pumps /\ pump'.at \in {"idle", "center"}
        /\ (pump'.at # "idle" => pump'.entity = ev.entity /\ pump'.cell = ev.cell)
    BY <1>b, <2>1, IdleIs
  <2> HIDE DEF Begin, ev
  <2>5. PumpOK'
    BY <1>e, <2>1, <2>3, <2>4 DEF PumpOK, Moving
  <2>6. \A s \in Sessions : SameStage(s) /\ Followed(s)
    BY <1>1, <2>1, <2>4 DEF SameStage, Joined, Joining, New, Followed, SameView
  <2>7. ReadyOK' /\ ViewsOK'
    BY <2>1, <2>6, StageFollows
  <2>8. Types'
    BY <1>1, <1>e, <2>1, <2>2, <2>4 DEF ToldInv, Types
  <2> QED
    BY <2>2, <2>5, <2>7, <2>8 DEF ToldInv
<1>4. CASE ~closed /\ ev.kind = "bootstrap"
  <2> DEFINE near == {ev.entity} \cup EntitiesInCell(cellOf, BaseAOICells(fan.presence[ev.entity].center))
  <2>1. pump' = [Begin("bootstrap") EXCEPT !.creates = near] /\ UNCHANGED <<phase, relocated, fan, torn>>
    BY <1>4 DEF Take
  <2>2. events' \in Seq(Events) /\ EventsOK' /\ NoControl(events', ev.entity)
    <3>1. \A s \in Sessions : Goes(s)
      BY <2>1 DEF Goes
    <3>2. Control(ev)
      BY <1>4 DEF Control
    <3> HIDE DEF ev
    <3> QED
      BY <1>1, <3>1, <3>2, EventTaken DEF ev
  <2>3. phase[ev.entity] = "booting"
    BY <1>4, <1>e DEF EventOK
  <2>4. near \in SUBSET Sessions /\ ev.entity \in near
    BY <1>e DEF EntitiesInCell
  <2>5. pump' = [at |-> "bootstrap", entity |-> ev.entity, cell |-> ev.cell, creates |-> near, removes |-> {}, moves |-> {}]
    <3>1. Begin("bootstrap") = [at |-> "bootstrap", entity |-> ev.entity, cell |-> ev.cell, creates |-> {}, removes |-> {}, moves |-> {}]
      BY <1>b
    <3> HIDE DEF Begin, ev, near
    <3> QED
      BY <2>1, <3>1
  <2> HIDE DEF Begin, ev, near
  <2>6. pump' \in Pumps
    BY <1>e, <2>4, <2>5, PresenceConstants DEF Pumps
  <2>7. PumpOK'
    BY <2>1, <2>2, <2>3, <2>5 DEF PumpOK, Moving
  <2>8. \A s \in Sessions \ {ev.entity} : SameStage(s)
    BY <1>1, <2>1, <2>5 DEF SameStage, Joined, Joining, New
  <2>s. PICK me \in Sessions : me = ev.entity
    BY <1>e
  <2>9. ASSUME NEW s \in Sessions, s # me PROVE ViewOK(s)' /\ PresenceIn(s)'
    <3>1. Followed(s)
      BY <2>1 DEF Followed, SameView
    <3> QED
      BY <2>1, <2>8, <2>9, <2>s, <3>1, ViewGoes
  <2>10. ViewOK(me)' /\ PresenceIn(me)'
    <3>1. ViewOK(me) /\ PresenceIn(me)
      BY DEF ToldInv, ViewsOK
    <3>2. New(me) /\ ~Joined(me)
      BY <1>1, <2>3, <2>s DEF New, Joining, Joined, Past, Early
    <3>3. ToldBut(fan.presence[me], near) = {} \/ ~(Visible(fan.presence[me]) \subseteq {me})
      BY <2>4, <2>s DEF ToldBut
    <3>4. PresenceIn(me)'
      BY <2>1, <3>1 DEF PresenceIn
    <3>5. ViewOK(me)'
      <4>1. pump'.at = "bootstrap" /\ pump'.entity = me /\ pump'.creates = near
        BY <2>5, <2>s
      <4>2. Joining(me)' /\ ~New(me)' /\ ~Joined(me)'
        BY <2>1, <2>3, <2>s, <4>1 DEF New, Joining, Joined, Past
      <4>3. me \in fan.up => fan.moving[me] = {} /\ fan.shown[me] = {} /\ ToldBut(fan.presence[me], near) = {}
        BY <3>1, <3>2, <3>3 DEF ViewOK
      <4> QED
        BY <2>1, <4>1, <4>2, <4>3 DEF ViewOK
    <3> QED
      BY <3>4, <3>5
  <2>11. ReadyOK'
    BY <1>0, <1>1, <2>1, <2>3, FanFields DEF ToldInv, ReadyOK, Joined
  <2>12. Types'
    <3>1. pump'.entity \in Sessions
      BY <1>e, <2>5
    <3> QED
      BY <1>1, <2>1, <2>2, <2>6, <3>1 DEF ToldInv, Types
  <2> QED
    BY <2>2, <2>7, <2>9, <2>10, <2>11, <2>12 DEF ToldInv, ViewsOK
<1>5. CASE ~closed /\ ev.kind = "remove"
  <2> DEFINE gone == Viewers(fan.presence, ev.entity) \ {ev.entity}
  <2>1. /\ fan' = ClearReady(fan, ev.entity) /\ UNCHANGED phase
        /\ relocated' = [relocated EXCEPT ![ev.entity] = Never]
        /\ pump' = [Begin("remove") EXCEPT !.removes = gone]
    BY <1>5 DEF Take
  <2>2. events' \in Seq(Events) /\ EventsOK' /\ NoControl(events', ev.entity)
    <3>1. \A s \in Sessions : Goes(s)
      BY <2>1 DEF Goes
    <3>2. Control(ev)
      BY <1>5 DEF Control
    <3> HIDE DEF ev
    <3> QED
      BY <1>1, <3>1, <3>2, EventTaken DEF ev
  <2>3. phase[ev.entity] = "removing"
    BY <1>5, <1>e DEF EventOK
  <2>4. gone \in SUBSET Sessions /\ ev.entity \notin gone
    BY DEF Viewers
  <2>5. pump' = [at |-> "remove", entity |-> ev.entity, cell |-> ev.cell, creates |-> {}, removes |-> gone, moves |-> {}]
    <3>1. Begin("remove") = [at |-> "remove", entity |-> ev.entity, cell |-> ev.cell, creates |-> {}, removes |-> {}, moves |-> {}]
      BY <1>b
    <3> HIDE DEF Begin, ev, gone
    <3> QED
      BY <2>1, <3>1
  <2> HIDE DEF Begin, ev, gone
  <2>6. pump' \in Pumps
    BY <1>e, <2>4, <2>5, PresenceConstants DEF Pumps
  <2>7. PumpOK'
    BY <2>1, <2>2, <2>3, <2>4, <2>5 DEF PumpOK, Moving
  <2>8. \A s \in Sessions : SameStage(s)
    BY <1>1, <2>1, <2>5 DEF SameStage, Joined, Joining, New
  <2>9. /\ fan' \in Fans /\ OthersSame(fan, fan', ev.entity) /\ fan'.ready = fan.ready \ {ev.entity}
        /\ fan'.presence = fan.presence
        /\ Knowing(fan, ev.entity) => Knowing(fan', ev.entity)
    BY <1>0, <1>e, <2>1, ClearFields
  <2>10. Joined(ev.entity) /\ Knowing(fan', ev.entity)
    BY <1>e, <2>3, <2>9, JoinedKnows DEF Joined, Past
  <2>11. \A s \in Sessions : Followed(s)
    BY <2>9, <2>10 DEF Followed, OthersSame
  <2>12. fan'.ready \subseteq fan.ready
    BY <2>9
  <2>13. ReadyOK' /\ ViewsOK'
    BY <1>1, <2>1, <2>8, <2>9, <2>11, <2>12, StageFollows
  <2>14. Types'
    <3>1. pump'.entity \in Sessions
      BY <1>e, <2>5
    <3>2. relocated' \in [Sessions -> Nat]
      BY <1>0, <1>e, <2>1 DEF Never
    <3> QED
      BY <1>1, <2>1, <2>2, <2>6, <2>9, <3>1, <3>2 DEF ToldInv, Types
  <2> QED
    BY <2>2, <2>7, <2>13, <2>14 DEF ToldInv
<1> QED
  BY <1>2, <1>3, <1>4, <1>5, <1>e DEF Events

LEMMA CenterTold ==
  ASSUME ToldInv, Center
  PROVE  ToldInv'
<1> DEFINE e == pump.entity
           centered == [fan EXCEPT !.presence[pump.entity] = UpdateCenter(@, pump.cell)]
<1>1. pump.at = "center" /\ pump' = [pump EXCEPT !.at = "sets"]
      /\ UNCHANGED <<tick, cellOf, phase, events, relocated, torn>>
  BY DEF Center
<1>2. fan \in Fans /\ pump \in Pumps /\ e \in Sessions /\ phase[e] \in Past /\ pump.cell \in Cells /\ pump.cell \in Int
  BY <1>1, PresenceConstants DEF ToldInv, Types, PumpOK, Moving
<1>3. /\ pump'.at = "sets" /\ pump'.entity = e /\ pump'.cell = pump.cell /\ pump'.creates = pump.creates
      /\ pump' \in Pumps
  BY <1>1, <1>2 DEF Pumps, Moving
<1>4. Joined(e) /\ Knowing(fan, e)
  BY <1>2, JoinedKnows DEF Joined
<1>5. PICK g : g = centered
  OBVIOUS
<1>6. g = WithPresence(fan, e, UpdateCenter(fan.presence[e], pump.cell))
  BY <1>5 DEF WithPresence
<1>7. \/ fan' = fan /\ (fan.presence[e].active => fan.presence[e].center = pump.cell)
      \/ fan' = g
      \/ fan' = reconcileVisibleSet(g, e, cellOf)
  BY <1>5 DEF Center
<1> HIDE DEF e, centered
<1>8. /\ g \in Fans /\ OthersSame(fan, g, e) /\ g.ready = fan.ready
      /\ (g.presence[e].active <=> fan.presence[e].active) /\ g.presence[e].center = pump.cell
      /\ Knowing(g, e)
  BY <1>2, <1>4, <1>6, CenterFields
<1>9. /\ fan' \in Fans /\ OthersSame(fan, fan', e) /\ Knowing(fan', e)
      /\ (fan'.presence[e].active <=> fan.presence[e].active)
      /\ fan'.presence[e].active => fan'.presence[e].center = pump.cell
      /\ e \in fan'.ready => e \in fan.ready
  <2>1. CASE fan' = fan /\ (fan.presence[e].active => fan.presence[e].center = pump.cell)
    BY <1>2, <1>4, <2>1 DEF OthersSame, SameView
  <2>2. CASE fan' = g
    BY <1>8, <2>2
  <2>3. CASE fan' = reconcileVisibleSet(g, e, cellOf)
    <3>1. fan' \in Fans /\ OthersSame(g, fan', e) /\ Changed(g, fan', e, Near(g, e, cellOf))
      BY <1>2, <1>8, <2>3, ViewReconciled
    <3>2. OthersSame(fan, fan', e)
      BY <1>8, <3>1 DEF OthersSame, SameView
    <3> QED
      BY <1>8, <3>1, <3>2 DEF Changed
  <2> QED
    BY <1>7, <2>1, <2>2, <2>3
<1>10. \A s \in Sessions : SameStage(s)
  BY <1>1, <1>3 DEF SameStage, Joined, Joining, New
<1>11. \A s \in Sessions : Followed(s) /\ (fan'.presence[s].active <=> fan.presence[s].active)
                           /\ (s \in fan'.ready => s \in fan.ready)
  BY <1>4, <1>9 DEF Followed, OthersSame, SameView
<1>12. fan'.ready \subseteq fan.ready
  BY <1>9, <1>11, FanFields
<1>13. ReadyOK' /\ ViewsOK'
  BY <1>1, <1>10, <1>11, <1>12, StageFollows
<1>14. EventsOK'
  BY <1>1, EventsKept DEF Goes
<1>15. PumpOK'
  BY <1>1, <1>2, <1>3, <1>9 DEF PumpOK, Moving
<1>16. Types'
  BY <1>1, <1>2, <1>3, <1>9 DEF ToldInv, Types
<1> QED
  BY <1>13, <1>14, <1>15, <1>16 DEF ToldInv

(* Whom the pump still has to tell, in a step that changes nothing else.    *)
LEMMA SetsTold ==
  ASSUME ToldInv, Sets
  PROVE  ToldInv'
<1> DEFINE desired == Subscribers(fan.presence, pump.cell) \cap fan.ready
           current == Viewers(fan.presence, pump.entity) \cap fan.ready
<1>1. pump.at = "sets" /\ UNCHANGED <<tick, cellOf, phase, events, relocated, fan, torn>>
      /\ pump' = [pump EXCEPT !.at = "viewers", !.creates = desired \ current,
                              !.removes = current \ desired, !.moves = current \cap desired]
  BY DEF Sets
<1>2. fan \in Fans /\ pump \in Pumps /\ pump.entity \in Sessions /\ phase[pump.entity] \in Past /\ pump.cell \in Cells
  BY <1>1 DEF ToldInv, Types, PumpOK, Moving
<1>3. desired \in SUBSET fan.ready /\ current \in SUBSET fan.ready /\ fan.ready \in SUBSET Sessions
  BY <1>2, FanFields
<1>4. pump.entity \in current \ desired => <<pump.entity, pump.entity>> \in torn
  <2>1. pump.cell \in BaseAOICells(pump.cell)
    <3>1. pump.cell \in Int /\ Radius \in Nat
      BY <1>2, PresenceConstants
    <3>2. pump.cell \in (pump.cell - Radius)..(pump.cell + Radius)
      BY <3>1
    <3> QED
      BY <1>2, <3>2 DEF BaseAOICells
  <2>2. pump.entity \in current => fan.presence[pump.entity].active
    <3>1. HandlesOK(pump.entity, fan.presence[pump.entity])
      BY <1>2 DEF ToldInv, ViewsOK, PresenceIn
    <3>2. pump.entity \in current => pump.entity \in Visible(fan.presence[pump.entity])
      BY <1>2 DEF Viewers
    <3> QED
      BY <3>1, <3>2 DEF HandlesOK
  <2>3. fan.presence[pump.entity].active =>
          fan.presence[pump.entity].center = pump.cell \/ <<pump.entity, pump.entity>> \in torn
    BY <1>1 DEF ToldInv, PumpOK
  <2> QED
    BY <1>2, <2>1, <2>2, <2>3 DEF Subscribers
<1>5. \A s \in fan.ready : phase[s] \in Past
  BY <1>1, ReadyKnows DEF Joined
<1> HIDE DEF desired, current
<1>6. /\ pump'.at = "viewers" /\ pump'.entity = pump.entity /\ pump'.cell = pump.cell
      /\ pump'.creates = desired \ current /\ pump'.removes = current \ desired /\ pump'.moves = current \cap desired
      /\ pump' \in Pumps
  BY <1>1, <1>2, <1>3 DEF Pumps, Moving
<1>7. \A s \in Sessions : SameStage(s) /\ Followed(s)
  BY <1>1, <1>6 DEF SameStage, Joined, Joining, New, Followed, SameView
<1>8. ReadyOK' /\ ViewsOK'
  BY <1>1, <1>7, StageFollows
<1>9. EventsOK'
  BY <1>1, EventsKept DEF Goes
<1>10. PumpOK'
  BY <1>1, <1>2, <1>3, <1>4, <1>5, <1>6 DEF PumpOK, Moving
<1>11. Types'
  BY <1>1, <1>2, <1>6 DEF ToldInv, Types
<1> QED
  BY <1>8, <1>9, <1>10, <1>11 DEF ToldInv

LEMMA SomeMin ==
  ASSUME NEW S \in SUBSET Sessions, S # {}
  PROVE  Min(S) \in S
BY PresenceConstants, FS_Subset, MinIsIn

(* A movement is a position a viewer is told, or left out.                  *)
LEMMA SendMoveChanges ==
  ASSUME NEW f \in Fans, NEW s \in Sessions, NEW e \in Sessions, Knowing(f, s), NEW r \in sendMove(f, s, e)
  PROVE  /\ r \in Fans /\ OthersSame(f, r, s) /\ Knowing(r, s) /\ r.presence = f.presence
         /\ s \in r.ready => s \in f.ready
         /\ s \in r.up => s \in f.up
<1>1. CASE r = f
  BY <1>1 DEF OthersSame, SameView
<1>2. CASE r = ClearReady(f, s)
  BY <1>2, ClearFields
<1>3. CASE e \in Visible(f.presence[s]) /\ s \in f.up /\ r # f
  <2>1. r = [f EXCEPT !.moving[s] = @ \cup {f.presence[s].forward[e]}]
    BY <1>3 DEF sendMove
  <2>2. r = refreshViewerPosition(f, s, e)
    BY <1>3, <2>1 DEF refreshViewerPosition
  <2>3. r \in Fans /\ OthersSame(f, r, s) /\ Changed(f, r, s, Visible(f.presence[s]))
    BY <2>2, RefreshChanges
  <2>4. r.presence = f.presence
    <3>1. PICK pr, re, up, xs, xm : f = [presence |-> pr, ready |-> re, up |-> up, shown |-> xs, moving |-> xm]
      BY FanFields
    <3> QED
      BY <2>1, <3>1
  <2> QED
    BY <2>3, <2>4 DEF Changed
<1> QED
  BY <1>1, <1>2, <1>3 DEF sendMove

LEMMA TellViewerTold ==
  ASSUME ToldInv, TellViewer
  PROVE  ToldInv'
<1> DEFINE e == pump.entity
<1>1. pump.at = "viewers" /\ UNCHANGED <<tick, cellOf, phase, events, relocated, torn>>
  BY DEF TellViewer
<1>2. /\ fan \in Fans /\ pump \in Pumps /\ e \in Sessions /\ phase[e] \in Past /\ pump.cell \in Cells
      /\ pump.creates \in SUBSET Sessions /\ pump.removes \in SUBSET Sessions /\ pump.moves \in SUBSET Sessions
      /\ (e \in pump.removes => <<e, e>> \in torn) /\ \A s \in pump.creates \cup pump.removes \cup pump.moves : phase[s] \in Past
  BY <1>1 DEF ToldInv, Types, PumpOK, Moving, Pumps
<1>3. \A s \in pump.creates \cup pump.removes \cup pump.moves : s \in Sessions /\ Joined(s) /\ Knowing(fan, s)
  BY <1>2, JoinedKnows DEF Joined
<1> DEFINE Told1(s) == /\ fan' \in Fans /\ OthersSame(fan, fan', s) /\ Knowing(fan', s) /\ Joined(s)
                       /\ (fan'.presence[s].active <=> fan.presence[s].active) /\ (s \in fan'.ready => s \in fan.ready)
           Fewer == /\ pump' \in Pumps /\ (pump'.at # "idle" => pump'.at = "viewers" /\ pump'.entity = e /\ pump'.cell = pump.cell)
                    /\ pump'.at \in {"idle", "viewers"} /\ pump'.removes \subseteq pump.removes
                    /\ pump'.creates \subseteq pump.creates /\ pump'.moves \subseteq pump.moves
<1>4. Fewer /\ \/ fan' = fan
               \/ \E s \in Sessions : Told1(s)
  <2>1. CASE pump.creates # {} /\ fan' = addViewerCreate(fan, Min(pump.creates), e)
             /\ pump' = [pump EXCEPT !.creates = @ \ {Min(@)}]
    <3> DEFINE s == Min(pump.creates)
    <3>1. s \in Sessions /\ Joined(s) /\ Knowing(fan, s)
      BY <1>2, <1>3, <2>1, SomeMin
    <3> HIDE DEF s
    <3>2. fan' \in Fans /\ OthersSame(fan, fan', s) /\ Added(fan, fan', s, e)
      BY <1>2, <2>1, <3>1, AddChanges DEF s
    <3>3. Told1(s)
      BY <3>1, <3>2 DEF Added, Changed
    <3>4. Fewer
      BY <1>1, <1>2, <2>1 DEF Pumps, Moving
    <3> HIDE DEF Told1
    <3> QED
      BY <3>1, <3>3, <3>4
  <2>2. CASE pump.removes # {} /\ fan' = removeViewerDestroy(fan, Min(pump.removes), e)
             /\ pump' = [pump EXCEPT !.removes = @ \ {Min(@)}]
    <3> DEFINE s == Min(pump.removes)
    <3>1. s \in Sessions /\ Joined(s) /\ Knowing(fan, s) /\ (e = s => <<s, s>> \in torn)
      BY <1>2, <1>3, <2>2, SomeMin
    <3> HIDE DEF s
    <3>2. fan' \in Fans /\ OthersSame(fan, fan', s) /\ \E V : Changed(fan, fan', s, V)
      <4>1. fan' = removeViewerDestroy(fan, s, e)
        BY <2>2 DEF s
      <4>2. CASE e # s
        BY <1>2, <3>1, <4>1, <4>2, DestroyChanges
      <4>3. CASE e = s
        BY <1>2, <3>1, <4>1, <4>3, DestroyOwn
      <4> QED
        BY <4>2, <4>3
    <3>3. Told1(s)
      BY <3>1, <3>2 DEF Changed
    <3>4. Fewer
      BY <1>1, <1>2, <2>2 DEF Pumps, Moving
    <3> HIDE DEF Told1
    <3> QED
      BY <3>1, <3>3, <3>4
  <2>3. CASE pump.moves # {} /\ fan' \in sendMove(fan, Min(pump.moves), e)
             /\ pump' = [pump EXCEPT !.moves = @ \ {Min(@)}]
    <3> DEFINE s == Min(pump.moves)
    <3>1. s \in Sessions /\ Joined(s) /\ Knowing(fan, s)
      BY <1>2, <1>3, <2>3, SomeMin
    <3> HIDE DEF s
    <3>2. /\ fan' \in Fans /\ OthersSame(fan, fan', s) /\ Knowing(fan', s) /\ fan'.presence = fan.presence
          /\ s \in fan'.ready => s \in fan.ready
      BY <1>2, <2>3, <3>1, SendMoveChanges DEF s
    <3>3. Told1(s)
      BY <3>1, <3>2
    <3>4. Fewer
      BY <1>1, <1>2, <2>3 DEF Pumps, Moving
    <3> HIDE DEF Told1
    <3> QED
      BY <3>1, <3>3, <3>4
  <2>4. CASE pump' = Idle /\ UNCHANGED fan
    BY <2>4, IdleIs DEF Idle
  <2> QED
    BY <2>1, <2>2, <2>3, <2>4 DEF TellViewer
<1> HIDE DEF e
<1>5. fan' \in Fans /\ \A s \in Sessions : Followed(s) /\ (fan'.presence[s].active <=> fan.presence[s].active)
                                           /\ (s \in fan'.ready => s \in fan.ready)
  <2>1. CASE fan' = fan
    BY <1>2, <2>1 DEF Followed, SameView
  <2>2. ASSUME NEW s \in Sessions, Told1(s)
        PROVE  fan' \in Fans /\ \A t \in Sessions : Followed(t) /\ (fan'.presence[t].active <=> fan.presence[t].active)
                                                    /\ (t \in fan'.ready => t \in fan.ready)
    BY <2>2 DEF Followed, OthersSame, SameView
  <2> QED
    BY <1>4, <2>1, <2>2
<1>6. \A s \in Sessions : SameStage(s)
  BY <1>1, <1>4 DEF SameStage, Joined, Joining, New
<1>7. fan'.ready \subseteq fan.ready
  BY <1>5, FanFields
<1>8. ReadyOK' /\ ViewsOK'
  BY <1>1, <1>5, <1>6, <1>7, StageFollows
<1>9. EventsOK'
  BY <1>1, EventsKept DEF Goes
<1>10. PumpOK'
  BY <1>1, <1>2, <1>4 DEF PumpOK, Moving
<1>11. Types'
  BY <1>1, <1>2, <1>4, <1>5 DEF ToldInv, Types
<1> QED
  BY <1>8, <1>9, <1>10, <1>11 DEF ToldInv

(* The control that the pump has is answered.                               *)
LEMMA EventsAnswered ==
  ASSUME ToldInv, NEW s \in Sessions, NoControl(events, s), events' = events,
         \A t \in Sessions \ {s} : phase'[t] = phase[t], phase[s] \in Past => phase'[s] \in Past
  PROVE  EventsOK'
<1>1. ASSUME NEW i \in 1..Len(events) PROVE EventOK(events[i])'
  <2>1. EventOK(events[i]) /\ events[i] \in Events
    BY DEF ToldInv, EventsOK, Types
  <2>2. Control(events[i]) => events[i].entity # s
    BY DEF NoControl
  <2> QED
    BY <2>1, <2>2 DEF EventOK, Control, Events
<1> QED
  BY <1>1 DEF EventsOK, ToldInv

LEMMA ToldOneMore ==
  ASSUME NEW p \in Presences, NEW q \in Presences, NEW e, NEW c, e \in c, Visible(q) = Visible(p) \cup {e},
         \A a \in Visible(p) : q.forward[a] = p.forward[a]
  PROVE  ToldBut(q, c \ {e}) = ToldBut(p, c) \cup {<<q.forward[e], e>>}
BY DEF ToldBut

(* A session that joins: one more entity is told of, or it fails.           *)
OneMore(f, r, s, e) ==
  s \in r.up =>
    /\ s \in f.up /\ Visible(r.presence[s]) = Visible(f.presence[s]) \cup {e}
    /\ \A a \in Visible(f.presence[s]) : r.presence[s].forward[a] = f.presence[s].forward[a]
    /\ r.shown[s] = f.shown[s] \cup {<<r.presence[s].forward[e], e>>}
    /\ r.moving[s] = f.moving[s]

LEMMA BootstrapOne ==
  ASSUME NEW f \in Fans, NEW s \in Sessions, NEW e \in Sessions, HandlesOK(s, f.presence[s]), f.presence[s].active,
         NEW p, p = f.presence[s], NEW q, q \in EnsureVisible(p, e), NEW r, r = emitCreate(WithPresence(f, s, q), s, e)
  PROVE  /\ r \in Fans /\ OthersSame(f, r, s) /\ HandlesOK(s, r.presence[s]) /\ r.presence[s].active
         /\ s \in r.ready => s \in f.ready
         /\ r.presence[s].center = f.presence[s].center
         /\ OneMore(f, r, s, e)
         /\ s \in r.up => InSim(e)
<1> DEFINE g == WithPresence(f, s, q)
<1>p. p \in Presences
  BY FanFields
<1>1. /\ q \in Presences /\ q.active /\ HandlesOK(s, q) /\ Visible(q) = Visible(p) \cup {e} /\ q.center = p.center
      /\ \A a \in Visible(p) : q.forward[a] = p.forward[a]
  <2>1. EnsureVisible(p, e) = IF ~p.active THEN {} ELSE IF e \in Visible(p) THEN {p}
                              ELSE IF p.next = InvalidNetID THEN {} ELSE {Granted(p, e)}
    BY GrantIs
  <2>2. CASE e \in Visible(p)
    <3>1. q = p
      BY <2>1, <2>2
    <3> QED
      BY <1>p, <2>2, <3>1
  <2>3. CASE e \notin Visible(p)
    <3>1. q = Granted(p, e) /\ p.next # InvalidNetID
      BY <2>1, <2>3
    <3> QED
      BY <1>p, <2>3, <3>1, GrantKeeps
  <2> QED
    BY <2>2, <2>3
<1>2. r = emitCreate(g, s, e)
  OBVIOUS
<1>3. /\ g \in Fans /\ OthersSame(f, g, s) /\ g.presence[s] = q
      /\ g.ready = f.ready /\ g.up = f.up /\ g.shown = f.shown /\ g.moving = f.moving
  BY <1>1, SetPresence
<1> HIDE DEF g
<1>8. HandlesOK(s, g.presence[s]) /\ e \in Visible(g.presence[s])
  BY <1>1, <1>3
<1>4. /\ r \in Fans /\ OthersSame(g, r, s)
      /\ HandlesOK(s, r.presence[s])
      /\ r.presence[s].center = g.presence[s].center /\ (r.presence[s].active <=> g.presence[s].active)
      /\ \/ s \notin r.up /\ s \notin r.ready
         \/ /\ InSim(e) /\ s \in g.up
            /\ r.presence = g.presence /\ r.ready = g.ready /\ r.up = g.up /\ r.moving = g.moving
            /\ r.shown[s] = g.shown[s] \cup {<<g.presence[s].forward[e], e>>}
  BY <1>2, <1>3, <1>8, EmitFields
<1>5. OthersSame(f, r, s)
  BY <1>3, <1>4 DEF OthersSame, SameView
<1>6. /\ s \in r.ready => s \in f.ready
      /\ r.presence[s].active /\ r.presence[s].center = f.presence[s].center
  <2>1. r.ready \subseteq r.ready /\ (s \in r.ready => r.ready = f.ready)
    BY <1>3, <1>4
  <2> QED
    BY <1>1, <1>3, <1>4, <2>1
<1>7. ASSUME s \in r.up
      PROVE  /\ s \in f.up /\ Visible(r.presence[s]) = Visible(p) \cup {e}
             /\ \A a \in Visible(p) : r.presence[s].forward[a] = p.forward[a]
             /\ r.shown[s] = f.shown[s] \cup {<<r.presence[s].forward[e], e>>}
             /\ r.moving[s] = f.moving[s]
  <2>1. /\ s \in g.up /\ r.presence = g.presence /\ r.moving = g.moving
        /\ r.shown[s] = g.shown[s] \cup {<<g.presence[s].forward[e], e>>}
    BY <1>4, <1>7
  <2>2. r.presence[s] = q
    BY <1>3, <2>1
  <2>3. r.shown[s] = f.shown[s] \cup {<<q.forward[e], e>>} /\ r.moving[s] = f.moving[s]
    BY <1>3, <2>1
  <2> QED
    BY <1>1, <1>3, <2>1, <2>2, <2>3
<1> QED
  BY <1>4, <1>5, <1>6, <1>7 DEF OneMore

LEMMA BootstrapTold ==
  ASSUME ToldInv, Bootstrap
  PROVE  ToldInv'
<1>0. /\ fan \in Fans /\ pump \in Pumps /\ phase \in [Sessions -> Phases] /\ pump.creates \in SUBSET Sessions
      /\ pump.at = "bootstrap" /\ UNCHANGED <<tick, cellOf, events, relocated, torn>>
  BY DEF Bootstrap, ToldInv, Types, Pumps
<1>1. PICK s \in Sessions : s = pump.entity
  BY <1>0 DEF ToldInv, Types
<1>2. /\ phase[s] = "booting" /\ NoControl(events, s) /\ Joining(s) /\ ~Joined(s) /\ ~New(s)
      /\ ViewOK(s) /\ PresenceIn(s)
  BY <1>0, <1>1 DEF ToldInv, PumpOK, ViewsOK, Joining, Joined, New, Past
<1>3. s \notin fan.ready
  BY <1>2 DEF ToldInv, ReadyOK
<1>4. fan.presence[s].active /\ HandlesOK(s, fan.presence[s])
  BY <1>2 DEF PresenceIn, Away
<1>5. s \in fan.up => fan.moving[s] = {} /\ fan.shown[s] = ToldBut(fan.presence[s], pump.creates)
  BY <1>2 DEF ViewOK
<1>6. ASSUME NEW t \in Sessions, t # s, SameView(fan, fan', t), phase'[t] = phase[t],
             pump'.at # "idle" => pump'.at \in {"bootstrap", "notify"} /\ pump'.entity = s
      PROVE  ViewOK(t)' /\ PresenceIn(t)'
  <2>1. SameStage(t)
    BY <1>0, <1>1, <1>6 DEF SameStage, Joined, Joining, New
  <2>2. Followed(t)
    BY <1>6 DEF Followed
  <2> QED
    BY <1>0, <1>6, <2>1, <2>2, ViewGoes DEF SameView
<1>7. CASE pump.creates = {}
  <2>1. fan' = [fan EXCEPT !.ready = @ \cup {s}] /\ pump' = [pump EXCEPT !.at = "notify"] /\ UNCHANGED phase
    BY <1>1, <1>7 DEF Bootstrap
  <2>2. PICK pr, re, up, xs, xm : fan = [presence |-> pr, ready |-> re, up |-> up, shown |-> xs, moving |-> xm]
    BY <1>0, FanFields
  <2>3. fan' = [presence |-> fan.presence, ready |-> fan.ready \cup {s}, up |-> fan.up, shown |-> fan.shown, moving |-> fan.moving]
    BY <2>1, <2>2
  <2>4. fan' \in Fans
    BY <1>0, <2>3, FanFields DEF Fans
  <2>5. pump' \in Pumps /\ pump'.at = "notify" /\ pump'.entity = s
    BY <1>0, <1>1, <2>1 DEF Pumps, Moving
  <2>6. ASSUME NEW t \in Sessions, t # s PROVE ViewOK(t)' /\ PresenceIn(t)'
    BY <1>6, <2>1, <2>3, <2>5, <2>6 DEF SameView
  <2>7. PresenceIn(s)'
    BY <1>2, <2>1, <2>3 DEF PresenceIn
  <2>8. ViewOK(s)'
    <3>1. ToldBut(fan.presence[s], pump.creates) = Told(fan.presence[s])
      BY <1>7 DEF ToldBut, Told
    <3>2. Knowing(fan', s)
      BY <1>4, <1>5, <2>3, <3>1 DEF Knowing
    <3>3. Joined(s)' /\ ~New(s)' /\ ~Joining(s)'
      BY <2>5 DEF Joined, New, Joining
    <3>4. Knowing(fan, s)'
      BY <1>0, <3>2 DEF Knowing
    <3> QED
      BY <3>3, <3>4 DEF ViewOK
  <2>9. ReadyOK'
    <3>1. fan.ready \in SUBSET Sessions
      BY <1>0, FanFields
    <3>2. \A t \in fan.ready : Joined(t) /\ phase[t] \in Past
      BY <1>0 DEF ToldInv, ReadyOK, Joined
    <3> QED
      BY <2>1, <2>3, <2>5, <3>1, <3>2 DEF ReadyOK, Joined
  <2>10. EventsOK'
    BY <1>0, <2>1, EventsKept DEF Goes
  <2>11. PumpOK'
    BY <1>0, <1>2, <2>1, <2>5 DEF PumpOK, Moving
  <2>12. Types'
    BY <1>0, <2>1, <2>4, <2>5 DEF ToldInv, Types
  <2> QED
    BY <2>6, <2>7, <2>8, <2>9, <2>10, <2>11, <2>12 DEF ToldInv, ViewsOK
<1>8. CASE pump.creates # {}
  <2> DEFINE p == fan.presence[s]
             e == Min(pump.creates)
             granted == EnsureVisible(p, e)
             told == IF granted = {} THEN fan
                     ELSE emitCreate(WithPresence(fan, s, CHOOSE q \in granted : TRUE), s, e)
  <2>1. /\ fan' = told
        /\ IF granted # {} /\ s \in told.up THEN pump' = [pump EXCEPT !.creates = @ \ {e}] /\ UNCHANGED phase
           ELSE pump' = Idle /\ complete(s, FALSE)
    BY <1>1, <1>8 DEF Bootstrap, WithPresence
  <2>2. e \in pump.creates /\ e \in Sessions
    BY <1>0, <1>8, SomeMin
  <2>3. granted # {} =>
          /\ told \in Fans /\ OthersSame(fan, told, s) /\ HandlesOK(s, told.presence[s]) /\ told.presence[s].active
          /\ s \in told.ready => s \in fan.ready
          /\ OneMore(fan, told, s, e)
    <3>1. SUFFICES ASSUME granted # {} PROVE
          /\ told \in Fans /\ OthersSame(fan, told, s) /\ HandlesOK(s, told.presence[s]) /\ told.presence[s].active
          /\ s \in told.ready => s \in fan.ready
          /\ OneMore(fan, told, s, e)
      OBVIOUS
    <3>2. PICK q : q = CHOOSE x \in granted : TRUE
      OBVIOUS
    <3>3. q \in EnsureVisible(p, e)
      BY <3>1, <3>2
    <3>4. told = emitCreate(WithPresence(fan, s, q), s, e)
      BY <3>1, <3>2
    <3>5. p = fan.presence[s] /\ HandlesOK(s, fan.presence[s]) /\ fan.presence[s].active
      BY <1>4
    <3> HIDE DEF e, told, p, granted
    <3>6. PICK r : r = told
      OBVIOUS
    <3>7. r = emitCreate(WithPresence(fan, s, q), s, e)
      BY <3>4, <3>6
    <3>8. /\ r \in Fans /\ OthersSame(fan, r, s) /\ HandlesOK(s, r.presence[s]) /\ r.presence[s].active
          /\ s \in r.ready => s \in fan.ready
          /\ OneMore(fan, r, s, e)
      BY <1>0, <2>2, <3>3, <3>5, <3>7, BootstrapOne
    <3> QED
      BY <3>6, <3>8
  <2>4. /\ fan' \in Fans /\ OthersSame(fan, fan', s) /\ HandlesOK(s, fan'.presence[s]) /\ fan'.presence[s].active
        /\ s \notin fan'.ready
    <3> HIDE DEF e, granted
    <3>1. CASE granted = {}
      BY <1>0, <1>3, <1>4, <2>1, <3>1 DEF OthersSame, SameView
    <3>2. CASE granted # {}
      <4> HIDE DEF told
      <4> QED
        BY <1>3, <2>1, <2>3, <3>2
    <3> QED
      BY <3>1, <3>2
  <2>5. fan'.ready \subseteq fan.ready
    BY <1>3, <2>4, FanFields DEF OthersSame, SameView
  <2>6. \A t \in Sessions \ {s} : SameView(fan, fan', t)
    BY <2>4 DEF OthersSame
  <2>7. fan.ready \in SUBSET Sessions /\ \A t \in fan.ready : phase[t] \in Past
    BY <1>0, FanFields DEF ToldInv, ReadyOK, Joined
  <2>8. CASE granted # {} /\ s \in told.up
    <3>1. pump' = [pump EXCEPT !.creates = @ \ {e}] /\ UNCHANGED phase
      BY <2>1, <2>8
    <3> HIDE DEF e, granted, told
    <3>2. pump' \in Pumps /\ pump'.at = "bootstrap" /\ pump'.entity = s /\ pump'.creates = pump.creates \ {e}
      BY <1>0, <1>1, <3>1 DEF Pumps, Moving
    <3>3. ASSUME NEW t \in Sessions, t # s PROVE ViewOK(t)' /\ PresenceIn(t)'
      BY <1>6, <2>6, <3>1, <3>2, <3>3
    <3>4. PresenceIn(s)'
      BY <1>2, <2>4, <3>1 DEF PresenceIn, Away
    <3>5. ViewOK(s)'
      <4>1. ToldBut(fan'.presence[s], pump.creates \ {e}) = ToldBut(p, pump.creates) \cup {<<fan'.presence[s].forward[e], e>>}
        <5>1. p \in Presences /\ fan'.presence[s] \in Presences
          BY <1>0, <2>4, FanFields
        <5>2. Visible(fan'.presence[s]) = Visible(p) \cup {e} /\ \A a \in Visible(p) : fan'.presence[s].forward[a] = p.forward[a]
          BY <2>1, <2>3, <2>8 DEF OneMore
        <5> HIDE DEF p
        <5> QED
          BY <2>2, <5>1, <5>2, ToldOneMore
      <4>2. fan'.shown[s] = fan.shown[s] \cup {<<fan'.presence[s].forward[e], e>>} /\ fan'.moving[s] = {}
        BY <1>5, <2>1, <2>3, <2>8 DEF OneMore
      <4>3. s \in fan.up
        BY <2>3, <2>8 DEF OneMore
      <4>4. Joining(s)' /\ ~Joined(s)' /\ ~New(s)'
        BY <1>2, <3>1, <3>2 DEF Joining, Joined, New, Past
      <4> QED
        BY <1>5, <3>2, <4>1, <4>2, <4>3, <4>4 DEF ViewOK
    <3>6. ReadyOK'
      BY <2>5, <2>7, <3>1 DEF ReadyOK, Joined
    <3>7. EventsOK'
      BY <1>0, <3>1, EventsKept DEF Goes
    <3>8. PumpOK'
      BY <1>0, <1>2, <3>1, <3>2 DEF PumpOK, Moving
    <3>9. Types'
      BY <1>0, <2>4, <3>1, <3>2 DEF ToldInv, Types
    <3> QED
      BY <3>3, <3>4, <3>5, <3>6, <3>7, <3>8, <3>9 DEF ToldInv, ViewsOK
  <2>9. CASE ~(granted # {} /\ s \in told.up)
    <3>1. pump' = Idle /\ complete(s, FALSE)
      BY <2>1, <2>9
    <3>a. s \in fan'.up => fan' = fan
      BY <2>1, <2>9
    <3> HIDE DEF e, granted, told
    <3>2. /\ phase' \in [Sessions -> Phases] /\ (\A t \in Sessions \ {s} : phase'[t] = phase[t]) /\ phase'[s] = "failed"
      BY <1>2, <3>1, CompleteIs
    <3>3. pump' \in Pumps /\ pump'.at = "idle"
      BY <3>1, IdleIs
    <3>4. ASSUME NEW t \in Sessions, t # s PROVE ViewOK(t)' /\ PresenceIn(t)'
      BY <1>6, <2>6, <3>2, <3>3, <3>4
    <3>5. PresenceIn(s)'
      BY <2>4, <3>2 DEF PresenceIn, Away
    <3>6. ViewOK(s)'
      BY <1>5, <3>a, <3>2, <3>3 DEF ViewOK, Joined, New, Joining, Past, Early
    <3>7. ReadyOK'
      BY <1>3, <2>5, <2>7, <3>2 DEF ReadyOK, Joined
    <3>8. EventsOK'
      BY <1>0, <1>2, <3>2, EventsAnswered DEF Past
    <3>9. PumpOK'
      BY <3>3 DEF PumpOK, Moving
    <3>10. Types'
      BY <1>0, <2>4, <3>2, <3>3 DEF ToldInv, Types
    <3> QED
      BY <3>4, <3>5, <3>6, <3>7, <3>8, <3>9, <3>10 DEF ToldInv, ViewsOK
  <2> QED
    BY <2>8, <2>9
<1> QED
  BY <1>7, <1>8

LEMMA NotifyTold ==
  ASSUME ToldInv, notifyExistingViewers
  PROVE  ToldInv'
<1>0. /\ fan \in Fans /\ pump \in Pumps /\ pump.at = "notify" /\ UNCHANGED <<tick, cellOf, events, relocated, torn>>
      /\ pump' = Idle
  BY DEF notifyExistingViewers, ToldInv, Types
<1>1. PICK s \in Sessions : s = pump.entity
  BY <1>0 DEF ToldInv, Types
<1> DEFINE others == (Subscribers(fan.presence, cellOf[s]) \cap fan.ready) \ {s}
<1>2. fan' = AddTo(fan, others, s)
  <2>1. fan' = LET me == pump.entity IN AddTo(fan, (Subscribers(fan.presence, cellOf[me]) \cap fan.ready) \ {me}, me)
    BY Zenon DEF notifyExistingViewers, AddTo
  <2> QED
    BY <1>1, <2>1
<1>3. complete(s, TRUE)
  BY <1>1 DEF notifyExistingViewers
<1>4. phase[s] = "booting" /\ NoControl(events, s)
  BY <1>0, <1>1 DEF ToldInv, PumpOK
<1>5. /\ phase' \in [Sessions -> Phases] /\ (\A t \in Sessions \ {s} : phase'[t] = phase[t]) /\ phase'[s] = "in"
  BY <1>3, <1>4, CompleteIs
<1>6. others \in SUBSET fan.ready /\ fan.ready \in SUBSET Sessions /\ others \in SUBSET Sessions
  BY <1>0, FanFields
<1>7. \A t \in fan.ready : Joined(t) /\ Knowing(fan, t)
  BY ReadyKnows
<1> HIDE DEF others
<1>8. /\ fan' \in Fans /\ (\A t \in others : Added(fan, fan', t, s))
      /\ \A t \in Sessions \ others : SameView(fan, fan', t)
  BY <1>0, <1>2, <1>6, <1>7, AddAll
<1>9. \A t \in Sessions : Followed(t) /\ (fan'.presence[t].active <=> fan.presence[t].active)
                          /\ (t \in fan'.ready => t \in fan.ready)
  BY <1>6, <1>7, <1>8 DEF Followed, Added, Changed, SameView
<1>10. fan'.ready \subseteq fan.ready
  BY <1>8, <1>9, FanFields
<1>11. pump' \in Pumps /\ pump'.at = "idle"
  BY <1>0, IdleIs
<1>12. \A t \in Sessions : SameStage(t)
  BY <1>0, <1>1, <1>4, <1>5, <1>11 DEF SameStage, Joined, Joining, New, Past
<1>13. \A t \in Sessions : phase'[t] \in Away <=> phase[t] \in Away
  BY <1>4, <1>5 DEF Away
<1>14. ReadyOK' /\ ViewsOK'
  BY <1>0, <1>9, <1>10, <1>12, <1>13, StageFollows
<1>15. EventsOK'
  BY <1>0, <1>4, <1>5, EventsAnswered DEF Past
<1>16. PumpOK'
  BY <1>11 DEF PumpOK, Moving
<1>17. Types'
  BY <1>0, <1>5, <1>8, <1>11 DEF ToldInv, Types
<1> QED
  BY <1>14, <1>15, <1>16, <1>17 DEF ToldInv

LEMMA RemoveTold ==
  ASSUME ToldInv, Remove
  PROVE  ToldInv'
<1>0. /\ fan \in Fans /\ pump \in Pumps /\ pump.at = "remove" /\ UNCHANGED <<tick, cellOf, events, relocated, torn>>
      /\ pump.removes \in SUBSET Sessions
  BY DEF Remove, ToldInv, Types, Pumps
<1>1. PICK s \in Sessions : s = pump.entity
  BY <1>0 DEF ToldInv, Types
<1>2. phase[s] = "removing" /\ NoControl(events, s) /\ s \notin pump.removes
  BY <1>0, <1>1 DEF ToldInv, PumpOK
<1>3. CASE pump.removes = {}
  <2>1. complete(s, TRUE) /\ pump' = Idle /\ UNCHANGED fan
    BY <1>1, <1>3 DEF Remove
  <2>2. /\ phase' \in [Sessions -> Phases] /\ (\A t \in Sessions \ {s} : phase'[t] = phase[t]) /\ phase'[s] = "removed"
    BY <1>2, <2>1, CompleteIs
  <2>3. pump' \in Pumps /\ pump'.at = "idle"
    BY <2>1, IdleIs
  <2>4. \A t \in Sessions : SameStage(t) /\ Followed(t) /\ (phase'[t] \in Away <=> phase[t] \in Away)
    BY <1>0, <1>2, <2>1, <2>2, <2>3 DEF SameStage, Joined, Joining, New, Past, Early, Away, Followed, SameView
  <2>5. ReadyOK' /\ ViewsOK'
    BY <1>0, <2>1, <2>4, StageFollows
  <2>6. EventsOK'
    BY <1>0, <1>2, <2>2, EventsAnswered DEF Past
  <2>7. PumpOK'
    BY <2>3 DEF PumpOK, Moving
  <2>8. Types'
    BY <1>0, <2>1, <2>2, <2>3 DEF ToldInv, Types
  <2> QED
    BY <2>5, <2>6, <2>7, <2>8 DEF ToldInv
<1>4. CASE pump.removes # {}
  <2> DEFINE v == Min(pump.removes)
  <2>1. /\ fan' = IF v \in fan.ready THEN removeViewerDestroy(fan, v, s) ELSE Hide(fan, v, s)
        /\ pump' = [pump EXCEPT !.removes = @ \ {v}] /\ UNCHANGED phase
    BY <1>1, <1>4 DEF Remove
  <2>2. v \in pump.removes /\ v \in Sessions /\ v # s
    BY <1>0, <1>2, <1>4, SomeMin
  <2> HIDE DEF v
  <2>3. /\ pump' \in Pumps /\ pump'.at = "remove" /\ pump'.entity = s /\ pump'.removes = pump.removes \ {v}
    BY <1>0, <1>1, <2>1 DEF Pumps, Moving
  <2>4. /\ fan' \in Fans /\ OthersSame(fan, fan', v) /\ Followed(v)
        /\ (fan'.presence[v].active <=> fan.presence[v].active) /\ (v \in fan'.ready => v \in fan.ready)
    <3>1. CASE v \in fan.ready
      <4>1. Joined(v) /\ Knowing(fan, v)
        BY <3>1, ReadyKnows
      <4>2. fan' \in Fans /\ OthersSame(fan, fan', v) /\ Changed(fan, fan', v, Visible(fan.presence[v]) \ {s})
        BY <1>0, <2>1, <2>2, <3>1, <4>1, DestroyChanges
      <4> QED
        BY <4>1, <4>2 DEF Changed, Followed
    <3>2. CASE v \notin fan.ready
      <4>1. /\ fan' \in Fans /\ OthersSame(fan, fan', v) /\ fan'.presence[v] = HideVisible(v, fan.presence[v], s)
            /\ fan'.ready = fan.ready /\ fan'.up = fan.up /\ fan'.shown = fan.shown /\ fan'.moving = fan.moving
        BY <1>0, <2>1, <2>2, <3>2, HideFields
      <4>2. fan.presence[v] \in Presences /\ HandlesOK(v, fan.presence[v])
        BY <1>0, <2>2, FanFields DEF ToldInv, ViewsOK, PresenceIn
      <4>3. LET p == fan.presence[v]
                q == fan'.presence[v]
            IN (q.active <=> p.active) /\ Visible(q) \subseteq Visible(p) /\ HandlesOK(v, q)
               /\ \A a \in Visible(q) : q.forward[a] = p.forward[a]
        BY <2>2, <4>1, <4>2, HideFromPresence
      <4>4. Told(fan'.presence[v]) \subseteq Told(fan.presence[v])
        BY <4>3 DEF Told
      <4>5. Hidden(v)
        BY <1>0, <3>2, <4>1, <4>3, <4>4 DEF Hidden, Joining
      <4> QED
        BY <3>2, <4>1, <4>3, <4>5 DEF Followed
    <3> QED
      BY <3>1, <3>2
  <2>5. \A t \in Sessions : Followed(t) /\ (fan'.presence[t].active <=> fan.presence[t].active)
                            /\ (t \in fan'.ready => t \in fan.ready)
    BY <2>4 DEF Followed, OthersSame, SameView
  <2>6. fan'.ready \subseteq fan.ready
    BY <2>4, <2>5, FanFields
  <2>7. \A t \in Sessions : SameStage(t)
    BY <1>0, <1>1, <2>1, <2>3 DEF SameStage, Joined, Joining, New
  <2>8. ReadyOK' /\ ViewsOK'
    BY <1>0, <2>1, <2>5, <2>6, <2>7, StageFollows
  <2>9. EventsOK'
    BY <1>0, <2>1, EventsKept DEF Goes
  <2>10. PumpOK'
    BY <1>0, <1>2, <2>1, <2>3 DEF PumpOK, Moving
  <2>11. Types'
    BY <1>0, <2>1, <2>3, <2>4 DEF ToldInv, Types
  <2> QED
    BY <2>8, <2>9, <2>10, <2>11 DEF ToldInv
<1> QED
  BY <1>3, <1>4

-----------------------------------------------------------------------------
(* The theorem *)

LEMMA InitTold == Init => ToldInv
<1> SUFFICES ASSUME Init PROVE ToldInv
  OBVIOUS
<1>1. NoPresence \in Presences /\ ~NoPresence.active /\ \A s : HandlesOK(s, NoPresence)
      /\ Visible(NoPresence) = {} /\ Told(NoPresence) = {}
  <2>1. <<>> \in Forwards /\ DOMAIN <<>> = {}
    <3>1. <<>> \in [{} -> Nat]
      OBVIOUS
    <3> QED
      BY <3>1 DEF Forwards
  <2> QED
    BY <2>1 DEF NoPresence, Presences, InvalidNetID, Visible, HandlesOK, Told
<1>2. /\ tick = 1 /\ phase = [s \in Sessions |-> "out"] /\ events = <<>> /\ pump = Idle
      /\ relocated = [e \in Sessions |-> Never] /\ cellOf = [e \in Sessions |-> CHOOSE c \in Cells : TRUE]
      /\ fan = [presence |-> [s \in Sessions |-> NoPresence], ready |-> {}, up |-> Sessions,
                shown |-> [s \in Sessions |-> {}], moving |-> [s \in Sessions |-> {}]]
  BY DEF Init
<1> HIDE DEF NoPresence
<1>3. fan \in Fans
  <2>1. [s \in Sessions |-> NoPresence] \in [Sessions -> Presences]
    BY <1>1
  <2> QED
    BY <1>2, <2>1 DEF Fans
<1>4. \A s \in Sessions : /\ fan.presence[s] = NoPresence /\ fan.shown[s] = {} /\ fan.moving[s] = {}
                          /\ phase[s] = "out"
  BY <1>2
<1>5. pump.at = "idle" /\ pump \in Pumps
  BY <1>2, IdleIs
<1>6. Types
  <2>1. cellOf \in [Sessions -> Cells]
    <3>1. (CHOOSE c \in Cells : TRUE) \in Cells
      BY PresenceConstants
    <3> QED
      BY <1>2, <3>1
  <2>2. phase \in [Sessions -> Phases]
    BY <1>2 DEF Phases, Away
  <2>3. relocated \in [Sessions -> Nat]
    BY <1>2 DEF Never
  <2>4. events \in Seq(Events)
    BY <1>2
  <2> QED
    BY <1>2, <1>3, <1>5, <2>1, <2>2, <2>3, <2>4 DEF Types
<1>7. EventsOK
  BY <1>2 DEF EventsOK, OneControl
<1>8. PumpOK
  BY <1>5 DEF PumpOK, Moving
<1>9. ReadyOK
  BY <1>2 DEF ReadyOK
<1>10. ASSUME NEW s \in Sessions PROVE PresenceIn(s) /\ ViewOK(s)
  <2>1. PresenceIn(s)
    BY <1>1, <1>4 DEF PresenceIn, Away
  <2>2. ~Joined(s) /\ ~Joining(s)
    BY <1>4, <1>5 DEF Joined, Joining, Past
  <2> QED
    BY <1>1, <1>4, <2>1, <2>2 DEF ViewOK
<1> QED
  BY <1>6, <1>7, <1>8, <1>9, <1>10 DEF ToldInv, ViewsOK

LEMMA SimulationTold ==
  ASSUME ToldInv, Simulation
  PROVE  ToldInv'
<1>1. PICK e \in Sessions : EmitDeath(e) \/ \E cell \in Cells : Move(e, cell) \/ OnDeathCompleted(e, cell)
  BY DEF Simulation
<1>2. CASE EmitDeath(e)
  BY <1>2, EmitDeathTold
<1>3. CASE \E cell \in Cells : Move(e, cell) \/ OnDeathCompleted(e, cell)
  <2>1. PICK cell \in Cells : Move(e, cell) \/ OnDeathCompleted(e, cell)
    BY <1>3
  <2>2. CASE Move(e, cell)
    BY <2>2, MoveTold
  <2>3. CASE OnDeathCompleted(e, cell)
    BY <2>3, OnDeathCompletedTold
  <2> QED
    BY <2>1, <2>2, <2>3
<1> QED
  BY <1>1, <1>2, <1>3

LEMMA LoopTold ==
  ASSUME ToldInv, loop
  PROVE  ToldInv'
<1>1. CASE Take
  BY <1>1, TakeTold
<1>2. CASE Center
  BY <1>2, CenterTold
<1>3. CASE Sets
  BY <1>3, SetsTold
<1>4. CASE TellViewer
  BY <1>4, TellViewerTold
<1>5. CASE Bootstrap
  BY <1>5, BootstrapTold
<1>6. CASE notifyExistingViewers
  BY <1>6, NotifyTold
<1>7. CASE Remove
  BY <1>7, RemoveTold
<1> QED
  BY <1>1, <1>2, <1>3, <1>4, <1>5, <1>6, <1>7 DEF loop

LEMMA LifecycleTold ==
  ASSUME ToldInv, NEW s \in Sessions, Lifecycle(s)
  PROVE  ToldInv'
<1>1. CASE CommitEnter(s)
  BY <1>1, CommitEnterTold
<1>2. CASE BootstrapSession(s)
  BY <1>2, SubmitTold DEF BootstrapSession
<1>3. CASE FailEnter(s)
  BY <1>3, EndPresenceTold DEF FailEnter
<1>4. CASE AbortEnter(s)
  BY <1>4, AbortEnterTold
<1>5. CASE RemovePresence(s)
  BY <1>5, SubmitTold DEF RemovePresence
<1>6. CASE removePresenceFallback(s)
  BY <1>6, FallbackTold
<1>7. CASE Deactivate(s)
  BY <1>7, EndPresenceTold DEF Deactivate
<1> QED
  BY <1>1, <1>2, <1>3, <1>4, <1>5, <1>6, <1>7 DEF Lifecycle

LEMMA NothingTold ==
  ASSUME ToldInv, UNCHANGED vars
  PROVE  ToldInv'
<1>1. UNCHANGED <<tick, cellOf, phase, events, pump, relocated, fan, torn>>
  BY DEF vars
<1>2. Types'
  BY <1>1 DEF ToldInv, Types
<1>3. \A s \in Sessions : /\ Goes(s)
                          /\ phase'[s] \in Past <=> phase[s] \in Past
                          /\ phase'[s] \in Early => phase[s] \in Early
                          /\ phase'[s] \in Away <=> phase[s] \in Away
  BY <1>1 DEF Goes
<1>4. \A s \in Sessions : Followed(s) /\ Steady(s) /\ (fan'.presence[s].active <=> fan.presence[s].active)
  BY <1>1 DEF Followed, SameView, Steady
<1> QED
  BY <1>1, <1>2, <1>3, <1>4, FanFollows

LEMMA NextTold ==
  ASSUME ToldInv, [Next]_vars
  PROVE  ToldInv'
<1>1. CASE Simulation
  BY <1>1, SimulationTold
<1>2. CASE loop
  BY <1>2, LoopTold
<1>3. CASE Close
  BY <1>3, CloseTold
<1>4. ASSUME NEW s \in Sessions,
             Lifecycle(s) \/ ExitWorld(s) \/ Write(s) \/ Lose(s) \/ \E cell \in Cells : PrepareEnter(s, cell)
      PROVE  ToldInv'
  <2>1. CASE Lifecycle(s)
    BY <2>1, LifecycleTold
  <2>2. CASE ExitWorld(s)
    BY <2>2, ExitWorldTold
  <2>3. CASE Write(s)
    BY <2>3, WriteTold
  <2>4. CASE Lose(s)
    BY <2>4, LoseTold
  <2>5. CASE \E cell \in Cells : PrepareEnter(s, cell)
    BY <2>5, PrepareEnterTold
  <2> QED
    BY <1>4, <2>1, <2>2, <2>3, <2>4, <2>5
<1>5. CASE UNCHANGED vars
  BY <1>5, NothingTold
<1> QED
  BY <1>1, <1>2, <1>3, <1>4, <1>5 DEF Next

(* What a client in the world was told is what the server believes, and no  *)
(* movement reaches it under a handle that it does not know, for any number *)
(* of sessions, events, deaths at any moment and lost connections: unless   *)
(* the pump was in the middle of this very player's event when it died.     *)
THEOREM ClientsKnowWhatIsBelieved ==
  Spec => []ToldIsBelieved
<1>1. Init => ToldInv
  BY InitTold
<1>2. ToldInv /\ [Next]_vars => ToldInv'
  BY NextTold
<1>3. ToldInv => ToldIsBelieved
  <2> SUFFICES ASSUME ToldInv, NEW s \in fan.up, <<s, s>> \notin torn
               PROVE  /\ s \in fan.ready =>
                           /\ fan.shown[s] = {<<fan.presence[s].forward[e], e>> : e \in Visible(fan.presence[s])}
                           /\ IsInjective(fan.presence[s].forward)
                      /\ fan.moving[s] \subseteq {told[1] : told \in fan.shown[s]}
    BY DEF ToldIsBelieved
  <2>1. s \in Sessions
    BY FanFields DEF ToldInv, Types
  <2>2. CASE Joined(s)
    <3>1. Knowing(fan, s)
      BY <2>1, <2>2, JoinedKnows
    <3> QED
      BY <3>1 DEF Knowing, Told, Handles, HandlesOK, Visible, IsInjective
  <2>3. CASE ~Joined(s)
    BY <2>1, <2>3 DEF ToldInv, ViewsOK, ViewOK, ReadyOK
  <2> QED
    BY <2>2, <2>3
<1> QED
  BY <1>1, <1>2, <1>3, PTL DEF Spec
-----------------------------------------------------------------------------
(* Whom everybody sees in the end: the invariant *)

(* A movement that will be shown, and an entity that has one in the queue.  *)
Fresh(since, x) == x.kind = "movement" /\ (since[x.entity] # Never => x.tick > since[x.entity])
Coming(e) == \E i \in 1..Len(events) : events[i].entity = e /\ Fresh(relocated, events[i])

Ticks ==
  /\ tick # 0
  /\ \A e \in Sessions : relocated[e] =< tick
  /\ \A i \in 1..Len(events) : ~Control(events[i]) => events[i].tick =< tick

(* The last of them goes where the entity is.                               *)
LastRight(e) ==
  \A i \in 1..Len(events) :
    events[i].entity = e /\ Fresh(relocated, events[i]) =>
      \/ events[i].cell = cellOf[e]
      \/ \E j \in 1..Len(events) : j > i /\ events[j].entity = e /\ Fresh(relocated, events[j])

Known(e) == phase[e] = "in" /\ e \notin behind

(* A session subscribes around the cell of its entity, or will.             *)
Placed(s) ==
  /\ phase[s] \in {"active", "booting"} => fan.presence[s].center = cellOf[s]
  /\ Known(s) /\ <<s, s>> \notin torn =>
       /\ LastRight(s)
       /\ pump.at \in Moving /\ pump.entity = s => Coming(s) \/ pump.cell = cellOf[s]
       /\ \/ Coming(s)
          \/ fan.presence[s].center = cellOf[s]
          \/ pump.at = "center" /\ pump.entity = s

Sees(s, e) == e \in Visible(fan.presence[s])
Within(s, cell) == cell \in BaseAOICells(fan.presence[s].center)

Waiting == {"staged", "active", "booting", "failed", "unstaged"}
Unseen == {"out", "removed", "gone"}

(* A session in the world sees who is near, or an event, or what the pump   *)
(* has still to do, will bring it about.                                    *)
Right(s, e) ==
  /\ Known(e) =>
       \/ Coming(e)
       \/ pump.entity = e /\ pump.at \in {"center", "sets"}
       \/ Sees(s, e) <=> Within(s, cellOf[e])
       \/ /\ pump.entity = e /\ pump.at = "viewers"
          /\ IF Within(s, cellOf[e]) THEN s \in pump.creates ELSE s \in pump.removes
  /\ phase[e] \in Waiting /\ Sees(s, e) => Within(s, cellOf[e])
  /\ phase[e] \in Unseen => ~Sees(s, e)
  /\ pump.entity = e /\ pump.at = "remove" /\ Sees(s, e) => s \in pump.removes
  /\ pump.entity = e /\ pump.at = "viewers" => /\ s \in pump.creates => Within(s, pump.cell)
                                               /\ s \in pump.removes => ~Within(s, pump.cell)

(* The same for one that joins.                                             *)
Learns(s, e) ==
  /\ Known(e) => Coming(e) \/ ((Sees(s, e) \/ e \in pump.creates) <=> Within(s, cellOf[e]))
  /\ phase[e] \in Waiting /\ (Sees(s, e) \/ e \in pump.creates) => Within(s, cellOf[e])
  /\ phase[e] \in Unseen => ~Sees(s, e)
  /\ phase[e] = "out" => e \notin pump.creates

SeesRight(s, e) == (s \in fan.ready => Right(s, e)) /\ (Joining(s) => Learns(s, e))

Leaving ==
  /\ \A s \in fan.ready : phase[s] \notin {"removed", "gone"}
  /\ pump.at = "remove" => pump.entity \notin fan.ready

SettledInv ==
  /\ Ticks /\ Leaving
  /\ ~closed => /\ \A s \in Sessions : Placed(s)
                /\ \A s \in fan.up : \A e \in Sessions \ {s} : <<s, e>> \notin torn => SeesRight(s, e)

(* A death in the middle of the entity's own event tears it from everyone.  *)
TornWhole == \A e \in Sessions : <<e, e>> \in torn => \A s \in Sessions : <<s, e>> \in torn

-----------------------------------------------------------------------------
(* What a step leaves of it *)

(* The queue has for an entity what it had.                                 *)
SameQueue(e) == (Coming(e)' <=> Coming(e)) /\ (LastRight(e) /\ cellOf'[e] = cellOf[e] => LastRight(e)')

LEMMA QueueKept ==
  ASSUME ToldInv, NEW e \in Sessions, UNCHANGED events, relocated'[e] = relocated[e]
  PROVE  SameQueue(e)
<1>1. \A i \in 1..Len(events) : events[i].entity = e => (Fresh(relocated', events[i]) <=> Fresh(relocated, events[i]))
  BY DEF Fresh
<1>2. Coming(e)' <=> Coming(e)
  BY <1>1 DEF Coming
<1>3. LastRight(e) /\ cellOf'[e] = cellOf[e] => LastRight(e)'
  BY <1>1 DEF LastRight
<1> QED
  BY <1>2, <1>3 DEF SameQueue

(* An event that is queued, of another entity or no movement.               *)
LEMMA QueueGrows ==
  ASSUME ToldInv, NEW e \in Sessions, NEW x \in Events, events' = Append(events, x), relocated'[e] = relocated[e],
         x.entity # e \/ Control(x)
  PROVE  SameQueue(e)
<1>0. events \in Seq(Events) /\ Len(events) \in Nat
  BY DEF ToldInv, Types
<1>1. /\ Len(events') = Len(events) + 1
      /\ \A i \in 1..Len(events') : events'[i] = IF i = Len(events) + 1 THEN x ELSE events[i]
  BY <1>0, AppendEvents
<1>2. \A i \in 1..Len(events) : events'[i] = events[i] /\ i \in 1..Len(events')
  BY <1>0, <1>1
<1>3. ~(x.entity = e /\ Fresh(relocated', x))
  BY DEF Fresh, Control
<1>4. \A i \in 1..Len(events') : events'[i].entity = e /\ Fresh(relocated', events'[i]) => i \in 1..Len(events)
  BY <1>0, <1>1, <1>3
<1>5. \A i \in 1..Len(events) : events[i].entity = e => (Fresh(relocated', events[i]) <=> Fresh(relocated, events[i]))
  BY DEF Fresh
<1>6. Coming(e)' <=> Coming(e)
  BY <1>2, <1>4, <1>5 DEF Coming
<1>7. ASSUME LastRight(e), cellOf'[e] = cellOf[e] PROVE LastRight(e)'
  <2> SUFFICES ASSUME NEW i \in 1..Len(events'), events'[i].entity = e, Fresh(relocated', events'[i]), events'[i].cell # cellOf'[e]
               PROVE  \E j \in 1..Len(events') : j > i /\ events'[j].entity = e /\ Fresh(relocated', events'[j])
    BY DEF LastRight
  <2>1. i \in 1..Len(events) /\ events[i].entity = e /\ Fresh(relocated, events[i]) /\ events[i].cell # cellOf[e]
    BY <1>2, <1>4, <1>5, <1>7
  <2>2. PICK j \in 1..Len(events) : j > i /\ events[j].entity = e /\ Fresh(relocated, events[j])
    BY <1>7, <2>1 DEF LastRight
  <2> QED
    BY <1>2, <1>5, <2>2
<1> QED
  BY <1>6, <1>7 DEF SameQueue

(* A movement that is queued goes where the entity is.                      *)
LEMMA MovementQueued ==
  ASSUME ToldInv, NEW x \in Events, events' = Append(events, x), Fresh(relocated', x), x.cell = cellOf'[x.entity]
  PROVE  Coming(x.entity)' /\ LastRight(x.entity)'
<1>0. events \in Seq(Events) /\ Len(events) \in Nat
  BY DEF ToldInv, Types
<1>1. /\ Len(events') = Len(events) + 1
      /\ \A i \in 1..Len(events') : events'[i] = IF i = Len(events) + 1 THEN x ELSE events[i]
  BY <1>0, AppendEvents
<1>2. Len(events') \in 1..Len(events') /\ events'[Len(events')] = x
  BY <1>0, <1>1
<1>3. Coming(x.entity)'
  BY <1>2 DEF Coming
<1>4. ASSUME NEW i \in 1..Len(events') PROVE i = Len(events') \/ Len(events') > i
  BY <1>0, <1>1
<1>5. LastRight(x.entity)'
  BY <1>2, <1>4 DEF LastRight
<1> QED
  BY <1>3, <1>5

(* The first event is taken, of another entity or not a fresh movement.     *)
LEMMA QueueShrinks ==
  ASSUME ToldInv, NEW e \in Sessions, events # <<>>, events' = Tail(events), relocated'[e] = relocated[e],
         NEW x, x = Head(events)
  PROVE  /\ Coming(e)' => Coming(e)
         /\ Coming(e) => Coming(e)' \/ (x.entity = e /\ Fresh(relocated, x))
         /\ LastRight(e) /\ cellOf'[e] = cellOf[e] => LastRight(e)'
         /\ x.entity = e /\ Fresh(relocated, x) /\ LastRight(e) => x.cell = cellOf[e] \/ Coming(e)'
         /\ ~(x.entity = e /\ Fresh(relocated, x)) => SameQueue(e)
<1>0. events \in Seq(Events)
  BY DEF ToldInv, Types
<1>1. /\ Len(events') = Len(events) - 1 /\ Len(events) \in Nat \ {0} /\ x = events[1]
      /\ \A i \in 1..Len(events') : events'[i] = events[i + 1]
  BY <1>0, TailEvents
<1>2. \A i \in 1..Len(events') : i + 1 \in 1..Len(events) /\ events'[i] = events[i + 1]
  BY <1>1
<1>3. \A i \in 1..Len(events) : i # 1 => i - 1 \in 1..Len(events') /\ events'[i - 1] = events[i]
  <2> TAKE i \in 1..Len(events)
  <2>1. i # 1 => i - 1 \in 1..Len(events') /\ (i - 1) + 1 = i
    BY <1>1
  <2> QED
    BY <1>1, <2>1
<1>4. \A i \in 1..Len(events) : events[i].entity = e => (Fresh(relocated', events[i]) <=> Fresh(relocated, events[i]))
  BY DEF Fresh
<1>5. Coming(e)' => Coming(e)
  BY <1>2, <1>4 DEF Coming
<1>6. Coming(e) => Coming(e)' \/ (x.entity = e /\ Fresh(relocated, x))
  <2> SUFFICES ASSUME Coming(e), ~(x.entity = e /\ Fresh(relocated, x)) PROVE Coming(e)'
    OBVIOUS
  <2>1. PICK i \in 1..Len(events) : events[i].entity = e /\ Fresh(relocated, events[i])
    BY DEF Coming
  <2>2. i # 1
    BY <1>1, <2>1
  <2> QED
    BY <1>3, <1>4, <2>1, <2>2 DEF Coming
<1>7. ASSUME LastRight(e), cellOf'[e] = cellOf[e] PROVE LastRight(e)'
  <2> SUFFICES ASSUME NEW i \in 1..Len(events'), events'[i].entity = e, Fresh(relocated', events'[i]), events'[i].cell # cellOf'[e]
               PROVE  \E j \in 1..Len(events') : j > i /\ events'[j].entity = e /\ Fresh(relocated', events'[j])
    BY DEF LastRight
  <2>1. i + 1 \in 1..Len(events) /\ events[i + 1].entity = e /\ Fresh(relocated, events[i + 1]) /\ events[i + 1].cell # cellOf[e]
    BY <1>2, <1>4, <1>7
  <2>2. PICK j \in 1..Len(events) : j > i + 1 /\ events[j].entity = e /\ Fresh(relocated, events[j])
    BY <1>7, <2>1 DEF LastRight
  <2>3. j # 1 /\ j - 1 > i
    BY <1>1, <2>2
  <2>4. j - 1 \in 1..Len(events') /\ events'[j - 1] = events[j]
    BY <1>3, <2>3
  <2> QED
    BY <1>4, <2>2, <2>3, <2>4
<1>8. ASSUME x.entity = e, Fresh(relocated, x), LastRight(e), x.cell # cellOf[e] PROVE Coming(e)'
  <2>1. 1 \in 1..Len(events)
    BY <1>1
  <2>2. PICK j \in 1..Len(events) : j > 1 /\ events[j].entity = e /\ Fresh(relocated, events[j])
    BY <1>1, <1>8, <2>1 DEF LastRight
  <2>3. j # 1
    BY <2>2
  <2> QED
    BY <1>3, <1>4, <2>2, <2>3 DEF Coming
<1> QED
  BY <1>5, <1>6, <1>7, <1>8 DEF SameQueue

(* What was queued before a relocation is stale.                            *)
LEMMA NothingComes ==
  ASSUME ToldInv, Ticks, NEW e \in Sessions, UNCHANGED events, relocated'[e] = tick
  PROVE  ~Coming(e)' /\ LastRight(e)'
<1>1. \A i \in 1..Len(events) : events[i].entity = e => ~Fresh(relocated', events[i])
  <2> TAKE i \in 1..Len(events)
  <2>1. events[i] \in Events /\ tick \in Nat
    BY DEF ToldInv, Types
  <2>2. events[i].kind = "movement" => events[i].tick =< tick
    BY DEF Ticks, Control
  <2> QED
    BY <2>1, <2>2 DEF Ticks, Fresh, Never, Events
<1> QED
  BY <1>1 DEF Coming, LastRight
(* An entity that did nothing that is to be seen.                           *)
Calm(e) ==
  /\ Known(e)' => Coming(e)' \/ (Known(e) /\ cellOf'[e] = cellOf[e] /\ ~Coming(e))
  /\ phase'[e] \in Waiting => phase[e] = "out" \/ (phase[e] \in Waiting /\ cellOf'[e] = cellOf[e])
  /\ phase'[e] \in Unseen => phase[e] \in Unseen
  /\ phase'[e] = "out" => phase[e] = "out"

(* A session that sees what it saw, or that is not in the world.            *)
SameEyes(s) ==
  /\ s \in fan'.up => s \in fan.up
  /\ s \in fan'.ready => s \in fan.ready
  /\ Joining(s)' => Joining(s) /\ pump'.creates = pump.creates
  /\ s \in fan'.up /\ (s \in fan'.ready \/ Joining(s)') => /\ Visible(fan'.presence[s]) = Visible(fan.presence[s])
                                                          /\ fan'.presence[s].center = fan.presence[s].center

(* The same of one entity only.                                             *)
SeesSame(s, e) ==
  /\ s \in fan'.up => s \in fan.up
  /\ s \in fan'.ready => s \in fan.ready
  /\ Joining(s)' => Joining(s) /\ pump'.creates = pump.creates
  /\ s \in fan'.up /\ (s \in fan'.ready \/ Joining(s)') => /\ Sees(s, e)' <=> Sees(s, e)
                                                          /\ fan'.presence[s].center = fan.presence[s].center

LEMMA EyesSame ==
  ASSUME NEW s \in Sessions, SameEyes(s)
  PROVE  \A e \in Sessions : SeesSame(s, e)
BY DEF SameEyes, SeesSame, Sees

(* The pump is telling of it.                                               *)
Telling(e) == pump.entity = e /\ pump.at \in Moving \cup {"remove"}

LEMMA SeesKept ==
  ASSUME NEW s \in Sessions, NEW e \in Sessions, s \in fan'.up, s \in fan.up => SeesRight(s, e), Calm(e), SeesSame(s, e),
         pump' = pump \/ (~Telling(e) /\ ~Telling(e)')
  PROVE  SeesRight(s, e)'
<1>1. ASSUME s \in fan'.ready PROVE Right(s, e)'
  <2>1. s \in fan.ready /\ s \in fan.up /\ Right(s, e) /\ (Sees(s, e)' <=> Sees(s, e))
    BY <1>1 DEF SeesSame, SeesRight
  <2>2. fan'.presence[s].center = fan.presence[s].center
    BY <1>1 DEF SeesSame
  <2>3. phase'[e] \in Waiting /\ Sees(s, e)' => Within(s, cellOf[e])'
    BY <2>1, <2>2 DEF Right, Calm, Waiting, Unseen, Within
  <2>4. phase'[e] \in Unseen => ~Sees(s, e)'
    BY <2>1 DEF Right, Calm
  <2>5. CASE pump' = pump
    BY <2>1, <2>2, <2>3, <2>4, <2>5 DEF Right, Calm, Within
  <2>6. CASE ~Telling(e) /\ ~Telling(e)'
    <3>1. pump.entity = e => pump.at \notin {"center", "sets", "viewers", "remove"}
      BY <2>6 DEF Telling, Moving
    <3>2. pump'.entity = e => pump'.at \notin {"center", "sets", "viewers", "remove"}
      BY <2>6 DEF Telling, Moving
    <3>3. Known(e) => Coming(e) \/ (Sees(s, e) <=> Within(s, cellOf[e]))
      BY <2>1, <3>1 DEF Right
    <3>4. Known(e)' => Coming(e)' \/ (Sees(s, e)' <=> Within(s, cellOf[e])')
      BY <2>1, <2>2, <3>3 DEF Calm, Within
    <3> QED
      BY <2>3, <2>4, <3>2, <3>4 DEF Right
  <2> QED
    BY <2>5, <2>6
<1>2. ASSUME Joining(s)' PROVE Learns(s, e)'
  <2>1. Joining(s) /\ s \in fan.up /\ Learns(s, e) /\ (Sees(s, e)' <=> Sees(s, e)) /\ pump'.creates = pump.creates
    BY <1>2 DEF SeesSame, SeesRight
  <2>2. fan'.presence[s].center = fan.presence[s].center
    BY <1>2 DEF SeesSame
  <2>3. phase'[e] \in Waiting /\ (Sees(s, e) \/ e \in pump.creates)' => Within(s, cellOf[e])'
    BY <2>1, <2>2 DEF Learns, Calm, Waiting, Unseen, Within
  <2>4. Known(e)' => Coming(e)' \/ ((Sees(s, e) \/ e \in pump.creates)' <=> Within(s, cellOf[e])')
    BY <2>1, <2>2 DEF Learns, Calm, Within
  <2> QED
    BY <2>1, <2>3, <2>4 DEF Learns, Calm
<1> QED
  BY <1>1, <1>2 DEF SeesRight

(* What an entity and a session keep of their place.                        *)
LEMMA PlacedKept ==
  ASSUME NEW s \in Sessions, torn \subseteq torn', Placed(s), SameQueue(s), cellOf'[s] = cellOf[s], Known(s)' => Known(s),
         phase'[s] \in {"active", "booting"} => phase[s] \in {"active", "booting"},
         fan'.presence[s].center = fan.presence[s].center,
         pump' = pump \/ ((pump.entity = s => pump.at \notin Moving) /\ (pump'.entity = s => pump'.at \notin Moving))
  PROVE  Placed(s)'
<1>1. phase'[s] \in {"active", "booting"} => fan'.presence[s].center = cellOf'[s]
  BY DEF Placed
<1>2. ASSUME Known(s)', <<s, s>> \notin torn' PROVE LastRight(s)'
  BY <1>2 DEF Placed, SameQueue
<1>3. ASSUME Known(s)', <<s, s>> \notin torn', pump'.at \in Moving, pump'.entity = s PROVE Coming(s)' \/ pump'.cell = cellOf'[s]
  BY <1>3 DEF Placed, SameQueue
<1>4. ASSUME Known(s)', <<s, s>> \notin torn' PROVE Coming(s)' \/ fan'.presence[s].center = cellOf'[s] \/ (pump'.at = "center" /\ pump'.entity = s)
  BY <1>4 DEF Placed, SameQueue, Moving
<1> QED
  BY <1>1, <1>2, <1>3, <1>4 DEF Placed

(* A step beside the pump, in which nobody begins to see or to be seen.     *)
LEMMA Undisturbed ==
  ASSUME SettledInv, ToldInv', torn \subseteq torn', ~closed' => ~closed, pump' = pump, Ticks', Leaving',
         \A e \in Sessions : Calm(e) /\ SameEyes(e), ~closed => \A s \in Sessions : Placed(s)'
  PROVE  SettledInv'
<1> SUFFICES ASSUME ~closed', NEW s \in fan'.up, s \in Sessions, NEW e \in Sessions \ {s}, <<s, e>> \notin torn' PROVE SeesRight(s, e)'
  <2>1. fan'.up \subseteq Sessions
    BY FanFields DEF ToldInv, Types
  <2> QED
    BY <2>1 DEF SettledInv
<1>1. s \in fan.up => SeesRight(s, e)
  BY DEF SettledInv
<1> QED
  BY <1>1, EyesSame, SeesKept
(* One session's phase goes on, and it is not in the world then.            *)
LEMMA PhaseSettled ==
  ASSUME ToldInv, ToldInv', SettledInv, NEW s \in Sessions, UNCHANGED <<pump, behind, closed, torn>>, Ticks', Leaving',
         \A e \in Sessions : SameQueue(e) /\ SameEyes(e),
         \A e \in Sessions \ {s} : /\ phase'[e] = phase[e] /\ cellOf'[e] = cellOf[e]
                                   /\ fan'.presence[e].center = fan.presence[e].center,
         phase'[s] \notin {"in", "out"}, phase'[s] \in Unseen => phase[s] \in Unseen,
         phase'[s] \in Waiting => phase[s] = "out" \/ (phase[s] \in Waiting /\ cellOf'[s] = cellOf[s]),
         ~closed /\ phase'[s] \in {"active", "booting"} => fan'.presence[s].center = cellOf'[s]
  PROVE  SettledInv'
<1>1. ASSUME NEW e \in Sessions, e # s PROVE Calm(e)
  <2>1. Known(e)' => Known(e)
    BY <1>1 DEF Known
  <2>2. Coming(e)' <=> Coming(e)
    BY DEF SameQueue
  <2> QED
    BY <1>1, <2>1, <2>2 DEF Calm
<1>2. Calm(s)
  BY DEF Calm, Known
<1>3. ASSUME ~closed, NEW e \in Sessions, e # s PROVE Placed(e)'
  <2>1. Known(e)' => Known(e)
    BY <1>3 DEF Known
  <2>2. Placed(e)
    BY <1>3 DEF SettledInv
  <2> QED
    BY <1>3, <2>1, <2>2, PlacedKept
<1>4. ~closed => Placed(s)'
  BY DEF Placed, Known
<1> QED
  BY <1>1, <1>2, <1>3, <1>4, Undisturbed

LEMMA NothingSeen ==
  ASSUME UNCHANGED <<fan, pump>>
  PROVE  \A s \in Sessions : SameEyes(s)
BY DEF SameEyes, Joining

LEMMA TicksKept ==
  ASSUME SettledInv, UNCHANGED <<tick, relocated, events, torn>>
  PROVE  Ticks'
BY DEF SettledInv, Ticks, Control

LEMMA PrepareEnterSettled ==
  ASSUME ToldInv, ToldInv', SettledInv, NEW s \in Sessions, NEW cell \in Cells, PrepareEnter(s, cell)
  PROVE  SettledInv'
<1>1. phase[s] = "out" /\ UNCHANGED <<tick, deaths, losses, events, closed, pump, relocated, fan, behind, torn>>
      /\ phase' = [phase EXCEPT ![s] = "staged"] /\ cellOf' = [cellOf EXCEPT ![s] = cell]
  BY DEF PrepareEnter
<1>2. phase'[s] = "staged" /\ \A e \in Sessions \ {s} : phase'[e] = phase[e] /\ cellOf'[e] = cellOf[e]
  BY <1>1 DEF ToldInv, Types
<1>3. Leaving'
  BY <1>1, <1>2 DEF SettledInv, Leaving
<1>4. \A e \in Sessions : SameQueue(e) /\ SameEyes(e)
  BY <1>1, QueueKept, NothingSeen
<1> QED
  BY <1>1, <1>2, <1>3, <1>4, TicksKept, PhaseSettled DEF Unseen, Waiting

LEMMA AbortEnterSettled ==
  ASSUME ToldInv, ToldInv', SettledInv, NEW s \in Sessions, AbortEnter(s)
  PROVE  SettledInv'
<1>1. phase[s] = "unstaged" /\ UNCHANGED <<tick, deaths, losses, cellOf, events, closed, pump, relocated, fan, behind, torn>>
      /\ phase' = [phase EXCEPT ![s] = "aborted"]
  BY DEF AbortEnter
<1>2. phase'[s] = "aborted" /\ \A e \in Sessions \ {s} : phase'[e] = phase[e]
  BY <1>1 DEF ToldInv, Types
<1>3. Leaving'
  BY <1>1, <1>2 DEF SettledInv, Leaving
<1>4. \A e \in Sessions : SameQueue(e) /\ SameEyes(e)
  BY <1>1, QueueKept, NothingSeen
<1> QED
  BY <1>1, <1>2, <1>3, <1>4, TicksKept, PhaseSettled DEF Unseen, Waiting

LEMMA ExitWorldSettled ==
  ASSUME ToldInv, ToldInv', SettledInv, NEW s \in Sessions, ExitWorld(s)
  PROVE  SettledInv'
<1>1. phase[s] = "in" /\ UNCHANGED <<tick, deaths, losses, cellOf, events, closed, pump, relocated, fan, behind, torn>>
      /\ phase' = [phase EXCEPT ![s] = "leaving"]
  BY DEF ExitWorld
<1>2. phase'[s] = "leaving" /\ \A e \in Sessions \ {s} : phase'[e] = phase[e]
  BY <1>1 DEF ToldInv, Types
<1>3. Leaving'
  BY <1>1, <1>2 DEF SettledInv, Leaving
<1>4. \A e \in Sessions : SameQueue(e) /\ SameEyes(e)
  BY <1>1, QueueKept, NothingSeen
<1> QED
  BY <1>1, <1>2, <1>3, <1>4, TicksKept, PhaseSettled DEF Unseen, Waiting

LEMMA SubmitSettled ==
  ASSUME ToldInv, ToldInv', SettledInv, NEW s \in Sessions, NEW kind, NEW admitted, NEW refused,
         submitControl(s, kind, admitted, refused),
         \/ phase[s] = "active" /\ kind = "bootstrap" /\ admitted = "booting" /\ refused = "failed"
         \/ phase[s] = "leaving" /\ kind = "remove" /\ admitted = "removing" /\ refused = "fallback"
  PROVE  SettledInv'
<1>1. /\ UNCHANGED <<tick, deaths, losses, cellOf, closed, pump, relocated, fan, behind, torn>>
      /\ \/ Enqueue(kind, s, cellOf[s]) /\ phase' = [phase EXCEPT ![s] = admitted]
         \/ UNCHANGED events /\ phase' = [phase EXCEPT ![s] = refused]
  BY DEF submitControl
<1>2. phase'[s] \in {admitted, refused} /\ \A e \in Sessions \ {s} : phase'[e] = phase[e]
  BY <1>1 DEF ToldInv, Types
<1>3. Leaving'
  <2>1. fan.ready \in SUBSET Sessions
    BY FanFields DEF ToldInv, Types
  <2>2. phase'[s] \notin {"removed", "gone"}
    BY <1>2
  <2> QED
    BY <1>1, <1>2, <2>1, <2>2 DEF SettledInv, Leaving
<1>4. (\A e \in Sessions : SameQueue(e)) /\ Ticks'
  <2>1. CASE UNCHANGED events
    BY <1>1, <2>1, QueueKept, TicksKept
  <2>2. CASE Enqueue(kind, s, cellOf[s])
    <3>0. [kind |-> kind, entity |-> s, cell |-> cellOf[s], tick |-> tick + 1] \in Events
      BY DEF Events, ToldInv, Types
    <3>1. PICK x \in Events : x = [kind |-> kind, entity |-> s, cell |-> cellOf[s], tick |-> tick + 1]
      BY <3>0
    <3>2. Control(x) /\ events' = Append(events, x)
      BY <2>2, <3>1 DEF Enqueue, Control
    <3>3. \A e \in Sessions : SameQueue(e)
      BY <1>1, <3>2, QueueGrows
    <3>4. Ticks'
      <4>1. \A i \in 1..Len(events') : events'[i] = x \/ (i \in 1..Len(events) /\ events'[i] = events[i])
        <5>1. events \in Seq(Events) /\ Len(events) \in Nat
          BY DEF ToldInv, Types
        <5>2. Len(events') = Len(events) + 1 /\ \A i \in 1..Len(events') : events'[i] = IF i = Len(events) + 1 THEN x ELSE events[i]
          BY <3>2, <5>1, AppendEvents
        <5> QED
          BY <5>1, <5>2
      <4> QED
        BY <1>1, <3>2, <4>1 DEF SettledInv, Ticks, Control
    <3> QED
      BY <3>3, <3>4
  <2> QED
    BY <1>1, <2>1, <2>2
<1>5. \A e \in Sessions : SameEyes(e)
  BY <1>1, NothingSeen
<1>6. ~closed /\ phase'[s] \in {"active", "booting"} => fan'.presence[s].center = cellOf'[s]
  BY <1>1, <1>2 DEF SettledInv, Placed
<1>7. \A e \in Sessions \ {s} : fan'.presence[e].center = fan.presence[e].center /\ cellOf'[e] = cellOf[e]
  BY <1>1
<1> QED
  BY <1>1, <1>2, <1>3, <1>4, <1>5, <1>6, <1>7, PhaseSettled DEF Unseen, Waiting

LEMMA CommitEnterSettled ==
  ASSUME ToldInv, ToldInv', SettledInv, NEW s \in Sessions, CommitEnter(s)
  PROVE  SettledInv'
<1>1. phase[s] = "staged" /\ UNCHANGED <<tick, deaths, losses, cellOf, events, closed, pump, relocated, behind, torn>>
      /\ phase' = [phase EXCEPT ![s] = "active"] /\ fan' = [fan EXCEPT !.presence[s] = Activate(s, cellOf[s])]
  BY DEF CommitEnter
<1>2. phase'[s] = "active" /\ \A e \in Sessions \ {s} : phase'[e] = phase[e]
  BY <1>1 DEF ToldInv, Types
<1>3. /\ fan'.ready = fan.ready /\ fan'.up = fan.up
      /\ fan'.presence[s].center = cellOf[s] /\ \A e \in Sessions \ {s} : fan'.presence[e] = fan.presence[e]
  <2>1. fan = [presence |-> fan.presence, ready |-> fan.ready, up |-> fan.up, shown |-> fan.shown, moving |-> fan.moving]
        /\ fan.presence \in [Sessions -> Presences]
    BY FanFields DEF ToldInv, Types
  <2> QED
    BY <1>1, <2>1 DEF Activate
<1>4. ~Joined(s) /\ ~Joining(s) /\ s \notin fan.ready
  <2>1. ~Joined(s) /\ ~Joining(s)
    BY <1>1 DEF Joined, Joining, ToldInv, PumpOK, Past
  <2> QED
    BY <2>1 DEF ToldInv, ReadyOK
<1>5. \A e \in Sessions : SameQueue(e) /\ SameEyes(e)
  BY <1>1, <1>3, <1>4, QueueKept DEF SameEyes, Joining
<1>6. Leaving'
  BY <1>1, <1>2, <1>3 DEF SettledInv, Leaving
<1> QED
  BY <1>1, <1>2, <1>3, <1>5, <1>6, TicksKept, PhaseSettled DEF Unseen, Waiting

LEMMA EndPresenceSettled ==
  ASSUME ToldInv, ToldInv', SettledInv, NEW s \in Sessions, NEW next, EndPresence(s, next),
         \/ phase[s] = "failed" /\ next = "unstaged"
         \/ phase[s] = "removed" /\ next = "gone"
  PROVE  SettledInv'
<1>1. UNCHANGED <<tick, deaths, losses, cellOf, events, closed, pump, relocated, behind, torn>>
      /\ phase' = [phase EXCEPT ![s] = next]
      /\ fan' = [fan EXCEPT !.presence[s] = NoPresence, !.shown[s] = {}, !.moving[s] = {}]
  BY DEF EndPresence
<1>2. phase'[s] = next /\ \A e \in Sessions \ {s} : phase'[e] = phase[e]
  BY <1>1 DEF ToldInv, Types
<1>3. /\ fan'.ready = fan.ready /\ fan'.up = fan.up
      /\ \A e \in Sessions \ {s} : fan'.presence[e] = fan.presence[e]
  <2>1. fan = [presence |-> fan.presence, ready |-> fan.ready, up |-> fan.up, shown |-> fan.shown, moving |-> fan.moving]
        /\ fan.presence \in [Sessions -> Presences]
    BY FanFields DEF ToldInv, Types
  <2> QED
    BY <1>1, <2>1
<1>4. ~Joining(s) /\ s \notin fan.ready
  <2>1. ~Joining(s) /\ (pump.at = "notify" => pump.entity # s)
    BY DEF Joining, ToldInv, PumpOK
  <2>2. phase[s] = "failed" => ~Joined(s)
    BY <2>1 DEF Joined, Past
  <2> QED
    BY <2>1, <2>2 DEF ToldInv, ReadyOK, SettledInv, Leaving
<1>5. \A e \in Sessions : SameQueue(e) /\ SameEyes(e)
  BY <1>1, <1>3, <1>4, QueueKept DEF SameEyes, Joining
<1>6. Leaving'
  BY <1>1, <1>2, <1>3, <1>4 DEF SettledInv, Leaving
<1> QED
  BY <1>1, <1>2, <1>3, <1>5, <1>6, TicksKept, PhaseSettled DEF Unseen, Waiting

(* Only the queues of what is to be sent change, or somebody is let go.     *)
LEMMA LessSeen ==
  ASSUME ToldInv, ToldInv', SettledInv, UNCHANGED <<tick, cellOf, phase, events, closed, pump, relocated, behind, torn>>,
         fan'.ready \subseteq fan.ready, fan'.up \subseteq fan.up,
         \A s \in Sessions : /\ fan'.presence[s].center = fan.presence[s].center
                             /\ s \in fan'.up => fan'.presence[s] = fan.presence[s]
  PROVE  SettledInv'
<1>1. \A e \in Sessions : SameQueue(e)
  BY QueueKept
<1>2. \A e \in Sessions : (Known(e)' <=> Known(e)) /\ (Coming(e)' <=> Coming(e))
  BY <1>1 DEF Known, SameQueue
<1>3. \A e \in Sessions : Calm(e)
  BY <1>2 DEF Calm
<1>4. \A s \in Sessions : SameEyes(s)
  BY DEF SameEyes, Joining
<1>5. Ticks' /\ Leaving'
  BY TicksKept DEF SettledInv, Leaving
<1>6. ~closed => \A s \in Sessions : Placed(s)'
  BY <1>1, <1>2, PlacedKept DEF SettledInv
<1> QED
  BY <1>3, <1>4, <1>5, <1>6, Undisturbed

LEMMA WriteSettled ==
  ASSUME ToldInv, ToldInv', SettledInv, NEW s \in Sessions, Write(s)
  PROVE  SettledInv'
<1>1. PICK h \in fan.moving[s] : fan' = [fan EXCEPT !.moving[s] = @ \ {h}]
  BY DEF Write
<1>2. fan = [presence |-> fan.presence, ready |-> fan.ready, up |-> fan.up, shown |-> fan.shown, moving |-> fan.moving]
  BY FanFields DEF ToldInv, Types
<1>3. fan'.presence = fan.presence /\ fan'.ready = fan.ready /\ fan'.up = fan.up
  BY <1>1, <1>2
<1> QED
  BY <1>3, LessSeen DEF Write

LEMMA LoseSettled ==
  ASSUME ToldInv, ToldInv', SettledInv, NEW s \in Sessions, Lose(s)
  PROVE  SettledInv'
<1>1. fan' = CloseNow(fan, s)
  BY DEF Lose
<1>2. fan'.presence = fan.presence /\ fan'.ready = fan.ready /\ fan'.up = fan.up \ {s}
  BY <1>1, CloseFields DEF ToldInv, Types
<1> QED
  BY <1>2, LessSeen DEF Lose

LEMMA CloseSettled ==
  ASSUME SettledInv, Close
  PROVE  SettledInv'
<1>1. closed' /\ UNCHANGED <<tick, phase, events, pump, relocated, fan, torn>>
  BY DEF Close
<1> QED
  BY <1>1, TicksKept DEF SettledInv, Leaving

LEMMA EmitDeathSettled ==
  ASSUME ToldInv, ToldInv', SettledInv, NEW e \in Sessions, EmitDeath(e)
  PROVE  SettledInv'
<1> DEFINE told == (Viewers(fan.presence, e) \cap fan.ready) \ fan.up
<1>1. fan' = FailOf(fan, told) /\ UNCHANGED <<tick, cellOf, phase, events, closed, pump, relocated, behind, torn>>
  BY DEF EmitDeath, FailOf
<1>2. fan \in Fans /\ told \in SUBSET Sessions /\ told \subseteq fan.ready
  BY FanFields DEF ToldInv, Types
<1>3. \A s \in told : HandlesOK(s, fan.presence[s])
  BY <1>2 DEF ToldInv, ViewsOK, PresenceIn
<1> HIDE DEF told
<1>4. fan' \in Fans /\ (\A s \in told : FailedAndHidden(fan, fan', s)) /\ \A s \in Sessions \ told : SameView(fan, fan', s)
  BY <1>1, <1>2, <1>3, FailAll
<1>5. \A s \in Sessions : /\ fan'.presence[s].center = fan.presence[s].center
                          /\ s \in fan'.up => s \in fan.up /\ fan'.presence[s] = fan.presence[s]
                          /\ s \in fan'.ready => s \in fan.ready
  BY <1>4 DEF FailedAndHidden, SameView
<1>6. fan'.ready \subseteq fan.ready /\ fan'.up \subseteq fan.up
  BY <1>4, <1>5, FanFields
<1> QED
  BY <1>1, <1>5, <1>6, LessSeen
LEMMA TicksBound ==
  ASSUME ToldInv, Ticks
  PROVE  /\ tick \in Nat \ {0}
         /\ \A e \in Sessions : relocated[e] \in Nat /\ relocated[e] =< tick
         /\ \A i \in 1..Len(events) : events[i].tick \in Nat /\ (~Control(events[i]) => events[i].tick =< tick)
<1>1. tick \in Nat /\ relocated \in [Sessions -> Nat] /\ events \in Seq(Events)
  BY DEF ToldInv, Types
<1>2. \A i \in 1..Len(events) : events[i] \in Events
  BY <1>1
<1> QED
  BY <1>1, <1>2 DEF Ticks, Events

LEMMA MoveSettled ==
  ASSUME ToldInv, ToldInv', SettledInv, NEW e \in Sessions, NEW cell \in Cells, Move(e, cell)
  PROVE  SettledInv'
<1>1. phase[e] = "in" /\ tick' = tick + 1 /\ cellOf' = [cellOf EXCEPT ![e] = cell] /\ OnMovement(e, cell)
      /\ UNCHANGED <<phase, closed, pump, relocated, fan, torn>>
  BY DEF Move
<1>0. /\ tick \in Nat \ {0}
      /\ \A o \in Sessions : relocated[o] \in Nat /\ relocated[o] =< tick
      /\ \A i \in 1..Len(events) : events[i].tick \in Nat /\ (~Control(events[i]) => events[i].tick =< tick)
  BY TicksBound DEF SettledInv
<1>2. tick \in Nat /\ cellOf'[e] = cell /\ \A o \in Sessions \ {e} : cellOf'[o] = cellOf[o]
  BY <1>1 DEF ToldInv, Types
<1>3. Leaving' /\ \A s \in Sessions : SameEyes(s)
  BY <1>1, NothingSeen DEF SettledInv, Leaving
<1>4. /\ \A o \in Sessions \ {e} : SameQueue(o)
      /\ \A o \in Sessions \ {e} : Known(o)' <=> Known(o)
      /\ Known(e)' => Coming(e)' /\ LastRight(e)'
      /\ Ticks'
  <2>1. CASE UNCHANGED events /\ behind' = behind \cup {e}
    <3>1. Ticks'
      <4>1. \A o \in Sessions : relocated'[o] =< tick'
        BY <1>1, <1>0
      <4>2. \A i \in 1..Len(events') : ~Control(events'[i]) => events'[i].tick =< tick'
        BY <1>1, <1>0, <2>1
      <4>3. tick' # 0
        BY <1>1, <1>0
      <4> QED
        BY <4>1, <4>2, <4>3 DEF Ticks, Control
    <3> QED
      BY <1>1, <2>1, <3>1, QueueKept DEF Known
  <2>2. CASE Enqueue("movement", e, cell) /\ behind' = behind \ {e}
    <3>0. [kind |-> "movement", entity |-> e, cell |-> cell, tick |-> tick + 1] \in Events
      BY <1>2 DEF Events
    <3>1. PICK x \in Events : x = [kind |-> "movement", entity |-> e, cell |-> cell, tick |-> tick + 1]
      BY <3>0
    <3>2. events' = Append(events, x) /\ x.entity = e /\ x.cell = cell /\ x.tick = tick + 1 /\ x.kind = "movement"
      BY <2>2, <3>1 DEF Enqueue
    <3>3. relocated'[e] \in Nat /\ relocated'[e] =< tick
      BY <1>1 DEF SettledInv, Ticks, ToldInv, Types
    <3>4. Fresh(relocated', x)
      BY <1>2, <3>2, <3>3 DEF Fresh
    <3>5. Coming(e)' /\ LastRight(e)'
      BY <1>2, <3>2, <3>4, MovementQueued
    <3>6. \A o \in Sessions \ {e} : SameQueue(o)
      BY <1>1, <3>2, QueueGrows
    <3>7. Ticks'
      <4>1. \A i \in 1..Len(events') : events'[i] = x \/ (i \in 1..Len(events) /\ events'[i] = events[i])
        <5>1. events \in Seq(Events) /\ Len(events) \in Nat
          BY DEF ToldInv, Types
        <5>2. Len(events') = Len(events) + 1 /\ \A i \in 1..Len(events') : events'[i] = IF i = Len(events) + 1 THEN x ELSE events[i]
          BY <3>2, <5>1, AppendEvents
        <5> QED
          BY <5>1, <5>2
      <4>2. \A i \in 1..Len(events) : ~Control(events[i]) => events[i].tick \in Nat /\ events[i].tick =< tick
        BY <1>0
      <4>3. \A i \in 1..Len(events') : ~Control(events'[i]) => events'[i].tick =< tick'
        BY <1>1, <1>2, <3>2, <4>1, <4>2
      <4>4. tick' # 0 /\ \A o \in Sessions : relocated'[o] =< tick'
        BY <1>0, <1>1
      <4> QED
        BY <4>3, <4>4 DEF Ticks, Control
    <3> QED
      BY <1>1, <2>2, <3>5, <3>6, <3>7 DEF Known
  <2> QED
    BY <1>1, <2>1, <2>2 DEF OnMovement
<1>5. Calm(e)
  BY <1>1, <1>4 DEF Calm, Waiting, Unseen
<1>6. ASSUME NEW o \in Sessions, o # e PROVE Calm(o) /\ (~closed => Placed(o)')
  <2>1. SameQueue(o) /\ (Known(o)' <=> Known(o)) /\ cellOf'[o] = cellOf[o] /\ phase'[o] = phase[o]
    BY <1>1, <1>2, <1>4, <1>6
  <2>2. Calm(o)
    BY <2>1 DEF Calm, SameQueue
  <2>3. ~closed => Placed(o)'
    BY <1>1, <2>1, PlacedKept DEF SettledInv
  <2> QED
    BY <2>2, <2>3
<1>7. Placed(e)'
  BY <1>1, <1>4 DEF Placed
<1> QED
  BY <1>1, <1>3, <1>4, <1>5, <1>6, <1>7, Undisturbed

(* A step of the pump: who sees what it saw of an entity that did nothing   *)
(* and of which the pump does not tell, is right about it still.            *)
LEMMA PumpSettled ==
  ASSUME ToldInv, ToldInv', SettledInv, closed' = closed, torn \subseteq torn', Ticks', Leaving',
         \A e \in Sessions : ~closed => Placed(e)',
         ~closed => \A s \in fan'.up : \A e \in Sessions \ {s} : <<s, e>> \notin torn' => SeesRight(s, e)' \/
           (Calm(e) /\ SeesSame(s, e) /\ (pump' = pump \/ (~Telling(e) /\ ~Telling(e)')))
  PROVE  SettledInv'
<1> SUFFICES ASSUME ~closed', NEW s \in fan'.up, NEW e \in Sessions \ {s}, <<s, e>> \notin torn' PROVE SeesRight(s, e)'
  BY DEF SettledInv
<1>1. s \in Sessions
  BY FanFields DEF ToldInv, Types
<1>2. s \in fan.up => SeesRight(s, e)
  BY <1>1 DEF SettledInv
<1> QED
  BY <1>1, <1>2, SeesKept

LEMMA TakeSettled ==
  ASSUME ToldInv, ToldInv', SettledInv, Take
  PROVE  SettledInv'
<1>0. pump.at = "idle" /\ events # <<>> /\ events' = Tail(events) /\ UNCHANGED <<tick, cellOf, closed, behind, torn>>
  BY DEF Take
<1> DEFINE x == Head(events)
           Begin(at) == [Idle EXCEPT !.at = at, !.entity = x.entity, !.cell = x.cell]
<1>1. events \in Seq(Events) /\ x \in Events /\ EventOK(x)
  <2>1. events \in Seq(Events) /\ \A i \in 1..Len(events) : EventOK(events[i])
    BY DEF ToldInv, Types, EventsOK
  <2>2. x = events[1] /\ events[1] \in Events /\ Len(events) \in Nat \ {0}
    BY <1>0, <2>1, TailEvents
  <2>3. 1 \in 1..Len(events)
    BY <2>2
  <2> QED
    BY <2>1, <2>2, <2>3
<1>2. \/ closed /\ UNCHANGED <<pump, relocated, fan, torn>> /\ (phase' = phase \/ complete(x.entity, FALSE))
      \/ x.kind = "movement" /\ Fresh(relocated, x) /\ pump' = Begin("center") /\ UNCHANGED <<phase, relocated, fan, torn>>
      \/ x.kind = "movement" /\ ~Fresh(relocated, x) /\ pump' = Idle /\ UNCHANGED <<phase, relocated, fan, torn>>
      \/ /\ x.kind = "bootstrap" /\ UNCHANGED <<phase, relocated, fan, torn>>
         /\ pump' = [Begin("bootstrap") EXCEPT !.creates =
                       {x.entity} \cup EntitiesInCell(cellOf, BaseAOICells(fan.presence[x.entity].center))]
      \/ /\ x.kind = "remove" /\ fan' = ClearReady(fan, x.entity)
         /\ relocated' = [relocated EXCEPT ![x.entity] = Never]
         /\ pump' = [Begin("remove") EXCEPT !.removes = Viewers(fan.presence, x.entity) \ {x.entity}]
         /\ UNCHANGED phase
  <2>1. x.tick \in Nat /\ relocated[x.entity] \in Nat /\ x.kind \in {"movement", "bootstrap", "remove"}
    BY <1>1 DEF ToldInv, Types, Events
  <2>2. x.kind = "movement" => (Fresh(relocated, x) <=> ~staleAfterRelocation(x.entity, x.tick))
    BY <2>1 DEF Fresh, staleAfterRelocation, Never
  <2> QED
    BY <1>0, <2>1, <2>2 DEF Take
<1> HIDE DEF x
<1>3. x.entity \in Sessions
  BY <1>1 DEF Events
<1>4. ASSUME NEW at
      PROVE  Begin(at).at = at /\ Begin(at).entity = x.entity /\ Begin(at).cell = x.cell
             /\ [Begin(at) EXCEPT !.creates = 0].entity = x.entity
  BY DEF Idle
<1>5. Ticks'
  <2>1. \A i \in 1..Len(events') : \E j \in 1..Len(events) : events'[i] = events[j]
    <3>1. Len(events') = Len(events) - 1 /\ Len(events) \in Nat \ {0} /\ \A i \in 1..Len(events') : events'[i] = events[i + 1]
      BY <1>0, <1>1, TailEvents
    <3>2. \A i \in 1..Len(events') : i + 1 \in 1..Len(events)
      BY <3>1
    <3> QED
      BY <3>1, <3>2
  <2>2. \A o \in Sessions : relocated'[o] = relocated[o] \/ relocated'[o] = 0
    BY <1>2, <1>3 DEF ToldInv, Types, Never
  <2>3. \A o \in Sessions : relocated'[o] =< tick
    BY <2>2, TicksBound DEF SettledInv
  <2> QED
    BY <1>0, <2>1, <2>3 DEF SettledInv, Ticks, Control
<1>6. \A o \in Sessions : ~(x.entity = o /\ Fresh(relocated, x)) /\ relocated'[o] = relocated[o] => SameQueue(o)
  BY <1>0, QueueShrinks DEF x
<1>7. CASE closed
  <2>2. closed'
    BY <1>0, <1>7
  <2>3. Leaving'
    <3>1. closed /\ UNCHANGED <<pump, relocated, fan, torn>> /\ (phase' = phase \/ complete(x.entity, FALSE))
      BY <1>0, <1>7 DEF Take, x
    <3>2. fan.ready \in SUBSET Sessions
      BY FanFields DEF ToldInv, Types
    <3>3. \A t \in Sessions : phase'[t] \in {"removed", "gone"} => phase[t] \in {"removed", "gone"}
      BY <1>3, <3>1, CompleteIs
    <3> QED
      BY <3>1, <3>2, <3>3 DEF SettledInv, Leaving
  <2> QED
    BY <1>5, <2>2, <2>3 DEF SettledInv
<1>8. CASE ~closed /\ x.kind = "movement" /\ Fresh(relocated, x) /\ pump' = Begin("center") /\ UNCHANGED <<phase, relocated, fan, torn>>
  <2>1. PICK e \in Sessions : e = x.entity
    BY <1>3
  <2>2. pump'.at = "center" /\ pump'.entity = e /\ pump'.cell = x.cell /\ phase[e] \in Past
    BY <1>1, <1>4, <1>8, <2>1 DEF EventOK
  <2>3. /\ Coming(e)' => Coming(e)
        /\ LastRight(e) => LastRight(e)' /\ (x.cell = cellOf[e] \/ Coming(e)')
    BY <1>0, <1>8, <2>1, QueueShrinks DEF x
  <2>4. \A o \in Sessions \ {e} : SameQueue(o)
    BY <1>6, <1>8, <2>1
  <2>5. \A o \in Sessions : Known(o)' <=> Known(o)
    BY <1>0, <1>8 DEF Known
  <2>6. \A s \in Sessions : SameEyes(s)
    BY <1>8, <2>2 DEF SameEyes, Joining
  <2>7. \A o \in Sessions \ {e} : Calm(o)
    BY <1>0, <1>8, <2>4, <2>5 DEF Calm, SameQueue
  <2>8. ASSUME NEW s \in fan'.up, s # e, <<s, e>> \notin torn PROVE SeesRight(s, e)'
    <3>1. s \in fan.ready => Right(s, e)
      BY <1>8, <2>8, FanFields DEF SettledInv, SeesRight, ToldInv, Types
    <3>2. s \in fan'.ready => Right(s, e)'
      BY <1>0, <1>8, <2>2, <3>1 DEF Right, Within, Sees
    <3> QED
      BY <2>2, <3>2 DEF SeesRight, Joining
  <2>9. \A o \in Sessions \ {e} : ~Telling(o) /\ ~Telling(o)'
    BY <1>0, <2>2 DEF Telling, Moving
  <2>10. Placed(e)'
    BY <1>0, <1>8, <2>2, <2>3, <2>5 DEF Placed, SettledInv, Past
  <2>11. ASSUME NEW o \in Sessions, o # e PROVE Placed(o)'
    BY <1>0, <1>8, <2>2, <2>4, <2>5, <2>11, PlacedKept DEF SettledInv, Moving
  <2>12. Leaving'
    BY <1>8, <2>2 DEF SettledInv, Leaving
  <2> QED
    BY <1>0, <1>5, <2>6, <2>7, <2>8, <2>9, <2>10, <2>11, <2>12, EyesSame, PumpSettled, FanFields DEF ToldInv, Types
<1>9. CASE ~closed /\ x.kind = "movement" /\ ~Fresh(relocated, x) /\ pump' = Idle /\ UNCHANGED <<phase, relocated, fan, torn>>
  <2>1. pump'.at = "idle"
    BY <1>9, IdleIs
  <2>2. \A o \in Sessions : SameQueue(o) /\ (Known(o)' <=> Known(o))
    BY <1>0, <1>6, <1>9 DEF Known
  <2>3. \A o \in Sessions : Calm(o) /\ SameEyes(o)
    BY <1>0, <1>9, <2>1, <2>2 DEF SameEyes, Joining, Calm, SameQueue
  <2>4. \A o \in Sessions : ~Telling(o) /\ ~Telling(o)'
    BY <1>0, <2>1 DEF Telling, Moving
  <2>5. \A o \in Sessions : Placed(o)'
    BY <1>0, <1>9, <2>1, <2>2, PlacedKept DEF SettledInv, Moving
  <2>6. Leaving'
    BY <1>9, <2>1 DEF SettledInv, Leaving
  <2> QED
    BY <1>0, <1>5, <2>3, <2>4, <2>5, <2>6, EyesSame, PumpSettled, FanFields DEF ToldInv, Types
<1>10. CASE /\ ~closed /\ x.kind = "bootstrap" /\ UNCHANGED <<phase, relocated, fan, torn>>
            /\ pump' = [Begin("bootstrap") EXCEPT !.creates =
                          {x.entity} \cup EntitiesInCell(cellOf, BaseAOICells(fan.presence[x.entity].center))]
  <2>1. PICK s \in Sessions : s = x.entity
    BY <1>3
  <2>2. /\ pump'.at = "bootstrap" /\ pump'.entity = s /\ phase[s] = "booting"
        /\ pump'.creates = {s} \cup EntitiesInCell(cellOf, BaseAOICells(fan.presence[s].center))
    BY <1>1, <1>10, <2>1 DEF EventOK, Idle
  <2>3. \A o \in Sessions : SameQueue(o) /\ (Known(o)' <=> Known(o))
    BY <1>0, <1>6, <1>10 DEF Known, Fresh
  <2>4. \A o \in Sessions : Calm(o)
    BY <1>0, <1>10, <2>3 DEF Calm, SameQueue
  <2>5. \A t \in Sessions \ {s} : SameEyes(t)
    BY <1>10, <2>2 DEF SameEyes, Joining
  <2>6. \A o \in Sessions : ~Telling(o) /\ ~Telling(o)'
    BY <1>0, <2>2 DEF Telling, Moving
  <2>7. \A o \in Sessions : Placed(o)'
    BY <1>0, <1>10, <2>2, <2>3, PlacedKept DEF SettledInv, Moving
  <2>8. Leaving'
    BY <1>10, <2>2 DEF SettledInv, Leaving
  <2>9. New(s) /\ s \notin fan.ready
    BY <1>0, <2>2 DEF New, Early, Past, Joined, Joining, ToldInv, ReadyOK
  <2>10. ASSUME s \in fan'.up, NEW e \in Sessions \ {s}, <<s, e>> \notin torn PROVE SeesRight(s, e)'
    <3>1. ~Sees(s, e)'
      BY <1>10, <2>9, <2>10 DEF ToldInv, ViewsOK, ViewOK, Sees
    <3>2. (e \in pump.creates)' <=> InSim(e) /\ Within(s, cellOf[e])'
      BY <1>0, <1>10, <2>2 DEF EntitiesInCell, Within
    <3>3. Known(e)' \/ phase'[e] \in Waiting => InSim(e)
      BY <1>10 DEF Known, Waiting, InSim
    <3>4. phase'[e] = "out" => ~InSim(e)
      BY <1>10 DEF InSim
    <3>5. Learns(s, e)'
      BY <3>1, <3>2, <3>3, <3>4 DEF Learns
    <3> QED
      BY <1>10, <2>9, <3>5 DEF SeesRight
  <2> QED
    BY <1>0, <1>5, <2>4, <2>5, <2>6, <2>7, <2>8, <2>10, EyesSame, PumpSettled, FanFields DEF ToldInv, Types
<1>11. CASE /\ ~closed /\ x.kind = "remove" /\ fan' = ClearReady(fan, x.entity)
            /\ relocated' = [relocated EXCEPT ![x.entity] = Never]
            /\ pump' = [Begin("remove") EXCEPT !.removes = Viewers(fan.presence, x.entity) \ {x.entity}]
            /\ UNCHANGED phase
  <2>1. PICK s \in Sessions : s = x.entity
    BY <1>3
  <2>2. /\ pump'.at = "remove" /\ pump'.entity = s /\ phase[s] = "removing"
        /\ pump'.removes = Viewers(fan.presence, s) \ {s}
    BY <1>1, <1>11, <2>1 DEF EventOK, Idle
  <2>3. fan'.presence = fan.presence /\ fan'.ready = fan.ready \ {s} /\ fan'.up = fan.up
    BY <1>11, <2>1, ClearFields DEF ToldInv, Types
  <2>4. \A o \in Sessions \ {s} : SameQueue(o)
    BY <1>0, <1>6, <1>11, <2>1 DEF Fresh, ToldInv, Types
  <2>5. \A o \in Sessions : Known(o)' <=> Known(o)
    BY <1>0, <1>11 DEF Known
  <2>6. \A t \in Sessions : SameEyes(t)
    BY <2>2, <2>3 DEF SameEyes, Joining
  <2>7. \A o \in Sessions \ {s} : Calm(o) /\ ~Telling(o) /\ ~Telling(o)'
    BY <1>0, <1>11, <2>2, <2>4, <2>5 DEF Calm, SameQueue, Telling, Moving
  <2>8. ASSUME NEW t \in fan'.up, t # s, <<t, s>> \notin torn PROVE SeesRight(t, s)'
    <3>1. Sees(t, s)' => t \in Viewers(fan.presence, s)
      BY <2>3, <2>8, FanFields DEF Sees, Viewers, ToldInv, Types
    <3>2. Right(t, s)'
      BY <1>11, <2>2, <2>8, <3>1 DEF Right, Known, Waiting, Unseen
    <3> QED
      BY <2>2, <3>2 DEF SeesRight, Joining
  <2>9. Placed(s)'
    BY <1>11, <2>2 DEF Placed, Known
  <2>10. ASSUME NEW o \in Sessions, o # s PROVE Placed(o)'
    BY <1>0, <1>11, <2>2, <2>3, <2>4, <2>5, <2>10, PlacedKept DEF SettledInv, Moving
  <2>11. Leaving'
    BY <1>11, <2>2, <2>3 DEF SettledInv, Leaving
  <2> QED
    BY <1>0, <1>5, <2>6, <2>7, <2>8, <2>9, <2>10, <2>11, EyesSame, PumpSettled, FanFields DEF ToldInv, Types
<1> QED
  BY <1>2, <1>7, <1>8, <1>9, <1>10, <1>11
LEMMA ReadyActive ==
  ASSUME ToldInv, Leaving
  PROVE  /\ fan \in Fans /\ fan.ready \in SUBSET Sessions /\ fan.up \in SUBSET Sessions
         /\ \A s \in fan.ready : fan.presence[s].active /\ phase[s] \notin Unseen
<1>1. fan \in Fans /\ fan.ready \in SUBSET Sessions /\ fan.up \in SUBSET Sessions
  BY FanFields DEF ToldInv, Types
<1>2. ASSUME NEW s \in fan.ready PROVE fan.presence[s].active /\ phase[s] \notin Unseen
  <2>1. Joined(s) /\ phase[s] \notin {"removed", "gone"}
    BY <1>2 DEF ToldInv, ReadyOK, Leaving
  <2>2. phase[s] \in {"in", "leaving", "removing", "fallback", "booting"}
    BY <2>1 DEF Joined, Past, ToldInv, PumpOK
  <2>3. fan.presence[s].active <=> phase[s] \notin Away
    BY <1>1, <1>2 DEF ToldInv, ViewsOK, PresenceIn
  <2> QED
    BY <2>2, <2>3 DEF Away, Unseen
<1> QED
  BY <1>1, <1>2

(* Nothing but what the pump does and what sessions see has changed.        *)
LEMMA WorldSame ==
  ASSUME ToldInv, SettledInv, UNCHANGED <<tick, cellOf, phase, events, relocated, behind, torn>>
  PROVE  /\ Ticks'
         /\ \A e \in Sessions : Calm(e) /\ SameQueue(e) /\ (Known(e)' <=> Known(e)) /\ (Coming(e)' <=> Coming(e))
<1>1. \A e \in Sessions : SameQueue(e) /\ (Known(e)' <=> Known(e))
  BY QueueKept DEF Known
<1> QED
  BY <1>1, TicksKept DEF Calm, SameQueue

LEMMA CenterSettled ==
  ASSUME ToldInv, ToldInv', SettledInv, Center
  PROVE  SettledInv'
<1> DEFINE centered == [fan EXCEPT !.presence[pump.entity] = UpdateCenter(@, pump.cell)]
<1>0. PICK e \in Sessions : e = pump.entity
  BY DEF ToldInv, Types, Center
<1>1. pump.at = "center" /\ pump' = [pump EXCEPT !.at = "sets"]
      /\ UNCHANGED <<tick, cellOf, phase, events, relocated, closed, behind, torn>>
  BY DEF Center
<1>2. fan \in Fans /\ pump \in Pumps /\ phase[e] \in Past /\ pump.cell \in Int
  BY <1>0, <1>1, PresenceConstants DEF ToldInv, Types, PumpOK, Moving
<1>3. pump'.at = "sets" /\ pump'.entity = e /\ pump'.cell = pump.cell
  BY <1>0, <1>1, <1>2 DEF Pumps
<1>4. PICK g : g = centered
  OBVIOUS
<1>5. g = WithPresence(fan, e, UpdateCenter(fan.presence[e], pump.cell))
  BY <1>0, <1>4 DEF WithPresence
<1>6. \/ fan' = fan /\ (fan.presence[e].active => fan.presence[e].center = pump.cell)
      \/ fan' = g /\ e \notin fan.ready
      \/ fan' = reconcileVisibleSet(g, e, cellOf)
  BY <1>0, <1>4 DEF Center
<1> HIDE DEF centered
<1>7. /\ g \in Fans /\ OthersSame(fan, g, e) /\ g.ready = fan.ready
      /\ (g.presence[e].active <=> fan.presence[e].active) /\ g.presence[e].center = pump.cell
      /\ Knowing(g, e)
  BY <1>2, <1>5, CenterFields, JoinedKnows DEF Joined
<1>8. /\ OthersSame(fan, fan', e) /\ (fan.presence[e].active => fan'.presence[e].center = pump.cell)
      /\ e \in fan'.ready => e \in fan.ready
      /\ \/ fan' = fan
         \/ e \notin fan'.ready
         \/ e \in fan'.up => Visible(fan'.presence[e]) = Near(fan', e, cellOf)
  <2>1. CASE fan' = fan /\ (fan.presence[e].active => fan.presence[e].center = pump.cell)
    BY <2>1 DEF OthersSame, SameView
  <2>2. CASE fan' = g /\ e \notin fan.ready
    BY <1>7, <2>2
  <2>3. CASE fan' = reconcileVisibleSet(g, e, cellOf)
    <3>1. fan' \in Fans /\ OthersSame(g, fan', e) /\ Changed(g, fan', e, Near(g, e, cellOf))
      BY <1>7, <2>3, ViewReconciled
    <3>2. OthersSame(fan, fan', e)
      BY <1>7, <3>1 DEF OthersSame, SameView
    <3>3. Near(g, e, cellOf) = Near(fan', e, cellOf)
      BY <3>1 DEF Changed, Near
    <3> QED
      BY <1>7, <3>1, <3>2, <3>3 DEF Changed
  <2> QED
    BY <1>6, <2>1, <2>2, <2>3
<1>9. \A s \in Sessions : s # e => \A x \in Sessions : SeesSame(s, x)
  BY <1>3, <1>8 DEF SeesSame, OthersSame, SameView, Joining, Sees
<1>10. Ticks' /\ \A o \in Sessions : Calm(o) /\ SameQueue(o) /\ (Known(o)' <=> Known(o)) /\ (Coming(o)' <=> Coming(o))
  BY <1>1, WorldSame
<1>11. \A o \in Sessions \ {e} : ~Telling(o) /\ ~Telling(o)'
  BY <1>0, <1>3 DEF Telling
<1>12. ASSUME ~closed, NEW s \in fan'.up, s \in Sessions, s # e, <<s, e>> \notin torn PROVE SeesRight(s, e)'
  <2>1. s \in fan.ready => Right(s, e)
    BY <1>9, <1>12 DEF SettledInv, SeesRight, SeesSame
  <2>2. ASSUME s \in fan'.ready PROVE Right(s, e)'
    <3>1. Right(s, e) /\ (Sees(s, e)' <=> Sees(s, e)) /\ fan'.presence[s].center = fan.presence[s].center
      BY <1>9, <1>12, <2>1, <2>2 DEF SeesSame
    <3> QED
      BY <1>1, <1>3, <3>1 DEF Right, Within
  <2> QED
    BY <1>3, <2>2 DEF SeesRight, Joining
<1>13. ASSUME ~closed, e \in fan'.up, NEW x \in Sessions \ {e}, <<e, x>> \notin torn PROVE SeesRight(e, x)' \/ SeesSame(e, x)
  <2>1. CASE fan' = fan
    BY <1>3, <2>1 DEF SeesSame, Joining, Sees
  <2>2. CASE e \notin fan'.ready
    BY <1>3, <2>2 DEF SeesRight, Joining
  <2>3. CASE Visible(fan'.presence[e]) = Near(fan', e, cellOf)
    <3>1. Sees(e, x)' <=> InSim(x) /\ Within(e, cellOf[x])'
      BY <1>1, <1>13, <2>3 DEF Sees, Near, EntitiesInCell, Within
    <3>2. Known(x)' \/ phase'[x] \in Waiting => InSim(x)
      BY <1>1 DEF Known, Waiting, InSim
    <3>3. phase'[x] \in Unseen => ~InSim(x)
      BY <1>1 DEF Unseen, InSim
    <3>4. Right(e, x)'
      BY <1>3, <1>13, <3>1, <3>2, <3>3 DEF Right
    <3> QED
      BY <1>3, <3>4 DEF SeesRight, Joining
  <2> QED
    BY <1>8, <1>13, <2>1, <2>2, <2>3
<1>14. ASSUME ~closed PROVE Placed(e)'
  <2>1. phase'[e] \notin {"active", "booting"}
    BY <1>1, <1>2 DEF Past
  <2>2. Placed(e)
    BY <1>14 DEF SettledInv
  <2>3. Known(e) => fan'.presence[e].center = pump.cell
    BY <1>2, <1>8 DEF Known, ToldInv, ViewsOK, PresenceIn, Away
  <2>4. Known(e) /\ <<e, e>> \notin torn => LastRight(e)' /\ (Coming(e)' \/ pump.cell = cellOf[e])
    BY <1>0, <1>1, <1>10, <2>2 DEF Placed, SameQueue, Moving
  <2> QED
    BY <1>1, <1>3, <1>10, <2>1, <2>3, <2>4 DEF Placed
<1>15. ASSUME ~closed, NEW o \in Sessions, o # e PROVE Placed(o)'
  BY <1>0, <1>1, <1>3, <1>8, <1>10, <1>15, PlacedKept DEF SettledInv, OthersSame, SameView
<1>16. Leaving'
  <2>1. fan'.ready \subseteq fan.ready
    BY <1>8, ReadyActive, FanFields DEF OthersSame, SameView, ToldInv, Types
  <2> QED
    BY <1>1, <1>3, <2>1 DEF SettledInv, Leaving
<1>17. ASSUME ~closed, NEW s \in fan'.up, NEW x \in Sessions \ {s}, <<s, x>> \notin torn
       PROVE  SeesRight(s, x)' \/ (Calm(x) /\ SeesSame(s, x) /\ (pump' = pump \/ (~Telling(x) /\ ~Telling(x)')))
  <2>1. s \in Sessions
    BY FanFields DEF ToldInv, Types
  <2> QED
    BY <1>9, <1>10, <1>11, <1>12, <1>13, <1>17, <2>1
<1> QED
  BY <1>1, <1>10, <1>14, <1>15, <1>16, <1>17, PumpSettled

LEMMA SetsSettled ==
  ASSUME ToldInv, ToldInv', SettledInv, TornWhole, Sets
  PROVE  SettledInv'
<1>0. PICK e \in Sessions : e = pump.entity
  BY DEF ToldInv, Types, Sets
<1> DEFINE desired == Subscribers(fan.presence, pump.cell) \cap fan.ready
           current == Viewers(fan.presence, e) \cap fan.ready
<1>1. pump.at = "sets" /\ UNCHANGED <<tick, cellOf, phase, events, relocated, closed, behind, fan, torn>>
      /\ pump' = [pump EXCEPT !.at = "viewers", !.creates = desired \ current,
                              !.removes = current \ desired, !.moves = current \cap desired]
  BY <1>0 DEF Sets
<1>2. pump \in Pumps /\ phase[e] \in Past
  BY <1>0, <1>1 DEF ToldInv, Types, PumpOK, Moving
<1>3. /\ pump'.at = "viewers" /\ pump'.entity = e /\ pump'.cell = pump.cell
      /\ pump'.creates = desired \ current /\ pump'.removes = current \ desired
  BY <1>0, <1>1, <1>2 DEF Pumps
<1>4. \A s \in fan.ready : /\ s \in Sessions
                           /\ s \in desired <=> Within(s, pump.cell)
                           /\ s \in current <=> Sees(s, e)
  BY ReadyActive DEF SettledInv, Subscribers, Viewers, Within, Sees
<1> HIDE DEF desired, current
<1>5. Ticks' /\ \A o \in Sessions : Calm(o) /\ SameQueue(o) /\ (Known(o)' <=> Known(o)) /\ (Coming(o)' <=> Coming(o))
  BY <1>1, WorldSame
<1>6. ASSUME ~closed, NEW s \in fan'.up, s # e, <<s, e>> \notin torn PROVE SeesRight(s, e)'
  <2>1. SeesRight(s, e) /\ s \in fan.up /\ <<e, e>> \notin torn
    BY <1>1, <1>6, FanFields DEF SettledInv, TornWhole, ToldInv, Types
  <2>2. ASSUME s \in fan.ready PROVE Right(s, e)'
    <3>1. Known(e) => Coming(e) \/ pump.cell = cellOf[e]
      BY <1>0, <1>1, <1>6, <2>1 DEF SettledInv, Placed, Moving
    <3>2. (Sees(s, e)' <=> Sees(s, e)) /\ \A c \in Cells : Within(s, c)' <=> Within(s, c)
      BY <1>1 DEF Sees, Within
    <3>3. s \in desired \ current <=> Within(s, pump.cell) /\ ~Sees(s, e)
      BY <1>4, <2>2
    <3>4. s \in current \ desired <=> ~Within(s, pump.cell) /\ Sees(s, e)
      BY <1>4, <2>2
    <3>5. Right(s, e)
      BY <2>1, <2>2 DEF SeesRight
    <3>6. Known(e)' => Coming(e)' \/ (Sees(s, e) <=> Within(s, cellOf[e]))'
                        \/ (pump'.at = "viewers" /\ pump'.entity = e
                             /\ IF Within(s, cellOf[e])' THEN s \in pump'.creates ELSE s \in pump'.removes)
      BY <1>1, <1>3, <1>5, <3>1, <3>3, <3>4 DEF Sees, Within
    <3>7. (s \in pump'.creates => Within(s, pump.cell)') /\ (s \in pump'.removes => ~Within(s, pump.cell)')
      BY <1>1, <1>3, <3>3, <3>4 DEF Within
    <3> QED
      BY <1>1, <1>3, <3>5, <3>6, <3>7 DEF Right, Within, Sees
  <2> QED
    BY <1>1, <1>3, <2>2 DEF SeesRight, Joining
<1>7. \A s \in Sessions : \A x \in Sessions : SeesSame(s, x)
  BY <1>1, <1>3 DEF SeesSame, Joining, Sees
<1>8. \A o \in Sessions \ {e} : ~Telling(o) /\ ~Telling(o)'
  BY <1>0, <1>3 DEF Telling
<1>9. ASSUME ~closed PROVE Placed(e)'
  BY <1>0, <1>1, <1>3, <1>5, <1>9 DEF SettledInv, Placed, SameQueue, Moving
<1>10. ASSUME ~closed, NEW o \in Sessions, o # e PROVE Placed(o)'
  BY <1>0, <1>1, <1>3, <1>5, <1>10, PlacedKept DEF SettledInv
<1>11. Leaving'
  BY <1>1, <1>3 DEF SettledInv, Leaving
<1>12. ASSUME ~closed, NEW s \in fan'.up, NEW x \in Sessions \ {s}, <<s, x>> \notin torn
       PROVE  SeesRight(s, x)' \/ (Calm(x) /\ SeesSame(s, x) /\ (pump' = pump \/ (~Telling(x) /\ ~Telling(x)')))
  <2>1. s \in Sessions
    BY FanFields DEF ToldInv, Types
  <2> QED
    BY <1>5, <1>6, <1>7, <1>8, <1>12, <2>1
<1> QED
  BY <1>1, <1>5, <1>9, <1>10, <1>11, <1>12, PumpSettled
LEMMA TellViewerSettled ==
  ASSUME ToldInv, ToldInv', SettledInv, TornWhole, TellViewer
  PROVE  SettledInv'
<1>0. PICK e \in Sessions : e = pump.entity
  BY DEF ToldInv, Types, TellViewer
<1>1. pump.at = "viewers" /\ UNCHANGED <<tick, cellOf, phase, events, relocated, closed, behind, torn>>
  BY DEF TellViewer
<1>2. /\ fan \in Fans /\ pump \in Pumps /\ phase[e] \in Past
      /\ pump.creates \in SUBSET Sessions /\ pump.removes \in SUBSET Sessions /\ pump.moves \in SUBSET Sessions
      /\ (e \in pump.removes => <<e, e>> \in torn) /\ \A s \in pump.creates \cup pump.removes \cup pump.moves : phase[s] \in Past
  BY <1>0, <1>1 DEF ToldInv, Types, PumpOK, Moving, Pumps
<1>3. \A s \in pump.creates \cup pump.removes \cup pump.moves : s \in Sessions /\ Joined(s) /\ Knowing(fan, s)
  BY <1>2, JoinedKnows DEF Joined
<1>4. Ticks' /\ \A o \in Sessions : Calm(o) /\ SameQueue(o) /\ (Known(o)' <=> Known(o)) /\ (Coming(o)' <=> Coming(o))
  BY <1>1, WorldSame
<1> DEFINE Rights == \A s \in Sessions \ {e} : s \in fan.ready /\ s \in fan'.up /\ Right(s, e) => Right(s, e)'
           Seen1 == \A s \in Sessions : /\ fan'.presence[s].center = fan.presence[s].center
                                        /\ (s \in fan'.ready => s \in fan.ready) /\ (s \in fan'.up => s \in fan.up)
                                        /\ s \in fan'.up => \A x \in Sessions \ {e} : Sees(s, x)' <=> Sees(s, x)
           Fewer == \/ pump'.at = "idle"
                    \/ pump'.at = "viewers" /\ pump'.entity = e /\ pump'.cell = pump.cell
<1>5. ~closed /\ <<e, e>> \notin torn /\ Known(e) => Coming(e) \/ pump.cell = cellOf[e]
  BY <1>0, <1>1 DEF SettledInv, Placed, Moving
<1>6. \A s \in Sessions : Right(s, e) => /\ s \in pump.creates => Within(s, pump.cell)
                                         /\ s \in pump.removes => ~Within(s, pump.cell)
                                         /\ Known(e) => Coming(e) \/ (Sees(s, e) <=> Within(s, cellOf[e]))
                                              \/ IF Within(s, cellOf[e]) THEN s \in pump.creates ELSE s \in pump.removes
                                         /\ phase[e] \in Unseen => ~Sees(s, e)
  BY <1>0, <1>1 DEF Right
<1>7. phase'[e] \notin Waiting
  BY <1>1, <1>2 DEF Past, Waiting
<1>8. Fewer /\ Seen1 /\ (~closed /\ <<e, e>> \notin torn => Rights)
  <2>1. CASE pump.creates # {} /\ fan' = addViewerCreate(fan, Min(pump.creates), e)
             /\ pump' = [pump EXCEPT !.creates = @ \ {Min(@)}]
    <3>1. PICK v \in pump.creates : v = Min(pump.creates)
      BY <1>2, <2>1, SomeMin
    <3>2. v \in Sessions /\ Knowing(fan, v) /\ fan' = addViewerCreate(fan, v, e)
      BY <1>3, <2>1, <3>1
    <3>3. OthersSame(fan, fan', v) /\ Added(fan, fan', v, e)
      BY <1>2, <3>2, AddChanges
    <3>4. Seen1
      BY <3>2, <3>3 DEF OthersSame, SameView, Added, Changed, Sees
    <3>5. /\ pump'.at = "viewers" /\ pump'.entity = e /\ pump'.cell = pump.cell
          /\ pump'.creates = pump.creates \ {v} /\ pump'.removes = pump.removes
      BY <1>0, <1>1, <1>2, <2>1, <3>1 DEF Pumps
    <3>6. ASSUME ~closed, <<e, e>> \notin torn, NEW s \in Sessions \ {e}, s \in fan.ready, s \in fan'.up, Right(s, e) PROVE Right(s, e)'
      <4>1. \A c : Within(s, c)' <=> Within(s, c)
        BY <3>4 DEF Within
      <4>2. CASE s # v
        <5>1. Sees(s, e)' <=> Sees(s, e)
          BY <3>3, <4>2 DEF OthersSame, SameView, Sees
        <5>2. Known(e)' => \/ Coming(e)' \/ (Sees(s, e) <=> Within(s, cellOf[e]))'
                           \/ IF Within(s, cellOf[e])' THEN s \in pump'.creates ELSE s \in pump'.removes
          BY <1>1, <1>4, <1>6, <3>5, <3>6, <4>2, <5>1, <3>4 DEF Within
        <5> QED
          BY <1>1, <1>6, <1>7, <3>4, <3>5, <3>6, <5>1, <5>2 DEF Right, Within
      <4>3. CASE s = v
        <5>1. Sees(s, e)' /\ (Sees(s, e) \/ InSim(e))
          BY <3>3, <3>6, <4>3 DEF Added, Changed, Sees
        <5>2. Within(s, pump.cell) /\ s \notin pump.removes
          BY <1>6, <3>1, <3>6, <4>3
        <5>3. Known(e)' => Coming(e)' \/ (Sees(s, e) <=> Within(s, cellOf[e]))'
          BY <1>1, <1>4, <1>5, <3>4, <3>6, <5>1, <5>2 DEF Within
        <5>4. phase'[e] \notin Unseen
          BY <1>1, <1>6, <3>6, <5>1 DEF Unseen, InSim
        <5> QED
          BY <1>6, <1>7, <3>1, <3>5, <3>6, <4>3, <5>2, <5>3, <5>4 DEF Right
      <4> QED
        BY <4>2, <4>3
    <3> QED
      BY <3>4, <3>5, <3>6
  <2>2. CASE pump.creates = {} /\ pump.removes # {} /\ fan' = removeViewerDestroy(fan, Min(pump.removes), e)
             /\ pump' = [pump EXCEPT !.removes = @ \ {Min(@)}]
    <3>1. PICK v \in pump.removes : v = Min(pump.removes)
      BY <1>2, <2>2, SomeMin
    <3>2. v \in Sessions /\ Knowing(fan, v) /\ fan' = removeViewerDestroy(fan, v, e) /\ (e = v => <<v, v>> \in torn)
      BY <1>2, <1>3, <2>2, <3>1
    <3>3. /\ OthersSame(fan, fan', v)
          /\ Changed(fan, fan', v, IF e = v THEN Visible(fan.presence[v]) ELSE Visible(fan.presence[v]) \ {e})
      <4>1. CASE e # v
        BY <1>2, <3>2, <4>1, DestroyChanges
      <4>2. CASE e = v
        BY <1>2, <3>2, <4>2, DestroyOwn
      <4> QED
        BY <4>1, <4>2
    <3>4. Seen1
      BY <3>2, <3>3 DEF OthersSame, SameView, Changed, Sees
    <3>5. /\ pump'.at = "viewers" /\ pump'.entity = e /\ pump'.cell = pump.cell
          /\ pump'.creates = pump.creates /\ pump'.removes = pump.removes \ {v}
      BY <1>0, <1>1, <1>2, <2>2, <3>1 DEF Pumps
    <3>6. ASSUME ~closed, <<e, e>> \notin torn, NEW s \in Sessions \ {e}, s \in fan.ready, s \in fan'.up, Right(s, e) PROVE Right(s, e)'
      <4>1. CASE s # v
        <5>1. Sees(s, e)' <=> Sees(s, e)
          BY <3>3, <4>1 DEF OthersSame, SameView, Sees
        <5>2. Known(e)' => \/ Coming(e)' \/ (Sees(s, e) <=> Within(s, cellOf[e]))'
                           \/ IF Within(s, cellOf[e])' THEN s \in pump'.creates ELSE s \in pump'.removes
          BY <1>1, <1>4, <1>6, <3>5, <3>6, <4>1, <5>1, <3>4 DEF Within
        <5> QED
          BY <1>1, <1>6, <1>7, <3>4, <3>5, <3>6, <5>1, <5>2 DEF Right, Within
      <4>2. CASE s = v
        <5>1. ~Sees(s, e)'
          BY <3>3, <3>6, <4>2 DEF Changed, Sees
        <5>2. ~Within(s, pump.cell)
          BY <1>6, <3>1, <3>6, <4>2
        <5>3. Known(e)' => Coming(e)' \/ (Sees(s, e) <=> Within(s, cellOf[e]))'
          BY <1>1, <1>4, <1>5, <3>4, <3>6, <5>1, <5>2 DEF Within
        <5> QED
          BY <1>7, <2>2, <3>5, <4>2, <5>1, <5>3 DEF Right
      <4> QED
        BY <4>1, <4>2
    <3> QED
      BY <3>4, <3>5, <3>6
  <2>3. CASE pump.creates = {} /\ pump.removes = {} /\ pump.moves # {} /\ fan' \in sendMove(fan, Min(pump.moves), e)
             /\ pump' = [pump EXCEPT !.moves = @ \ {Min(@)}]
    <3>1. PICK v \in pump.moves : v = Min(pump.moves)
      BY <1>2, <2>3, SomeMin
    <3>2. v \in Sessions /\ Knowing(fan, v) /\ fan' \in sendMove(fan, v, e)
      BY <1>3, <2>3, <3>1
    <3>3. /\ OthersSame(fan, fan', v) /\ fan'.presence = fan.presence
          /\ v \in fan'.ready => v \in fan.ready
          /\ v \in fan'.up => v \in fan.up
      BY <1>2, <3>2, SendMoveChanges
    <3>4. Seen1 /\ \A s \in Sessions : Sees(s, e)' <=> Sees(s, e)
      BY <3>2, <3>3 DEF OthersSame, SameView, Sees
    <3>5. /\ pump'.at = "viewers" /\ pump'.entity = e /\ pump'.cell = pump.cell
          /\ pump'.creates = pump.creates /\ pump'.removes = pump.removes
      BY <1>0, <1>1, <1>2, <2>3, <3>1 DEF Pumps
    <3>6. ASSUME ~closed, <<e, e>> \notin torn, NEW s \in Sessions \ {e}, s \in fan.ready, s \in fan'.up, Right(s, e) PROVE Right(s, e)'
      <4>1. Known(e)' => Coming(e)' \/ (Sees(s, e) <=> Within(s, cellOf[e]))'
        BY <1>1, <1>4, <1>6, <2>3, <3>4, <3>6 DEF Within
      <4> QED
        BY <1>1, <1>6, <1>7, <2>3, <3>4, <3>5, <3>6, <4>1 DEF Right
    <3> QED
      BY <3>4, <3>5, <3>6
  <2>4. CASE pump.creates = {} /\ pump.removes = {} /\ pump' = Idle /\ UNCHANGED fan
    <3>1. pump'.at = "idle"
      BY <2>4, IdleIs
    <3>2. Seen1 /\ \A s \in Sessions : Sees(s, e)' <=> Sees(s, e)
      BY <2>4 DEF Sees
    <3>3. ASSUME ~closed, <<e, e>> \notin torn, NEW s \in Sessions \ {e}, s \in fan.ready, s \in fan'.up, Right(s, e) PROVE Right(s, e)'
      <4>1. Known(e)' => Coming(e)' \/ (Sees(s, e) <=> Within(s, cellOf[e]))'
        BY <1>1, <1>4, <1>6, <2>4, <3>2, <3>3 DEF Within
      <4> QED
        BY <1>1, <1>6, <1>7, <3>1, <3>2, <3>3, <4>1 DEF Right
    <3> QED
      BY <3>1, <3>2, <3>3
  <2> HIDE DEF Rights, Seen1
  <2> QED
    BY <1>0, <2>1, <2>2, <2>3, <2>4 DEF TellViewer
<1>9. \A s \in Sessions : \A x \in Sessions \ {e} : SeesSame(s, x)
  BY <1>8 DEF SeesSame, Joining, Sees
<1>10. \A o \in Sessions \ {e} : ~Telling(o) /\ ~Telling(o)'
  BY <1>0, <1>8 DEF Telling, Moving
<1>11. ASSUME ~closed, NEW s \in fan'.up, s \in Sessions, s # e, <<s, e>> \notin torn PROVE SeesRight(s, e)'
  <2>1. s \in fan'.ready => s \in fan.ready /\ Right(s, e)
    BY <1>8, <1>11 DEF SettledInv, SeesRight
  <2>2. <<e, e>> \notin torn
    BY <1>11 DEF TornWhole
  <2> QED
    BY <1>1, <1>8, <1>11, <2>1, <2>2 DEF SeesRight, Joining
<1>12. ASSUME ~closed PROVE Placed(e)'
  <2>1. Placed(e) /\ fan'.presence[e].center = fan.presence[e].center
    BY <1>8, <1>12 DEF SettledInv
  <2> QED
    BY <1>0, <1>1, <1>4, <1>8, <2>1 DEF Placed, SameQueue, Moving
<1>13. ASSUME ~closed, NEW o \in Sessions, o # e PROVE Placed(o)'
  <2>1. Placed(o) /\ fan'.presence[o].center = fan.presence[o].center
    BY <1>8, <1>13 DEF SettledInv
  <2>2. (pump.entity = o => pump.at \notin Moving) /\ (pump'.entity = o => pump'.at \notin Moving)
    BY <1>0, <1>8, <1>13 DEF Moving
  <2> QED
    BY <1>1, <1>4, <2>1, <2>2, PlacedKept
<1>14. Leaving'
  <2>1. fan'.ready \in SUBSET Sessions
    BY FanFields DEF ToldInv, Types
  <2>2. fan'.ready \subseteq fan.ready
    BY <1>8, <2>1
  <2> QED
    BY <1>1, <1>8, <2>2 DEF SettledInv, Leaving
<1>15. ASSUME ~closed, NEW s \in fan'.up, NEW x \in Sessions \ {s}, <<s, x>> \notin torn
       PROVE  SeesRight(s, x)' \/ (Calm(x) /\ SeesSame(s, x) /\ (pump' = pump \/ (~Telling(x) /\ ~Telling(x)')))
  <2>1. s \in Sessions
    BY FanFields DEF ToldInv, Types
  <2> QED
    BY <1>4, <1>9, <1>10, <1>11, <1>15, <2>1
<1> QED
  BY <1>1, <1>4, <1>12, <1>13, <1>14, <1>15, PumpSettled
LEMMA BootstrapSettled ==
  ASSUME ToldInv, ToldInv', SettledInv, Bootstrap
  PROVE  SettledInv'
<1>0. /\ fan \in Fans /\ pump \in Pumps /\ phase \in [Sessions -> Phases] /\ pump.creates \in SUBSET Sessions
      /\ pump.at = "bootstrap" /\ UNCHANGED <<tick, cellOf, events, relocated, closed, behind, torn>>
  BY DEF Bootstrap, ToldInv, Types, Pumps
<1>1. PICK s \in Sessions : s = pump.entity
  BY <1>0 DEF ToldInv, Types
<1>2. phase[s] = "booting" /\ Joining(s) /\ ~Joined(s)
  BY <1>0, <1>1 DEF ToldInv, PumpOK, Joining, Joined, Past
<1>3. s \notin fan.ready
  BY <1>2 DEF ToldInv, ReadyOK
<1>4. fan.presence[s].active /\ HandlesOK(s, fan.presence[s])
  BY <1>2 DEF ToldInv, ViewsOK, PresenceIn, Away
<1>5. \A o \in Sessions : SameQueue(o)
  BY <1>0, QueueKept
<1>6. Ticks'
  BY <1>0, TicksKept
<1>7. ~closed /\ s \in fan.up => \A x \in Sessions \ {s} : <<s, x>> \notin torn => Learns(s, x)
  BY <1>2 DEF SettledInv, SeesRight
<1>8. CASE pump.creates = {}
  <2>1. fan' = [fan EXCEPT !.ready = @ \cup {s}] /\ pump' = [pump EXCEPT !.at = "notify"] /\ UNCHANGED phase
    BY <1>1, <1>8 DEF Bootstrap
  <2>2. PICK pr, re, up, xs, xm : fan = [presence |-> pr, ready |-> re, up |-> up, shown |-> xs, moving |-> xm]
    BY <1>0, FanFields
  <2>3. fan'.presence = fan.presence /\ fan'.ready = fan.ready \cup {s} /\ fan'.up = fan.up
    BY <2>1, <2>2
  <2>4. pump'.at = "notify" /\ pump'.entity = s
    BY <1>0, <1>1, <2>1 DEF Pumps
  <2>5. \A o \in Sessions : Calm(o) /\ (Known(o)' <=> Known(o)) /\ ~Telling(o) /\ ~Telling(o)'
    BY <1>0, <2>1, <2>4, WorldSame DEF Telling, Moving
  <2>6. \A t \in Sessions \ {s} : \A x \in Sessions : SeesSame(t, x)
    BY <2>3, <2>4 DEF SeesSame, Joining, Sees
  <2>7. ASSUME ~closed, s \in fan'.up, NEW x \in Sessions \ {s}, <<s, x>> \notin torn PROVE SeesRight(s, x)'
    <3>1. Learns(s, x)
      BY <1>7, <2>3, <2>7
    <3>2. Right(s, x)'
      BY <1>0, <1>8, <2>1, <2>3, <2>4, <2>5, <3>1, WorldSame DEF Right, Learns, Sees, Within
    <3> QED
      BY <2>4, <3>2 DEF SeesRight, Joining
  <2>8. ASSUME ~closed, NEW o \in Sessions PROVE Placed(o)'
    BY <1>0, <1>5, <2>1, <2>3, <2>4, <2>5, <2>8, PlacedKept DEF SettledInv, Moving
  <2>9. Leaving'
    BY <1>2, <2>1, <2>3, <2>4 DEF SettledInv, Leaving
  <2> QED
    BY <1>0, <1>6, <2>5, <2>6, <2>7, <2>8, <2>9, PumpSettled, FanFields DEF ToldInv, Types
<1>9. CASE pump.creates # {}
  <2> DEFINE p == fan.presence[s]
             e == Min(pump.creates)
             granted == EnsureVisible(p, e)
             told == IF granted = {} THEN fan
                     ELSE emitCreate(WithPresence(fan, s, CHOOSE q \in granted : TRUE), s, e)
  <2>1. /\ fan' = told
        /\ IF granted # {} /\ s \in told.up THEN pump' = [pump EXCEPT !.creates = @ \ {e}] /\ UNCHANGED phase
           ELSE pump' = Idle /\ complete(s, FALSE)
    BY <1>1, <1>9 DEF Bootstrap, WithPresence
  <2>2. e \in pump.creates /\ e \in Sessions
    BY <1>0, <1>9, SomeMin
  <2>3. granted # {} =>
          /\ OthersSame(fan, told, s)
          /\ s \in told.ready => s \in fan.ready
          /\ told.presence[s].center = fan.presence[s].center
          /\ OneMore(fan, told, s, e)
          /\ s \in told.up => InSim(e)
    <3>1. SUFFICES ASSUME granted # {} PROVE
          /\ OthersSame(fan, told, s)
          /\ s \in told.ready => s \in fan.ready
          /\ told.presence[s].center = fan.presence[s].center
          /\ OneMore(fan, told, s, e)
          /\ s \in told.up => InSim(e)
      OBVIOUS
    <3>2. PICK q \in granted : q = CHOOSE z \in granted : TRUE
      BY <3>1
    <3>3. told = emitCreate(WithPresence(fan, s, q), s, e)
      BY <3>1, <3>2
    <3> HIDE DEF told, granted
    <3>4. q \in EnsureVisible(fan.presence[s], e)
      BY <3>2 DEF granted
    <3> HIDE DEF e
    <3> QED
      BY <1>0, <1>4, <2>2, <3>3, <3>4, BootstrapOne
  <2>4. granted = {} => told = fan
    OBVIOUS
  <2> HIDE DEF e, granted, told, p
  <2>5. /\ OthersSame(fan, fan', s) /\ s \notin fan'.ready
        /\ fan'.presence[s].center = fan.presence[s].center
    BY <1>3, <2>1, <2>3, <2>4 DEF OthersSame, SameView
  <2>6. fan'.ready \subseteq fan.ready
    BY <2>5, FanFields DEF OthersSame, SameView, ToldInv, Types
  <2>7. \A o \in Sessions : fan'.presence[o].center = fan.presence[o].center
    BY <2>5 DEF OthersSame, SameView
  <2>8. CASE granted # {} /\ s \in told.up
    <3>1. pump' = [pump EXCEPT !.creates = @ \ {e}] /\ UNCHANGED phase
      BY <2>1, <2>8
    <3>2. pump'.at = "bootstrap" /\ pump'.entity = s /\ pump'.creates = pump.creates \ {e}
      BY <1>0, <1>1, <3>1 DEF Pumps
    <3>3. \A o \in Sessions : Calm(o) /\ (Known(o)' <=> Known(o)) /\ (Coming(o)' <=> Coming(o)) /\ ~Telling(o) /\ ~Telling(o)'
      BY <1>0, <3>1, <3>2, WorldSame DEF Telling, Moving
    <3>4. \A t \in Sessions \ {s} : \A x \in Sessions : SeesSame(t, x)
      BY <2>5, <3>2 DEF SeesSame, Joining, Sees, OthersSame, SameView
    <3>5. s \in fan.up /\ Visible(fan'.presence[s]) = Visible(fan.presence[s]) \cup {e} /\ InSim(e)
      BY <2>1, <2>3, <2>8 DEF OneMore
    <3>6. ASSUME ~closed, NEW x \in Sessions \ {s}, <<s, x>> \notin torn PROVE SeesRight(s, x)'
      <4>1. Learns(s, x)
        BY <1>7, <3>5, <3>6
      <4>2. (Sees(s, x) \/ x \in pump.creates)' <=> (Sees(s, x) \/ x \in pump.creates)
        BY <2>2, <3>2, <3>5 DEF Sees
      <4>3. phase'[x] \in Unseen => ~Sees(s, x)'
        BY <3>1, <3>5, <4>1 DEF Learns, Sees, Unseen, InSim
      <4>4. phase'[x] = "out" => x \notin pump'.creates
        BY <3>1, <3>2, <4>1 DEF Learns
      <4>5. Known(x)' => Coming(x)' \/ ((Sees(s, x) \/ x \in pump.creates)' <=> Within(s, cellOf[x])')
        BY <1>0, <2>5, <3>3, <4>1, <4>2 DEF Learns, Within
      <4>6. phase'[x] \in Waiting /\ (Sees(s, x) \/ x \in pump.creates)' => Within(s, cellOf[x])'
        BY <1>0, <2>5, <3>1, <4>1, <4>2 DEF Learns, Within
      <4>7. Learns(s, x)'
        BY <4>3, <4>4, <4>5, <4>6 DEF Learns
      <4> QED
        BY <2>5, <4>7 DEF SeesRight
    <3>7. ASSUME ~closed, NEW o \in Sessions PROVE Placed(o)'
      BY <1>0, <1>5, <2>7, <3>1, <3>2, <3>3, <3>7, PlacedKept DEF SettledInv, Moving
    <3>8. Leaving'
      BY <2>6, <3>1, <3>2 DEF SettledInv, Leaving
    <3> QED
      BY <1>0, <1>6, <3>3, <3>4, <3>6, <3>7, <3>8, PumpSettled, FanFields DEF ToldInv, Types
  <2>9. CASE ~(granted # {} /\ s \in told.up)
    <3>1. pump' = Idle /\ complete(s, FALSE)
      BY <2>1, <2>9
    <3>2. /\ phase' \in [Sessions -> Phases] /\ (\A t \in Sessions \ {s} : phase'[t] = phase[t]) /\ phase'[s] = "failed"
      BY <1>2, <3>1, CompleteIs
    <3>3. pump'.at = "idle"
      BY <3>1, IdleIs
    <3>4. \A o \in Sessions : Known(o)' => Known(o)
      BY <1>0, <3>2 DEF Known
    <3>5. \A o \in Sessions : Calm(o) /\ ~Telling(o) /\ ~Telling(o)'
      BY <1>0, <1>2, <1>5, <3>2, <3>3, <3>4 DEF Calm, SameQueue, Telling, Moving, Waiting, Unseen
    <3>6. \A t \in Sessions \ {s} : \A x \in Sessions : SeesSame(t, x)
      BY <2>5, <3>3 DEF SeesSame, Joining, Sees, OthersSame, SameView
    <3>7. \A x \in Sessions : SeesRight(s, x)'
      BY <2>5, <3>3 DEF SeesRight, Joining
    <3>8. ASSUME ~closed, NEW o \in Sessions PROVE Placed(o)'
      <4>1. phase'[o] \in {"active", "booting"} => phase[o] \in {"active", "booting"}
        BY <3>2
      <4> QED
        BY <1>0, <1>5, <2>7, <3>3, <3>4, <3>8, <4>1, PlacedKept DEF SettledInv, Moving
    <3>9. Leaving'
      <4>1. \A t \in fan'.ready : t \in Sessions /\ phase'[t] = phase[t]
        BY <2>5, <2>6, <3>2, FanFields DEF ToldInv, Types
      <4> QED
        BY <2>6, <3>3, <4>1 DEF SettledInv, Leaving
    <3> QED
      BY <1>0, <1>6, <3>5, <3>6, <3>7, <3>8, <3>9, PumpSettled, FanFields DEF ToldInv, Types
  <2> QED
    BY <2>8, <2>9
<1> QED
  BY <1>8, <1>9
LEMMA NotifySettled ==
  ASSUME ToldInv, ToldInv', SettledInv, notifyExistingViewers
  PROVE  SettledInv'
<1>0. /\ fan \in Fans /\ pump \in Pumps /\ pump.at = "notify"
      /\ UNCHANGED <<tick, cellOf, events, relocated, closed, behind, torn>> /\ pump' = Idle
  BY DEF notifyExistingViewers, ToldInv, Types
<1>1. PICK s \in Sessions : s = pump.entity
  BY <1>0 DEF ToldInv, Types
<1> DEFINE others == (Subscribers(fan.presence, cellOf[s]) \cap fan.ready) \ {s}
<1>2. fan' = AddTo(fan, others, s)
  <2>1. fan' = LET me == pump.entity IN AddTo(fan, (Subscribers(fan.presence, cellOf[me]) \cap fan.ready) \ {me}, me)
    BY Zenon DEF notifyExistingViewers, AddTo
  <2> QED
    BY <1>1, <2>1
<1>3. complete(s, TRUE)
  BY <1>1 DEF notifyExistingViewers
<1>4. phase[s] = "booting"
  BY <1>0, <1>1 DEF ToldInv, PumpOK
<1>5. (\A t \in Sessions \ {s} : phase'[t] = phase[t]) /\ phase'[s] = "in"
  BY <1>3, <1>4, CompleteIs
<1>6. others \in SUBSET Sessions /\ \A t \in others : Knowing(fan, t)
  BY <1>0, ReadyKnows, FanFields
<1>7. \A t \in fan.ready : t \in Sessions /\ (t \in others <=> t # s /\ Within(t, cellOf[s]))
  BY ReadyActive DEF SettledInv, Subscribers, Within
<1> HIDE DEF others
<1>8. (\A t \in others : Added(fan, fan', t, s)) /\ \A t \in Sessions \ others : SameView(fan, fan', t)
  BY <1>0, <1>2, <1>6, AddAll
<1>9. \A t \in Sessions : /\ fan'.presence[t].center = fan.presence[t].center
                          /\ (t \in fan'.ready => t \in fan.ready) /\ (t \in fan'.up => t \in fan.up)
                          /\ t \in fan'.up => \A x \in Sessions \ {s} : Sees(t, x)' <=> Sees(t, x)
  BY <1>6, <1>8 DEF Added, Changed, SameView, Sees
<1>10. pump'.at = "idle"
  BY <1>0, IdleIs
<1>11. \A o \in Sessions : SameQueue(o) /\ ~Telling(o) /\ ~Telling(o)'
  BY <1>0, <1>10, QueueKept DEF Telling, Moving
<1>12. \A o \in Sessions \ {s} : Calm(o) /\ (Known(o)' => Known(o))
  BY <1>0, <1>5, <1>11 DEF Calm, Known, SameQueue
<1>13. \A t \in Sessions : \A x \in Sessions \ {s} : SeesSame(t, x)
  BY <1>9, <1>10 DEF SeesSame, Joining
<1>14. ASSUME ~closed, NEW t \in fan'.up, t \in Sessions, t # s, <<t, s>> \notin torn PROVE SeesRight(t, s)'
  <2>1. ASSUME t \in fan'.ready PROVE Sees(t, s)' <=> Within(t, cellOf[s])'
    <3>1. t \in fan.ready /\ t \in fan.up
      BY <1>9, <1>14, <2>1
    <3>2. Right(t, s)
      BY <1>14, <3>1 DEF SettledInv, SeesRight
    <3>3. CASE t \in others
      <4>1. Sees(t, s)'
        BY <1>8, <1>14, <3>3 DEF Added, Changed, Sees
      <4>2. Within(t, cellOf[s])'
        BY <1>0, <1>7, <1>9, <1>14, <3>1, <3>3 DEF Within
      <4> QED
        BY <4>1, <4>2
    <3>4. CASE t \notin others
      <4>1. ~Within(t, cellOf[s])
        BY <1>7, <1>14, <3>1, <3>4
      <4>2. ~Sees(t, s)
        BY <1>4, <3>2, <4>1 DEF Right, Waiting
      <4>3. ~Sees(t, s)'
        BY <1>8, <1>14, <3>4, <4>2 DEF SameView, Sees
      <4>4. ~Within(t, cellOf[s])'
        BY <1>0, <1>9, <1>14, <4>1 DEF Within
      <4> QED
        BY <4>3, <4>4
    <3> QED
      BY <3>3, <3>4
  <2> QED
    BY <1>5, <1>10, <2>1 DEF SeesRight, Joining, Right, Waiting, Unseen
<1>15. ASSUME ~closed PROVE Placed(s)'
  <2>1. fan.presence[s].center = cellOf[s]
    BY <1>4, <1>15 DEF SettledInv, Placed
  <2>2. LastRight(s)'
    <3>1. \A i \in 1..Len(events) : ~(events[i].entity = s /\ Fresh(relocated, events[i]))
      BY <1>4 DEF ToldInv, EventsOK, EventOK, Fresh, Past
    <3>2. LastRight(s)
      BY <3>1 DEF LastRight
    <3> QED
      BY <1>0, <1>11, <3>2 DEF SameQueue
  <2> QED
    BY <1>0, <1>5, <1>9, <1>10, <2>1, <2>2 DEF Placed, Moving
<1>16. ASSUME ~closed, NEW o \in Sessions, o # s PROVE Placed(o)'
  BY <1>0, <1>5, <1>9, <1>10, <1>11, <1>12, <1>16, PlacedKept DEF SettledInv, Moving
<1>17. Leaving'
  <2>1. \A t \in fan'.ready : t \in Sessions /\ t \in fan.ready
    BY <1>9, FanFields DEF ToldInv, Types
  <2> QED
    BY <1>5, <1>10, <2>1 DEF SettledInv, Leaving
<1>18. ASSUME ~closed, NEW t \in fan'.up, NEW x \in Sessions \ {t}, <<t, x>> \notin torn
       PROVE  SeesRight(t, x)' \/ (Calm(x) /\ SeesSame(t, x) /\ (pump' = pump \/ (~Telling(x) /\ ~Telling(x)')))
  <2>1. t \in Sessions
    BY FanFields DEF ToldInv, Types
  <2> QED
    BY <1>11, <1>12, <1>13, <1>14, <1>18, <2>1
<1> QED
  BY <1>0, <1>15, <1>16, <1>17, <1>18, TicksKept, PumpSettled

LEMMA RemoveSettled ==
  ASSUME ToldInv, ToldInv', SettledInv, Remove
  PROVE  SettledInv'
<1>0. /\ fan \in Fans /\ pump \in Pumps /\ pump.at = "remove" /\ pump.removes \in SUBSET Sessions
      /\ UNCHANGED <<tick, cellOf, events, relocated, closed, behind, torn>>
  BY DEF Remove, ToldInv, Types, Pumps
<1>1. PICK s \in Sessions : s = pump.entity
  BY <1>0 DEF ToldInv, Types
<1>2. phase[s] = "removing" /\ s \notin pump.removes
  BY <1>0, <1>1 DEF ToldInv, PumpOK
<1>3. \A o \in Sessions : SameQueue(o)
  BY <1>0, QueueKept
<1>4. Ticks'
  BY <1>0, TicksKept
<1>5. CASE pump.removes = {}
  <2>1. complete(s, TRUE) /\ pump' = Idle /\ UNCHANGED fan
    BY <1>1, <1>5 DEF Remove
  <2>2. (\A t \in Sessions \ {s} : phase'[t] = phase[t]) /\ phase'[s] = "removed"
    BY <1>2, <2>1, CompleteIs
  <2>3. pump'.at = "idle"
    BY <2>1, IdleIs
  <2>4. \A o \in Sessions : Known(o)' => Known(o)
    BY <1>0, <2>2 DEF Known
  <2>5. \A o \in Sessions \ {s} : Calm(o) /\ ~Telling(o) /\ ~Telling(o)'
    BY <1>0, <1>1, <1>3, <2>2, <2>3, <2>4 DEF Calm, SameQueue, Telling, Moving
  <2>6. \A t, x \in Sessions : SeesSame(t, x)
    BY <2>1, <2>3 DEF SeesSame, Joining, Sees
  <2>7. ASSUME ~closed, NEW t \in fan'.up, t \in Sessions, t # s, <<t, s>> \notin torn PROVE SeesRight(t, s)'
    <3>1. t \in fan'.ready => ~Sees(t, s)'
      BY <1>0, <1>1, <1>5, <2>1, <2>7 DEF SettledInv, SeesRight, Right, Sees
    <3> QED
      BY <2>2, <2>3, <3>1 DEF SeesRight, Joining, Right, Known, Waiting
  <2>8. ASSUME ~closed, NEW o \in Sessions PROVE Placed(o)'
    <3>1. phase'[o] \in {"active", "booting"} => phase[o] \in {"active", "booting"}
      BY <2>2
    <3> QED
      BY <1>0, <1>3, <2>1, <2>3, <2>4, <2>8, <3>1, PlacedKept DEF SettledInv, Moving
  <2>9. Leaving'
    <3>1. fan.ready \in SUBSET Sessions /\ s \notin fan.ready
      BY <1>0, <1>1, FanFields DEF SettledInv, Leaving
    <3> QED
      BY <2>1, <2>2, <2>3, <3>1 DEF SettledInv, Leaving
  <2>10. ASSUME ~closed, NEW t \in fan'.up, NEW x \in Sessions \ {t}, <<t, x>> \notin torn
         PROVE  SeesRight(t, x)' \/ (Calm(x) /\ SeesSame(t, x) /\ (pump' = pump \/ (~Telling(x) /\ ~Telling(x)')))
    <3>1. t \in Sessions
      BY FanFields DEF ToldInv, Types
    <3> QED
      BY <2>5, <2>6, <2>7, <2>10, <3>1
  <2> QED
    BY <1>0, <1>4, <2>8, <2>9, <2>10, PumpSettled
<1>6. CASE pump.removes # {}
  <2> DEFINE v == Min(pump.removes)
  <2>1. /\ fan' = IF v \in fan.ready THEN removeViewerDestroy(fan, v, s) ELSE Hide(fan, v, s)
        /\ pump' = [pump EXCEPT !.removes = @ \ {v}] /\ UNCHANGED phase
    BY <1>1, <1>6 DEF Remove
  <2>2. v \in pump.removes /\ v \in Sessions /\ v # s
    BY <1>0, <1>2, <1>6, SomeMin
  <2> HIDE DEF v
  <2>3. pump'.at = "remove" /\ pump'.entity = s /\ pump'.removes = pump.removes \ {v}
    BY <1>0, <1>1, <2>1 DEF Pumps
  <2>4. /\ OthersSame(fan, fan', v) /\ fan'.presence[v].center = fan.presence[v].center
        /\ (v \in fan'.ready => v \in fan.ready) /\ (v \in fan'.up => v \in fan.up)
        /\ v \in fan'.up /\ v \in fan'.ready => Visible(fan'.presence[v]) = Visible(fan.presence[v]) \ {s}
    <3>1. CASE v \in fan.ready
      <4>1. Knowing(fan, v)
        BY <3>1, ReadyKnows
      <4>2. OthersSame(fan, fan', v) /\ Changed(fan, fan', v, Visible(fan.presence[v]) \ {s})
        BY <1>0, <2>1, <2>2, <3>1, <4>1, DestroyChanges
      <4> QED
        BY <4>2 DEF Changed
    <3>2. CASE v \notin fan.ready
      <4>1. /\ OthersSame(fan, fan', v) /\ fan'.presence[v] = HideVisible(v, fan.presence[v], s)
            /\ fan'.ready = fan.ready /\ fan'.up = fan.up
        BY <1>0, <2>1, <2>2, <3>2, HideFields
      <4>2. fan'.presence[v].center = fan.presence[v].center
        BY <1>0, <2>2, <4>1, HideFromPresence, FanFields
      <4> QED
        BY <3>2, <4>1, <4>2
    <3> QED
      BY <3>1, <3>2
  <2>5. \A t \in Sessions : /\ fan'.presence[t].center = fan.presence[t].center
                            /\ (t \in fan'.ready => t \in fan.ready) /\ (t \in fan'.up => t \in fan.up)
                            /\ t \in fan'.up /\ t \in fan'.ready => \A x \in Sessions \ {s} : Sees(t, x)' <=> Sees(t, x)
    BY <2>4 DEF OthersSame, SameView, Sees
  <2>6. \A o \in Sessions : Calm(o) /\ (Known(o)' <=> Known(o))
    BY <1>0, <2>1, WorldSame
  <2>7. \A t \in Sessions : \A x \in Sessions \ {s} : SeesSame(t, x) /\ ~Telling(x) /\ ~Telling(x)'
    BY <1>1, <2>3, <2>5 DEF SeesSame, Joining, Telling
  <2>8. ASSUME ~closed, NEW t \in fan'.up, t \in Sessions, t # s, <<t, s>> \notin torn PROVE SeesRight(t, s)'
    <3>1. ASSUME t \in fan'.ready, Sees(t, s)' PROVE t \in pump'.removes
      <4>1. t # v
        BY <2>4, <2>8, <3>1 DEF Sees
      <4>2. Sees(t, s)
        BY <2>4, <2>8, <3>1, <4>1 DEF OthersSame, SameView, Sees
      <4>3. t \in fan.up /\ t \in fan.ready
        BY <2>5, <2>8, <3>1
      <4>4. Right(t, s)
        BY <2>8, <4>3 DEF SettledInv, SeesRight
      <4> QED
        BY <1>0, <1>1, <2>3, <4>1, <4>2, <4>4 DEF Right
    <3> QED
      BY <1>2, <2>1, <2>3, <3>1 DEF SeesRight, Joining, Right, Known, Waiting, Unseen
  <2>9. ASSUME ~closed, NEW o \in Sessions PROVE Placed(o)'
    BY <1>0, <1>3, <2>1, <2>3, <2>5, <2>6, <2>9, PlacedKept DEF SettledInv, Moving
  <2>10. Leaving'
    <3>1. \A t \in fan'.ready : t \in fan.ready
      BY <2>5, FanFields DEF ToldInv, Types
    <3> QED
      BY <1>0, <1>1, <2>1, <2>3, <3>1 DEF SettledInv, Leaving
  <2>11. ASSUME ~closed, NEW t \in fan'.up, NEW x \in Sessions \ {t}, <<t, x>> \notin torn
         PROVE  SeesRight(t, x)' \/ (Calm(x) /\ SeesSame(t, x) /\ (pump' = pump \/ (~Telling(x) /\ ~Telling(x)')))
    <3>1. t \in Sessions
      BY FanFields DEF ToldInv, Types
    <3> QED
      BY <2>6, <2>7, <2>8, <2>11, <3>1
  <2> QED
    BY <1>0, <1>4, <2>9, <2>10, <2>11, PumpSettled
<1> QED
  BY <1>5, <1>6

LEMMA FallbackSettled ==
  ASSUME ToldInv, ToldInv', SettledInv, NEW s \in Sessions, removePresenceFallback(s)
  PROVE  SettledInv'
<1> DEFINE S == Viewers(fan.presence, s)
           f == ClearReady(fan, s)
<1>0. fan \in Fans /\ phase \in [Sessions -> Phases]
  BY DEF ToldInv, Types
<1>1. /\ phase[s] = "fallback" /\ phase' = [phase EXCEPT ![s] = "removed"]
      /\ UNCHANGED <<tick, cellOf, events, closed, pump, relocated, behind, torn>>
  BY DEF removePresenceFallback
<1>2. fan' = FailAndHide(f, S, s)
  BY Zenon DEF removePresenceFallback, FailAndHide
<1>3. f \in Fans /\ f.ready = fan.ready \ {s} /\ f.presence = fan.presence /\ f.up = fan.up
  BY <1>0, ClearFields
<1>4. S \in SUBSET Sessions /\ \A t \in S : HandlesOK(t, f.presence[t])
  BY <1>3 DEF Viewers, ToldInv, ViewsOK, PresenceIn
<1>5. \A t \in Sessions \ S : ~Sees(t, s)
  BY DEF Viewers, Sees
<1> HIDE DEF S, f
<1>6. (\A t \in S : FailedAndHidden(f, fan', t)) /\ \A t \in Sessions \ S : SameView(f, fan', t)
  BY <1>2, <1>3, <1>4, FailAndHideAll
<1>7. \A t \in Sessions : /\ fan'.presence[t].center = fan.presence[t].center
                          /\ t \in fan'.ready => t \in fan.ready /\ t # s
                          /\ t \in fan'.up => t \in fan.up /\ fan'.presence[t] = fan.presence[t] /\ ~Sees(t, s)
  BY <1>3, <1>5, <1>6 DEF FailedAndHidden, SameView
<1>8. phase'[s] = "removed" /\ \A t \in Sessions \ {s} : phase'[t] = phase[t]
  BY <1>0, <1>1
<1>9. \A o \in Sessions : SameQueue(o) /\ (Known(o)' => Known(o))
  BY <1>1, <1>8, QueueKept DEF Known
<1>10. \A o \in Sessions \ {s} : Calm(o)
  BY <1>1, <1>8, <1>9 DEF Calm, SameQueue
<1>11. \A t, x \in Sessions : SeesSame(t, x)
  BY <1>1, <1>7 DEF SeesSame, Joining, Sees
<1>12. ASSUME NEW t \in fan'.up, t \in Sessions, t # s, ~closed, <<t, s>> \notin torn PROVE SeesRight(t, s)'
  <2>1. ~Sees(t, s)'
    BY <1>7, <1>12 DEF Sees
  <2>2. t \in fan'.ready => Right(t, s)
    BY <1>7, <1>12 DEF SettledInv, SeesRight
  <2>3. t \in fan'.ready => Right(t, s)'
    BY <1>1, <1>7, <1>8, <1>12, <2>1, <2>2 DEF Right, Known, Waiting, Within
  <2>4. Joining(t)' => Learns(t, s)'
    BY <1>8, <2>1 DEF Learns, Known, Waiting
  <2> QED
    BY <2>3, <2>4 DEF SeesRight
<1>13. ASSUME ~closed, NEW o \in Sessions PROVE Placed(o)'
  <2>1. phase'[o] \in {"active", "booting"} => phase[o] \in {"active", "booting"}
    BY <1>8
  <2> QED
    BY <1>1, <1>7, <1>9, <1>13, <2>1, PlacedKept DEF SettledInv
<1>14. Leaving'
  <2>1. \A t \in fan'.ready : t \in Sessions /\ t \in fan.ready /\ t # s
    BY <1>7, FanFields DEF ToldInv, Types
  <2> QED
    BY <1>1, <1>8, <2>1 DEF SettledInv, Leaving
<1>15. ASSUME ~closed, NEW t \in fan'.up, NEW x \in Sessions \ {t}, <<t, x>> \notin torn
       PROVE  SeesRight(t, x)' \/ (Calm(x) /\ SeesSame(t, x) /\ (pump' = pump \/ (~Telling(x) /\ ~Telling(x)')))
  <2>1. t \in Sessions
    BY FanFields DEF ToldInv, Types
  <2> QED
    BY <1>1, <1>10, <1>11, <1>12, <1>15, <2>1
<1> QED
  BY <1>1, <1>13, <1>14, <1>15, TicksKept, PumpSettled
LEMMA OnDeathCompletedSettled ==
  ASSUME ToldInv, ToldInv', SettledInv, NEW e \in Sessions, NEW cell \in Cells, OnDeathCompleted(e, cell)
  PROVE  SettledInv'
<1> DEFINE g == Centered(fan, e, cell)
           told == RelocateEntity(fan, e, cell)
           at == [cellOf EXCEPT ![e] = cell]
<1>0. fan \in Fans /\ cellOf \in [Sessions -> Cells] /\ relocated \in [Sessions -> Nat] /\ cell \in Int
  BY PresenceConstants DEF ToldInv, Types
<1>1. /\ phase[e] = "in" /\ torn' = torn \cup Overlapped(e) /\ cellOf' = at /\ relocated' = [relocated EXCEPT ![e] = tick]
      /\ fan' = IF e \in told.ready THEN reconcileVisibleSet(told, e, at) ELSE told
      /\ behind' = behind \ {e}
      /\ UNCHANGED <<tick, phase, events, closed, pump>>
  BY DEF OnDeathCompleted
<1>2. fan.presence[e].active /\ Knowing(fan, e)
  BY <1>1, JoinedKnows DEF ToldInv, ViewsOK, PresenceIn, Away, Joined, Past
<1>3. /\ fan.ready \in SUBSET Sessions
      /\ \A s \in fan.ready : Knowing(fan, s) /\ fan.presence[s].active
  BY ReadyKnows, ReadyActive DEF SettledInv
<1>4. /\ told \in Fans
      /\ \A s \in fan.ready : Changed(g, told, s, Seen(fan, e, cell, s))
      /\ \A s \in Sessions \ fan.ready : SameView(g, told, s)
  BY <1>0, <1>2, <1>3, RelocateTells
<1>5. /\ OthersSame(fan, g, e) /\ g.ready = fan.ready /\ g.up = fan.up
      /\ g.presence[e].center = cell /\ Knowing(g, e)
  <2>1. g = WithPresence(fan, e, UpdateCenter(fan.presence[e], cell))
    BY <1>2 DEF Centered, WithPresence
  <2> HIDE DEF g
  <2> QED
    BY <1>0, <1>2, <2>1, CenterFields
<1>6. \A s \in fan.ready \ {e} : Seen(fan, e, cell, s) = IF Within(s, cell) THEN Visible(fan.presence[s]) \cup {e}
                                                         ELSE Visible(fan.presence[s]) \ {e}
  <2>1. \A s \in fan.ready \ {e} : s \in Subscribers(g.presence, cell) <=> Within(s, cell)
    <3> HIDE DEF g
    <3> QED
      BY <1>3, <1>5 DEF Subscribers, Within, OthersSame, SameView
  <2> QED
    BY <2>1 DEF Seen
<1>7. cellOf'[e] = cell /\ \A o \in Sessions \ {e} : cellOf'[o] = cellOf[o]
  BY <1>0, <1>1
<1> HIDE DEF g, told, at
<1>8. \A s \in Sessions : /\ told.presence[s].center = g.presence[s].center
                          /\ (s \in told.ready => s \in fan.ready) /\ (s \in told.up => s \in fan.up)
                          /\ s \in told.ready /\ s \in told.up => Visible(told.presence[s]) = Seen(fan, e, cell, s)
  BY <1>4, <1>5 DEF Changed, SameView
<1>9. /\ OthersSame(told, fan', e) /\ fan'.presence[e].center = cell
      /\ e \in fan'.ready => e \in told.ready /\ (e \in fan'.up => e \in fan.up /\ Visible(fan'.presence[e]) = Near(fan', e, at))
      /\ e \in fan'.up => e \in fan.up
  <2>1. CASE e \notin told.ready
    BY <1>1, <1>5, <1>8, <2>1 DEF OthersSame, SameView
  <2>2. CASE e \in told.ready
    <3>1. Knowing(told, e) /\ fan' = reconcileVisibleSet(told, e, at)
      BY <1>1, <1>4, <1>8, <2>2 DEF Changed
    <3>2. OthersSame(told, fan', e) /\ Changed(told, fan', e, Near(told, e, at))
      BY <1>4, <3>1, ViewReconciled
    <3>3. Near(told, e, at) = Near(fan', e, at)
      BY <3>2 DEF Changed, Near
    <3> QED
      BY <1>5, <1>8, <2>2, <3>2, <3>3 DEF Changed
  <2> QED
    BY <2>1, <2>2
<1>10. \A s \in Sessions \ {e} : /\ fan'.presence[s].center = fan.presence[s].center
                                 /\ (s \in fan'.ready => s \in fan.ready) /\ (s \in fan'.up => s \in fan.up)
                                 /\ s \in fan'.ready /\ s \in fan'.up =>
                                      Visible(fan'.presence[s]) = IF Within(s, cell) THEN Visible(fan.presence[s]) \cup {e}
                                                                  ELSE Visible(fan.presence[s]) \ {e}
  BY <1>5, <1>6, <1>8, <1>9 DEF OthersSame, SameView
<1>11. \A o \in Sessions \ {e} : SameQueue(o) /\ (Known(o)' <=> Known(o))
  BY <1>0, <1>1, QueueKept DEF Known
<1>12. ~Coming(e)' /\ LastRight(e)'
  BY <1>0, <1>1, NothingComes DEF SettledInv
<1>13. \A o \in Sessions \ {e} : Calm(o)
  BY <1>1, <1>7, <1>11 DEF Calm, SameQueue
<1>14. torn \subseteq torn' /\ pump' = pump /\ phase' = phase
  BY <1>1
<1>15. ASSUME NEW s \in Sessions \ {e}, NEW x \in Sessions \ {e} PROVE SeesSame(s, x)
  <2>1. s \notin fan.ready => SameView(fan, fan', s)
    BY <1>4, <1>5, <1>9 DEF OthersSame, SameView
  <2>2. Joining(s) => s \notin fan.ready
    BY DEF ToldInv, ReadyOK, PumpOK, Joined, Joining, Past
  <2>3. Joining(s)' <=> Joining(s)
    BY <1>14 DEF Joining
  <2> QED
    BY <1>10, <1>14, <2>1, <2>2, <2>3 DEF SeesSame, Sees, SameView
<1>t. /\ pump.at # "idle" /\ pump.entity = e => \A s \in Sessions : <<s, e>> \in torn' /\ <<e, s>> \in torn'
      /\ pump.at = "viewers" => <<e, pump.entity>> \in torn'
      /\ pump.at = "bootstrap" => <<pump.entity, e>> \in torn'
  <2>1. pump.at # "idle" /\ pump.entity = e => Overlapped(e) = ({e} \X Sessions) \cup (Sessions \X {e})
    BY Zenon DEF Overlapped
  <2>2. pump.at = "viewers" /\ pump.entity # e => Overlapped(e) = {<<e, pump.entity>>}
    BY DEF Overlapped
  <2>3. pump.at = "bootstrap" /\ pump.entity # e => Overlapped(e) = {<<pump.entity, e>>}
    BY DEF Overlapped
  <2>4. pump.at = "viewers" \/ pump.at = "bootstrap" => pump.at # "idle" /\ pump.entity \in Sessions
    BY DEF ToldInv, Types
  <2> HIDE DEF Overlapped
  <2> QED
    BY <1>1, <2>1, <2>2, <2>3, <2>4
<1>16. ASSUME NEW s \in fan'.up, s \in Sessions, s # e, <<s, e>> \notin torn' PROVE SeesRight(s, e)'
  <2>1. s \in fan'.ready => (Sees(s, e)' <=> Within(s, cellOf[e])')
    BY <1>7, <1>10, <1>16 DEF Sees, Within
  <2>2. phase'[e] = "in" /\ (pump'.entity = e => pump'.at = "idle") /\ ~Joining(s)'
    BY <1>1, <1>16, <1>t DEF Joining
  <2>3. phase'[e] \notin Waiting /\ phase'[e] \notin Unseen
    BY <2>2 DEF Waiting, Unseen
  <2>4. s \in fan'.ready => Right(s, e)'
    BY <2>1, <2>2, <2>3 DEF Right
  <2> QED
    BY <1>16, <2>2, <2>4 DEF SeesRight
<1>17. ASSUME e \in fan'.up, NEW x \in Sessions \ {e}, <<e, x>> \notin torn' PROVE SeesRight(e, x)'
  <2>0. ~Joining(e)' /\ (pump'.entity = x => pump'.at # "viewers")
    BY <1>1, <1>17, <1>t DEF Joining
  <2> SUFFICES ASSUME e \in fan'.ready PROVE Right(e, x)'
    BY <2>0 DEF SeesRight
  <2>1. Sees(e, x)' <=> InSim(x) /\ Within(e, cellOf[x])'
    <3>1. Visible(fan'.presence[e]) = Near(fan', e, cellOf')
      BY <1>1, <1>9, <1>17
    <3>2. x \in Near(fan', e, cellOf') <=> InSim(x) /\ cellOf'[x] \in BaseAOICells(fan'.presence[e].center)
      BY <1>17 DEF Near, EntitiesInCell
    <3>3. Sees(e, x)' <=> x \in Visible(fan'.presence[e])
      BY DEF Sees
    <3>4. Within(e, cellOf[x])' <=> cellOf'[x] \in BaseAOICells(fan'.presence[e].center)
      BY DEF Within
    <3> QED
      BY <3>1, <3>2, <3>3, <3>4
  <2>2. Known(x)' \/ phase'[x] \in Waiting => InSim(x)
    BY <1>1 DEF Known, Waiting, InSim
  <2>3. phase'[x] \in Unseen => ~InSim(x)
    BY <1>1 DEF Unseen, InSim
  <2>4. pump'.entity = x /\ pump'.at = "remove" => ~InSim(x)
    BY <1>14 DEF ToldInv, PumpOK, InSim
  <2> QED
    BY <1>1, <2>0, <2>1, <2>2, <2>3, <2>4 DEF Right
<1>18. Placed(e)'
  <2>1. <<e, e>> \notin torn' => ~(pump'.at \in Moving /\ pump'.entity = e)
    BY <1>14, <1>t DEF Moving
  <2> QED
    BY <1>1, <1>7, <1>9, <1>12, <2>1 DEF Placed
<1>19. ASSUME ~closed, NEW o \in Sessions, o # e PROVE Placed(o)'
  BY <1>1, <1>7, <1>10, <1>11, <1>14, <1>19, PlacedKept DEF SettledInv
<1>20. Ticks'
  <2>1. \A o \in Sessions : relocated'[o] =< tick
    BY <1>0, <1>1, TicksBound DEF SettledInv
  <2> QED
    BY <1>1, <2>1 DEF SettledInv, Ticks, Control
<1>21. Leaving'
  <2>1. \A s \in fan'.ready : s \in fan.ready
    BY <1>8, <1>9, <1>10, FanFields DEF ToldInv, Types
  <2> QED
    BY <1>1, <2>1 DEF SettledInv, Leaving
<1>22. ASSUME ~closed, NEW t \in fan'.up, NEW x \in Sessions \ {t}, <<t, x>> \notin torn'
       PROVE  SeesRight(t, x)' \/ (Calm(x) /\ SeesSame(t, x) /\ (pump' = pump \/ (~Telling(x) /\ ~Telling(x)')))
  <2>1. t \in Sessions
    BY FanFields DEF ToldInv, Types
  <2> QED
    BY <1>13, <1>14, <1>15, <1>16, <1>17, <1>22, <2>1
<1> QED
  BY <1>1, <1>14, <1>18, <1>19, <1>20, <1>21, <1>22, PumpSettled

-----------------------------------------------------------------------------
(* The theorem *)

LEMMA InitSettled == Init => SettledInv
<1> SUFFICES ASSUME Init PROVE SettledInv
  OBVIOUS
<1>1. /\ tick = 1 /\ phase = [s \in Sessions |-> "out"] /\ events = <<>> /\ pump = Idle
      /\ relocated = [e \in Sessions |-> Never] /\ fan.ready = {}
      /\ fan.presence = [s \in Sessions |-> NoPresence] /\ fan.up = Sessions
  BY DEF Init
<1>2. pump.at = "idle"
  BY <1>1, IdleIs
<1>3. Ticks
  BY <1>1 DEF Ticks, Never
<1>4. Leaving
  BY <1>1, <1>2 DEF Leaving
<1>5. \A s \in Sessions : Placed(s)
  BY <1>1 DEF Placed, Known
<1>6. \A s \in fan.up : \A e \in Sessions \ {s} : SeesRight(s, e)
  BY <1>1, <1>2 DEF SeesRight, Joining
<1> QED
  BY <1>3, <1>4, <1>5, <1>6 DEF SettledInv

LEMMA NothingSettled ==
  ASSUME ToldInv, ToldInv', SettledInv, UNCHANGED vars
  PROVE  SettledInv'
<1>1. UNCHANGED <<tick, cellOf, phase, events, closed, pump, relocated, fan, behind, torn>>
  BY DEF vars
<1> QED
  BY <1>1, LessSeen

LEMMA NextTorn ==
  ASSUME TornWhole, [Next]_vars
  PROVE  TornWhole'
<1>1. CASE UNCHANGED torn
  BY <1>1 DEF TornWhole
<1>2. ASSUME NEW d \in Sessions, NEW cell \in Cells, OnDeathCompleted(d, cell) PROVE TornWhole'
  <2>1. torn' = torn \cup Overlapped(d)
    BY <1>2 DEF OnDeathCompleted
  <2>2. ASSUME NEW e \in Sessions, <<e, e>> \in Overlapped(d), NEW s \in Sessions PROVE <<s, e>> \in Overlapped(d)
    <3>1. CASE pump.entity # d
      BY <2>2, <3>1 DEF Overlapped
    <3>2. CASE pump.entity = d
      BY <2>2, <3>2 DEF Overlapped
    <3> QED
      BY <3>1, <3>2
  <2> QED
    BY <2>1, <2>2 DEF TornWhole
<1>3. CASE loop
  BY <1>1, <1>3 DEF loop, Take, Center, Sets, TellViewer, Bootstrap, notifyExistingViewers, Remove
<1>4. ASSUME NEW s \in Sessions, Lifecycle(s) PROVE UNCHANGED torn
  BY <1>4 DEF Lifecycle, CommitEnter, BootstrapSession, FailEnter, AbortEnter, RemovePresence,
              removePresenceFallback, Deactivate, submitControl, EndPresence
<1>5. ASSUME NEW s \in Sessions, ExitWorld(s) \/ Write(s) \/ Lose(s) \/ \E cell \in Cells : PrepareEnter(s, cell)
      PROVE  UNCHANGED torn
  BY <1>5 DEF ExitWorld, Write, Lose, PrepareEnter
<1>6. ASSUME NEW e \in Sessions, EmitDeath(e) \/ \E cell \in Cells : Move(e, cell) PROVE UNCHANGED torn
  BY <1>6 DEF EmitDeath, Move
<1>7. CASE Close \/ UNCHANGED vars
  BY <1>1, <1>7 DEF Close, vars
<1> QED
  BY <1>1, <1>2, <1>3, <1>4, <1>5, <1>6, <1>7 DEF Next, Simulation

LEMMA NextSettled ==
  ASSUME ToldInv, SettledInv, TornWhole, [Next]_vars
  PROVE  SettledInv'
<1>0. ToldInv'
  BY NextTold
<1>1. CASE Simulation
  <2>1. PICK e \in Sessions : EmitDeath(e) \/ \E cell \in Cells : Move(e, cell) \/ OnDeathCompleted(e, cell)
    BY <1>1 DEF Simulation
  <2>2. CASE EmitDeath(e)
    BY <1>0, <2>2, EmitDeathSettled
  <2>3. CASE \E cell \in Cells : Move(e, cell) \/ OnDeathCompleted(e, cell)
    <3>1. PICK cell \in Cells : Move(e, cell) \/ OnDeathCompleted(e, cell)
      BY <2>3
    <3>2. CASE Move(e, cell)
      BY <1>0, <3>2, MoveSettled
    <3>3. CASE OnDeathCompleted(e, cell)
      BY <1>0, <3>3, OnDeathCompletedSettled
    <3> QED
      BY <3>1, <3>2, <3>3
  <2> QED
    BY <2>1, <2>2, <2>3
<1>2. CASE loop
  <2>1. CASE Take
    BY <1>0, <2>1, TakeSettled
  <2>2. CASE Center
    BY <1>0, <2>2, CenterSettled
  <2>3. CASE Sets
    BY <1>0, <2>3, SetsSettled
  <2>4. CASE TellViewer
    BY <1>0, <2>4, TellViewerSettled
  <2>5. CASE Bootstrap
    BY <1>0, <2>5, BootstrapSettled
  <2>6. CASE notifyExistingViewers
    BY <1>0, <2>6, NotifySettled
  <2>7. CASE Remove
    BY <1>0, <2>7, RemoveSettled
  <2> QED
    BY <1>2, <2>1, <2>2, <2>3, <2>4, <2>5, <2>6, <2>7 DEF loop
<1>3. CASE Close
  BY <1>3, CloseSettled
<1>4. ASSUME NEW s \in Sessions, Lifecycle(s) PROVE SettledInv'
  <2>1. CASE CommitEnter(s)
    BY <1>0, <2>1, CommitEnterSettled
  <2>2. CASE BootstrapSession(s)
    BY <1>0, <2>2, SubmitSettled DEF BootstrapSession
  <2>3. CASE FailEnter(s)
    BY <1>0, <2>3, EndPresenceSettled DEF FailEnter
  <2>4. CASE AbortEnter(s)
    BY <1>0, <2>4, AbortEnterSettled
  <2>5. CASE RemovePresence(s)
    BY <1>0, <2>5, SubmitSettled DEF RemovePresence
  <2>6. CASE removePresenceFallback(s)
    BY <1>0, <2>6, FallbackSettled
  <2>7. CASE Deactivate(s)
    BY <1>0, <2>7, EndPresenceSettled DEF Deactivate
  <2> QED
    BY <1>4, <2>1, <2>2, <2>3, <2>4, <2>5, <2>6, <2>7 DEF Lifecycle
<1>5. ASSUME NEW s \in Sessions,
             ExitWorld(s) \/ Write(s) \/ Lose(s) \/ \E cell \in Cells : PrepareEnter(s, cell)
      PROVE  SettledInv'
  <2>1. CASE ExitWorld(s)
    BY <1>0, <2>1, ExitWorldSettled
  <2>2. CASE Write(s)
    BY <1>0, <2>2, WriteSettled
  <2>3. CASE Lose(s)
    BY <1>0, <2>3, LoseSettled
  <2>4. CASE \E cell \in Cells : PrepareEnter(s, cell)
    BY <1>0, <2>4, PrepareEnterSettled
  <2> QED
    BY <1>5, <2>1, <2>2, <2>3, <2>4
<1>6. CASE UNCHANGED vars
  BY <1>0, <1>6, NothingSettled
<1> QED
  BY <1>1, <1>2, <1>3, <1>4, <1>5, <1>6 DEF Next

LEMMA SettledAlways ==
  Spec => [](ToldInv /\ SettledInv)
<1>1. Init => ToldInv /\ SettledInv /\ TornWhole
  BY InitTold, InitSettled DEF Init, TornWhole
<1>2. ToldInv /\ SettledInv /\ TornWhole /\ [Next]_vars => ToldInv' /\ SettledInv' /\ TornWhole'
  BY NextTold, NextSettled, NextTorn
<1> QED
  BY <1>1, <1>2, PTL DEF Spec

(* When the pump has nothing left to do, every client in the world has been *)
(* shown exactly who is near, but for entities whose last movement was      *)
(* dropped, for who failed to enter, and for the pairs of which the pump    *)
(* was telling the one about the other when one of them died: for any       *)
(* number of sessions, cells, events, deaths and lost connections.          *)
THEOREM QuietMeansSettled ==
  Spec => []SettledViews
<1>1. ToldInv /\ SettledInv => SettledViews
  <2> SUFFICES ASSUME ToldInv, SettledInv, ~closed, events = <<>>, pump.at = "idle",
                      NEW s \in Sessions, phase[s] = "in", s \in fan.ready, s \in fan.up, s \notin behind,
                      <<s, s>> \notin torn
               PROVE  LET joined == {e \in Sessions : phase[e] = "in"}
                          elsewhere == {e \in Sessions : phase[e] \in {"removed", "gone"}}
                          near == {e \in joined : cellOf[e] \in BaseAOICells(cellOf[s])}
                          unsettled == behind \cup {e \in Sessions : <<s, e>> \in torn}
                      IN /\ (near \ unsettled) \cup {s} \subseteq Visible(fan.presence[s])
                         /\ Visible(fan.presence[s]) \cap ((joined \ near) \cup elsewhere) \subseteq unsettled
    BY DEF SettledViews
  <2>1. \A e \in Sessions : ~Coming(e)
    BY DEF Coming
  <2>2. fan.presence[s].center = cellOf[s]
    BY <2>1 DEF SettledInv, Placed, Known
  <2>3. s \in Visible(fan.presence[s])
    BY ReadyActive DEF SettledInv, ToldInv, ViewsOK, PresenceIn, HandlesOK
  <2>4. cellOf[s] \in BaseAOICells(cellOf[s])
    <3>1. cellOf[s] \in Cells /\ cellOf[s] \in Int /\ Radius \in Nat
      BY PresenceConstants DEF ToldInv, Types
    <3>2. cellOf[s] \in (cellOf[s] - Radius)..(cellOf[s] + Radius)
      BY <3>1
    <3> QED
      BY <3>1, <3>2 DEF BaseAOICells
  <2>5. ASSUME NEW e \in Sessions \ {s}, <<s, e>> \notin torn
        PROVE  /\ Known(e) => (e \in Visible(fan.presence[s]) <=> cellOf[e] \in BaseAOICells(cellOf[s]))
               /\ phase[e] \in {"removed", "gone"} => e \notin Visible(fan.presence[s])
    <3>1. Right(s, e)
      BY <2>5 DEF SettledInv, SeesRight
    <3> QED
      BY <2>1, <2>2, <3>1 DEF Right, Sees, Within, Unseen
  <2> QED
    BY <2>3, <2>4, <2>5 DEF Known
<1> QED
  BY <1>1, SettledAlways, PTL

(* The tears of a death are the only ones: whatever movement from before a  *)
(* relocation the pump still has, or takes, it never drags the owner back,  *)
(* as the comment in RelocateEntity says (fanout.go:839-843), unless it was *)
(* in the middle of that movement when the death was presented.             *)
OnlyTearsDragBack ==
  (~closed /\ events = <<>> /\ pump.at = "idle") =>
    \A e \in Sessions \ behind :
      phase[e] = "in" /\ <<e, e>> \notin torn => fan.presence[e].center = cellOf[e]

THEOREM RelocationsStand == Spec => []OnlyTearsDragBack
<1>1. SettledInv => OnlyTearsDragBack
  <2> SUFFICES ASSUME SettledInv, ~closed, events = <<>>, pump.at = "idle",
                      NEW e \in Sessions, e \notin behind, phase[e] = "in", <<e, e>> \notin torn
               PROVE  fan.presence[e].center = cellOf[e]
    BY DEF OnlyTearsDragBack
  <2>1. ~Coming(e)
    BY DEF Coming
  <2> QED
    BY <2>1 DEF SettledInv, Placed, Known
<1> QED
  BY <1>1, SettledAlways, PTL

=============================================================================
