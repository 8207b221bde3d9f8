-------------------------- MODULE ExecutorsProofs --------------------------
(***************************************************************************)
(* Theorems of Executors.tla for any finite sets of work and workers, any   *)
(* queue and mailbox capacity, and any number of runs of the engine.        *)
(***************************************************************************)
EXTENDS Executors, FiniteSetTheorems, TLAPS

-----------------------------------------------------------------------------
(* Types *)

WorkStates == {"none", "reserved", "prepared", "activated", "cancelled"}

Works == [state: WorkStates, call: {"none", "mapping", "holding"}, held: BOOLEAN,
          tried: BOOLEAN, results: Nat]

Exited == [at |-> "exited"]

Deliveries ==
    [at: {"deliver", "waiting", "answered"}, job: Jobs, what: {"settled", "let go"}, last: BOOLEAN]

Hands == [at: {"taken", "store"}, job: Jobs] \cup Deliveries

TypeOK ==
    /\ run \in [Kinds -> {"absent", "new", "running", "draining", "returned"}]
    /\ permits \in [Kinds -> Int]
    /\ queue \in [Kinds -> Seq(Jobs)]
    /\ work \in [Jobs -> Works]
    /\ thread \in [Threads -> {Idle, Exited} \cup Hands]
    /\ owner \in [Jobs -> {"none", "waiting", "let go", "settled"}]
    /\ done \in BOOLEAN
    /\ engine \in [running: BOOLEAN, runs: Nat]
    /\ mail \in Seq(Threads)

-----------------------------------------------------------------------------
(* The inductive invariant *)

Busy(t) == thread[t].at \notin {"idle", "exited"}

Queued(j) == \E i \in 1..Len(queue[KindOf[j]]) : queue[KindOf[j]][i] = j

InHand(j) == \E t \in Threads : Busy(t) /\ thread[t].job = j

(* Activated, not stored, not answered.                                     *)
Waits(j) == work[j].state = "activated" /\ work[j].results = 0 /\ ~work[j].tried /\ owner[j] = "waiting"

(* The same of a job after a step.                                          *)
WaitsNext(j) ==
    work'[j].state = "activated" /\ work'[j].results = 0 /\ ~work'[j].tried /\ owner'[j] = "waiting"

QueuedNext(j) == \E i \in 1..Len(queue'[KindOf[j]]) : queue'[KindOf[j]][i] = j

(* What a job may be before it is activated, and at most ever.              *)
JobsOrdered ==
    \A j \in Jobs :
        /\ work[j].results =< 1
        /\ work[j].state \in {"none", "reserved", "prepared"} => work[j].results = 0
        /\ work[j].state # "activated" => ~work[j].tried /\ owner[j] = "none"
        /\ work[j].call # "none" => work[j].state \in {"reserved", "cancelled"} /\ work[j].results = 0

QueuesHoldWaiting ==
    \A k \in Kinds : \A i \in 1..Len(queue[k]) :
        /\ KindOf[queue[k][i]] = k
        /\ Waits(queue[k][i])
        /\ \A h \in 1..Len(queue[k]) : queue[k][h] = queue[k][i] => h = i

(* Whoever has a job in hand has it alone, and knows of its transaction     *)
(* what the job's record says.                                              *)
HandsHoldOne ==
    \A t \in Threads : Busy(t) =>
        LET j == thread[t].job
        IN /\ KindOf[j] = Serves(t)
           /\ ~Queued(j)
           /\ \A u \in Threads : Busy(u) /\ thread[u].job = j => u = t
           /\ work[j].state = "activated" /\ work[j].results = 0
           /\ thread[t].at \in {"taken", "store"} => Waits(j)
           /\ thread[t].at \in {"deliver", "waiting", "answered"} =>
                  (work[j].tried <=> thread[t].what = "settled")

NoneMissing ==
    \A j \in Jobs : work[j].state = "activated" /\ work[j].results = 0 => Queued(j) \/ InHand(j)

MailHoldsWaiting ==
    \A i \in 1..Len(mail) :
        /\ thread[mail[i]].at = "waiting"
        /\ \A h \in 1..Len(mail) : mail[h] = mail[i] => h = i

ReturnedIsEmpty ==
    \A k \in Kinds : run[k] = "returned" =>
        /\ queue[k] = <<>>
        /\ thread[k] = Idle
        /\ \A w \in Workers : WorkerOf[w] = k => thread[w] = Exited

Placed ==
    /\ TypeOK
    /\ JobsOrdered
    /\ QueuesHoldWaiting
    /\ HandsHoldOne
    /\ NoneMissing
    /\ MailHoldsWaiting
    /\ ReturnedIsEmpty
    /\ LetGoOnlyUntried

-----------------------------------------------------------------------------
(* Types are kept *)

LEMMA Constants ==
    /\ KindOf \in [Jobs -> Kinds]
    /\ WorkerOf \in [Workers -> Kinds]
    /\ Workers \cap Kinds = {}
    /\ QueueCapacity \in Nat /\ QueueCapacity > 0
    /\ \A t \in Threads : Serves(t) \in Kinds
BY ExecutorConstants DEF Serves, Threads

LEMMA InitTypeOK == Init => TypeOK
<1> SUFFICES ASSUME Init PROVE TypeOK
    OBVIOUS
<1>1. queue \in [Kinds -> Seq(Jobs)]
    BY DEF Init
<1>2. run \in [Kinds -> {"absent", "new", "running", "draining", "returned"}]
    BY DEF Init
<1>3. work \in [Jobs -> Works]
    BY DEF Init, Unreserved, Works, WorkStates
<1> QED
    <2>1. /\ permits = [k \in Kinds |-> QueueCapacity] /\ thread = [t \in Threads |-> Idle]
          /\ owner = [j \in Jobs |-> "none"] /\ done = FALSE
          /\ engine = [running |-> FALSE, runs |-> 0] /\ mail = <<>>
        BY DEF Init
    <2>2. permits \in [Kinds -> Int]
        BY <2>1, Constants
    <2>3. thread \in [Threads -> {Idle, Exited} \cup Hands]
        BY <2>1
    <2>4. mail \in Seq(Threads)
        BY <2>1
    <2> QED
        BY <1>1, <1>2, <1>3, <2>1, <2>2, <2>3, <2>4 DEF TypeOK

-----------------------------------------------------------------------------
(* What a caller's step does to its job *)

Claim(w) == IF w.state \in {"reserved", "prepared"} THEN 1 ELSE 0

(* An executor's permits move by n.                                         *)
PermitsMove(k, n) ==
    /\ permits' \in [Kinds -> Int]
    /\ permits'[k] = permits[k] + n
    /\ \A i \in Kinds \ {k} : permits'[i] = permits[i]

(* The job's record alone changes; it moves on, is cancelled, is refused, or *)
(* goes to the queue and holds its permit's place there.                    *)
OneJob(j) ==
    /\ work' \in [Jobs -> Works]
    /\ \A i \in Jobs \ {j} : work'[i] = work[i]

MovesOn(j) ==
    /\ queue' = queue
    /\ work'[j].state = "activated" => work'[j].results = 1
    /\ owner' \in [Jobs -> {"none", "waiting", "let go", "settled"}]
    /\ \A i \in Jobs \ {j} : owner'[i] = owner[i]
    /\ owner'[j] # "settled"
    /\ work'[j].state # "activated" => owner'[j] = "none"
    /\ PermitsMove(KindOf[j], Claim(work[j]) - Claim(work'[j]))

IsQueued(j) ==
    /\ Running(KindOf[j])
    /\ queue' = [queue EXCEPT ![KindOf[j]] = Append(@, j)]
    /\ work'[j].state = "activated" /\ work'[j].results = 0
    /\ owner' = [owner EXCEPT ![j] = "waiting"]
    /\ PermitsMove(KindOf[j], Claim(work[j]) - 1)

CallerEffect(j) ==
    /\ UNCHANGED <<thread, done, engine, mail, run>>
    /\ work[j].state # "activated"
    /\ OneJob(j)
    /\ MovesOn(j) \/ IsQueued(j)
    /\ ~work'[j].tried
    /\ work'[j].results =< 1
    /\ work'[j].state \in {"none", "reserved", "prepared"} => work'[j].results = 0
    /\ work'[j].call # "none" => work'[j].state \in {"reserved", "cancelled"} /\ work'[j].results = 0
    /\ work'[j].held => /\ work[j].held \/ Free(CharacterOf[j])
                        /\ work'[j].results = 0
                        /\ work'[j].call = "holding" \/ work'[j].state \notin {"none", "cancelled"}
    /\ work'[j].call = "holding" => work'[j].held

(* A held character belongs to a reservation that is not over.              *)
HeldIsLive ==
    \A j \in Jobs :
        /\ work[j].call = "holding" => work[j].held
        /\ work[j].held => /\ work[j].results = 0
                           /\ work[j].call = "holding" \/ work[j].state \notin {"none", "cancelled"}

CallerFacts == TypeOK /\ JobsOrdered /\ HeldIsLive

LEMMA WorkFields ==
    ASSUME NEW w \in Works
    PROVE  /\ w.state \in WorkStates /\ w.call \in {"none", "mapping", "holding"}
           /\ w.held \in BOOLEAN /\ w.tried \in BOOLEAN /\ w.results \in Nat
BY DEF Works

LEMMA NewWorks ==
    /\ Reserved \in Works /\ Reserved.state = "reserved" /\ Reserved.call = "none"
    /\ ~Reserved.held /\ ~Reserved.tried /\ Reserved.results = 0
<1>1. Unreserved \in Works
    BY DEF Unreserved, Works, WorkStates
<1> QED
    BY <1>1 DEF Reserved, Works, WorkStates, Unreserved

LEMMA PermitTaken ==
    ASSUME CallerFacts, NEW j \in Jobs, NEW w \in Works, TakePermit(j, w)
    PROVE  /\ UNCHANGED <<thread, done, engine, mail, run>>
           /\ work[j].state = "none" /\ Claim(work[j]) = 0 /\ owner[j] = "none"
           /\ OneJob(j) /\ work'[j] = w
           /\ PermitsMove(KindOf[j], -1)
           /\ Running(KindOf[j])
<1>1. KindOf[j] \in Kinds /\ permits \in [Kinds -> Int] /\ work \in [Jobs -> Works]
    BY Constants DEF CallerFacts, TypeOK
<1>2. /\ work[j].state = "none" /\ Running(KindOf[j])
      /\ permits' = [permits EXCEPT ![KindOf[j]] = @ - 1]
      /\ work' = [work EXCEPT ![j] = w]
      /\ UNCHANGED <<run, thread, done, engine, mail>>
    BY DEF TakePermit
<1>3. PermitsMove(KindOf[j], -1)
    BY <1>1, <1>2 DEF PermitsMove
<1>4. OneJob(j) /\ work'[j] = w
    BY <1>1, <1>2 DEF OneJob
<1>5. Claim(work[j]) = 0 /\ owner[j] = "none"
    BY <1>2 DEF Claim, CallerFacts, JobsOrdered
<1> QED
    BY <1>2, <1>3, <1>4, <1>5

LEMMA ReserveEffect ==
    ASSUME CallerFacts, NEW j \in Jobs, NEW w \in Works, TakePermit(j, w),
           w.state = "reserved", w.call = "none", ~w.tried, w.results = 0,
           w.held => Free(CharacterOf[j]),
           UNCHANGED <<queue, owner>>
    PROVE  CallerEffect(j)
<1>1. Claim(w) = 1
    BY DEF Claim
<1>2. KindOf[j] \in Kinds /\ permits \in [Kinds -> Int]
    BY Constants DEF CallerFacts, TypeOK
<1>3. MovesOn(j)
    <2>1. PermitsMove(KindOf[j], -1)
        BY PermitTaken
    <2>2. Claim(work[j]) - Claim(work'[j]) = -1
        BY <1>1, PermitTaken
    <2> QED
        BY <2>1, <2>2, PermitTaken DEF MovesOn, CallerFacts, TypeOK
<1> QED
    BY <1>3, PermitTaken DEF CallerEffect

LEMMA SubmitEffect ==
    ASSUME CallerFacts, NEW j \in Jobs, TrySubmit(j)
    PROVE  CallerEffect(j)
<1> DEFINE w == [Unreserved EXCEPT !.state = "activated"]
<1>1. w.state = "activated" /\ w.call = "none" /\ ~w.held /\ ~w.tried /\ w.results = 0
    BY DEF Unreserved
<1>2. w \in Works
    <2>1. Unreserved \in Works
        BY DEF Unreserved, Works, WorkStates
    <2> QED
        BY <2>1 DEF Works, WorkStates
<1> HIDE DEF w
<1>3. KindOf[j] = "death" /\ TakePermit(j, w)
    BY DEF TrySubmit, w
<1>4. KindOf[j] \in Kinds /\ permits \in [Kinds -> Int]
    BY Constants DEF CallerFacts, TypeOK
<1>5. IsQueued(j)
    <2>1. PermitsMove(KindOf[j], Claim(work[j]) - 1)
        <3>1. PermitsMove(KindOf[j], -1) /\ Claim(work[j]) = 0
            BY <1>2, <1>3, PermitTaken
        <3>2. Claim(work[j]) - 1 = -1
            BY <3>1
        <3> QED
            BY <3>1, <3>2
    <2>2. work'[j] = w /\ Claim(work[j]) = 0
        BY <1>2, <1>3, PermitTaken
    <2>3. work'[j].state = "activated" /\ work'[j].results = 0
        BY <1>1, <2>2
    <2>4. /\ queue' = [queue EXCEPT ![KindOf[j]] = Append(@, j)]
          /\ owner' = [owner EXCEPT ![j] = "waiting"]
        BY <1>3 DEF TrySubmit
    <2>5. Running(KindOf[j])
        BY <1>2, <1>3, PermitTaken
    <2> QED
        BY <2>1, <2>2, <2>3, <2>4, <2>5 DEF IsQueued
<1> QED
    BY <1>1, <1>2, <1>3, <1>5, PermitTaken DEF CallerEffect

(* The record of a job with some fields replaced.                           *)
WithCall(w, c) == [w EXCEPT !.call = c]
WithHold(w, c, h) == [w EXCEPT !.call = c, !.held = h]
WithState(w, s, c) == [w EXCEPT !.state = s, !.call = c]
WithEnd(w) == [w EXCEPT !.state = "cancelled", !.call = "none", !.held = FALSE]
WithResult(w, h, r) == [w EXCEPT !.state = "cancelled", !.held = h, !.results = r]
WithPlace(w) == [w EXCEPT !.state = "activated"]
WithRefusal(w, r) == [w EXCEPT !.state = "activated", !.held = FALSE, !.results = r]

LEMMA CallSet ==
    ASSUME NEW w \in Works, NEW c \in {"none", "mapping", "holding"}
    PROVE  LET v == WithCall(w, c)
           IN v \in Works /\ v.call = c /\ v.state = w.state /\ v.held = w.held
              /\ v.tried = w.tried /\ v.results = w.results
BY DEF Works, WithCall

LEMMA HoldSet ==
    ASSUME NEW w \in Works, NEW c \in {"none", "mapping", "holding"}, NEW h \in BOOLEAN
    PROVE  LET v == WithHold(w, c, h)
           IN v \in Works /\ v.call = c /\ v.state = w.state /\ v.held = h
              /\ v.tried = w.tried /\ v.results = w.results
BY DEF Works, WithHold

LEMMA StateSet ==
    ASSUME NEW w \in Works, NEW s \in WorkStates, NEW c \in {"none", "mapping", "holding"}
    PROVE  LET v == WithState(w, s, c)
           IN v \in Works /\ v.call = c /\ v.state = s /\ v.held = w.held
              /\ v.tried = w.tried /\ v.results = w.results
BY DEF Works, WithState

LEMMA EndSet ==
    ASSUME NEW w \in Works
    PROVE  LET v == WithEnd(w)
           IN v \in Works /\ v.call = "none" /\ v.state = "cancelled" /\ v.held = FALSE
              /\ v.tried = w.tried /\ v.results = w.results
BY DEF Works, WithEnd, WorkStates

LEMMA ResultSet ==
    ASSUME NEW w \in Works, NEW h \in BOOLEAN, NEW r \in Nat
    PROVE  LET v == WithResult(w, h, r)
           IN v \in Works /\ v.call = w.call /\ v.state = "cancelled" /\ v.held = h
              /\ v.tried = w.tried /\ v.results = r
BY DEF Works, WithResult, WorkStates

LEMMA PlaceSet ==
    ASSUME NEW w \in Works
    PROVE  LET v == WithPlace(w)
           IN v \in Works /\ v.call = w.call /\ v.state = "activated" /\ v.held = w.held
              /\ v.tried = w.tried /\ v.results = w.results
BY DEF Works, WithPlace, WorkStates

LEMMA RefusalSet ==
    ASSUME NEW w \in Works, NEW r \in Nat
    PROVE  LET v == WithRefusal(w, r)
           IN v \in Works /\ v.call = w.call /\ v.state = "activated" /\ v.held = FALSE
              /\ v.tried = w.tried /\ v.results = r
BY DEF Works, WithRefusal, WorkStates

LEMMA WorkReplaced ==
    ASSUME TypeOK, NEW j \in Jobs, NEW v \in Works, work' = [work EXCEPT ![j] = v]
    PROVE  OneJob(j) /\ work'[j] = v
BY DEF TypeOK, OneJob

(* A preparation's steps leave the queue and what the simulation knows.     *)
Prepares(j, v) ==
    /\ v \in Works /\ work' = [work EXCEPT ![j] = v]
    /\ work[j].state \in {"reserved", "prepared", "cancelled"}
    /\ v.state \in {"reserved", "prepared", "cancelled"}
    /\ v.tried = work[j].tried /\ v.results =< 1
    /\ v.state # "cancelled" => v.results = 0
    /\ v.call # "none" => v.state \in {"reserved", "cancelled"} /\ v.results = 0
    /\ v.held => /\ work[j].held \/ Free(CharacterOf[j])
                 /\ v.results = 0
                 /\ v.call = "holding" \/ v.state # "cancelled"
    /\ v.call = "holding" => v.held

LEMMA PrepareEffect ==
    ASSUME CallerFacts, NEW j \in Jobs, NEW v, Prepares(j, v),
           PermitsMove(KindOf[j], Claim(work[j]) - Claim(v)),
           UNCHANGED <<run, queue, thread, owner, done, engine, mail>>
    PROVE  CallerEffect(j)
<1>1. OneJob(j) /\ work'[j] = v
    BY WorkReplaced DEF CallerFacts, Prepares
<1>2. ~work[j].tried /\ owner[j] = "none" /\ owner \in [Jobs -> {"none", "waiting", "let go", "settled"}]
    BY DEF CallerFacts, JobsOrdered, TypeOK, Prepares
<1>3. MovesOn(j)
    BY <1>1, <1>2 DEF MovesOn, Prepares
<1> QED
    BY <1>1, <1>2, <1>3 DEF CallerEffect, Prepares

LEMMA JobFacts ==
    ASSUME CallerFacts, NEW j \in Jobs
    PROVE  /\ work \in [Jobs -> Works] /\ work[j] \in Works
           /\ work[j].results \in Nat /\ work[j].held \in BOOLEAN
           /\ work[j].results =< 1
           /\ work[j].state \in {"none", "reserved", "prepared"} => work[j].results = 0
           /\ work[j].state # "activated" => ~work[j].tried /\ owner[j] = "none"
           /\ work[j].call # "none" => work[j].state \in {"reserved", "cancelled"} /\ work[j].results = 0
           /\ work[j].call = "holding" => work[j].held
           /\ work[j].held => /\ work[j].results = 0
                              /\ work[j].call = "holding" \/ work[j].state \notin {"none", "cancelled"}
           /\ permits \in [Kinds -> Int] /\ KindOf[j] \in Kinds
<1>1. work \in [Jobs -> Works] /\ work[j] \in Works /\ permits \in [Kinds -> Int]
    BY DEF CallerFacts, TypeOK
<1>2. KindOf[j] \in Kinds
    BY Constants
<1>3. work[j].results \in Nat /\ work[j].held \in BOOLEAN
    BY <1>1, WorkFields
<1> QED
    BY <1>1, <1>2, <1>3 DEF CallerFacts, JobsOrdered, HeldIsLive

LEMMA PermitsStay ==
    ASSUME TypeOK, NEW k \in Kinds, NEW n \in Int,
           \/ permits' = permits /\ n = 0
           \/ permits' = [permits EXCEPT ![k] = @ + 1] /\ n = 1
    PROVE  PermitsMove(k, n)
<1>0. permits \in [Kinds -> Int] /\ permits[k] \in Int
    BY DEF TypeOK
<1>1. CASE permits' = permits /\ n = 0
    <2>1. permits[k] = permits[k] + n
        BY <1>0, <1>1
    <2> QED
        BY <1>0, <1>1, <2>1 DEF PermitsMove
<1>2. CASE permits' = [permits EXCEPT ![k] = @ + 1] /\ n = 1
    BY <1>0, <1>2 DEF PermitsMove
<1> QED
    BY <1>1, <1>2

LEMMA BeginPrepareEffect ==
    ASSUME CallerFacts, NEW j \in Jobs, BeginPrepare(j)
    PROVE  CallerEffect(j)
<1> DEFINE v == WithCall(work[j], "mapping")
<1>1. work' = [work EXCEPT ![j] = v] /\ work[j].state = "reserved" /\ permits' = permits
    BY DEF BeginPrepare, CallerFacts, TypeOK, WithCall
<1>2. /\ v \in Works /\ v.call = "mapping" /\ v.state = work[j].state /\ v.held = work[j].held
      /\ v.tried = work[j].tried /\ v.results = work[j].results
    BY JobFacts, CallSet
<1> HIDE DEF v
<1>3. PermitsMove(KindOf[j], Claim(work[j]) - Claim(v))
    <2>1. Claim(work[j]) - Claim(v) = 0
        BY <1>2 DEF Claim
    <2> QED
        BY <1>1, <2>1, JobFacts, PermitsStay DEF CallerFacts
<1>4. Prepares(j, v)
    BY <1>1, <1>2, JobFacts DEF Prepares
<1> QED
    BY <1>3, <1>4, PrepareEffect DEF BeginPrepare

LEMMA HoldEffect ==
    ASSUME CallerFacts, NEW j \in Jobs, HoldCharacter(j)
    PROVE  CallerEffect(j)
<1> DEFINE v == WithHold(work[j], "holding", TRUE)
<1>1. /\ work' = [work EXCEPT ![j] = v] /\ permits' = permits
      /\ work[j].call = "mapping" /\ Free(CharacterOf[j])
    BY DEF HoldCharacter, CallerFacts, TypeOK, WithHold
<1>2. /\ v \in Works /\ v.call = "holding" /\ v.state = work[j].state /\ v.held = TRUE
      /\ v.tried = work[j].tried /\ v.results = work[j].results
    BY JobFacts, HoldSet
<1> HIDE DEF v
<1>3. PermitsMove(KindOf[j], Claim(work[j]) - Claim(v))
    <2>1. Claim(work[j]) - Claim(v) = 0
        BY <1>2 DEF Claim
    <2> QED
        BY <1>1, <2>1, JobFacts, PermitsStay DEF CallerFacts
<1>4. Prepares(j, v)
    BY <1>1, <1>2, JobFacts DEF Prepares
<1> QED
    BY <1>3, <1>4, PrepareEffect DEF HoldCharacter

(* A preparation ends with the work prepared, given up, or cancelled by     *)
(* another meanwhile; only giving up returns a permit.                      *)
LEMMA EndPrepareEffect ==
    ASSUME CallerFacts, NEW j \in Jobs, NEW ready \in BOOLEAN, work[j].call # "none",
           EndPrepare(j, ready)
    PROVE  CallerEffect(j)
<1>0. UNCHANGED <<run, queue, thread, owner, done, engine, mail>>
    BY DEF EndPrepare
<1>1. CASE work[j].state # "reserved"
    <2> DEFINE v == WithHold(work[j], "none", FALSE)
    <2>1. work' = [work EXCEPT ![j] = v] /\ permits' = permits
        BY <1>1 DEF EndPrepare, BePrepared, GiveUp, CallerFacts, TypeOK, WithHold
    <2>2. /\ v \in Works /\ v.call = "none" /\ v.state = work[j].state /\ v.held = FALSE
          /\ v.tried = work[j].tried /\ v.results = work[j].results
        <3>1. work[j] \in Works
            BY JobFacts
        <3> QED
            BY <3>1, HoldSet, Zenon
    <2> HIDE DEF v
    <2>3. PermitsMove(KindOf[j], Claim(work[j]) - Claim(v))
        <3>1. Claim(work[j]) - Claim(v) = 0
            BY <2>2 DEF Claim
        <3> QED
            BY <2>1, <3>1, JobFacts, PermitsStay DEF CallerFacts
    <2>4. Prepares(j, v)
        BY <1>1, <2>1, <2>2, JobFacts DEF Prepares
    <2> QED
        BY <1>0, <2>3, <2>4, PrepareEffect
<1>2. CASE work[j].state = "reserved" /\ BePrepared(j)
    <2> DEFINE v == WithState(work[j], "prepared", "none")
    <2>1. work' = [work EXCEPT ![j] = v] /\ permits' = permits
        BY <1>2 DEF BePrepared, CallerFacts, TypeOK, WithState
    <2>2. /\ v \in Works /\ v.call = "none" /\ v.state = "prepared" /\ v.held = work[j].held
          /\ v.tried = work[j].tried /\ v.results = work[j].results
        BY JobFacts, StateSet DEF WorkStates
    <2> HIDE DEF v
    <2>3. PermitsMove(KindOf[j], Claim(work[j]) - Claim(v))
        <3>1. Claim(work[j]) - Claim(v) = 0
            BY <1>2, <2>2 DEF Claim
        <3> QED
            BY <2>1, <3>1, JobFacts, PermitsStay DEF CallerFacts
    <2>4. Prepares(j, v)
        BY <1>2, <2>1, <2>2, JobFacts DEF Prepares
    <2> QED
        BY <1>0, <2>3, <2>4, PrepareEffect
<1>3. CASE work[j].state = "reserved" /\ GiveUp(j)
    <2> DEFINE v == WithEnd(work[j])
    <2>1. work' = [work EXCEPT ![j] = v] /\ permits' = [permits EXCEPT ![KindOf[j]] = @ + 1]
        BY <1>3 DEF GiveUp, ReleasePermit, CallerFacts, TypeOK, WithEnd
    <2>2. /\ v \in Works /\ v.call = "none" /\ v.state = "cancelled" /\ v.held = FALSE
          /\ v.tried = work[j].tried /\ v.results = work[j].results
        <3>1. work[j] \in Works
            BY JobFacts
        <3> QED
            BY <3>1, EndSet, Zenon
    <2> HIDE DEF v
    <2>3. PermitsMove(KindOf[j], Claim(work[j]) - Claim(v))
        <3>1. Claim(work[j]) - Claim(v) = 1
            BY <1>3, <2>2 DEF Claim
        <3>2. PermitsMove(KindOf[j], 1)
            BY <2>1, JobFacts DEF PermitsMove
        <3> QED
            BY <3>1, <3>2
    <2>4. Prepares(j, v)
        BY <1>3, <2>1, <2>2, JobFacts DEF Prepares
    <2> QED
        BY <1>0, <2>3, <2>4, PrepareEffect
<1> QED
    BY <1>1, <1>2, <1>3 DEF EndPrepare

LEMMA CancelEffect ==
    ASSUME CallerFacts, NEW j \in Jobs, CancelWork(j)
    PROVE  CallerEffect(j)
<1> DEFINE h == work[j].call = "holding"
           r == IF work[j].state = "prepared" THEN work[j].results + 1 ELSE work[j].results
           v == WithResult(work[j], h, r)
<1>1. /\ work' = [work EXCEPT ![j] = v] /\ permits' = [permits EXCEPT ![KindOf[j]] = @ + 1]
      /\ work[j].state \in {"reserved", "prepared"}
    BY DEF CancelWork, ReleasePermit, CallerFacts, TypeOK, WithResult
<1>2. /\ v \in Works /\ v.call = work[j].call /\ v.state = "cancelled" /\ v.held = h
      /\ v.tried = work[j].tried /\ v.results = r
    <2>1. h \in BOOLEAN /\ r \in Nat /\ work[j] \in Works
        BY JobFacts
    <2> HIDE DEF h, r
    <2>2. \A b \in BOOLEAN, n \in Nat : LET x == WithResult(work[j], b, n)
                                         IN x \in Works /\ x.call = work[j].call /\ x.state = "cancelled"
                                            /\ x.held = b /\ x.tried = work[j].tried /\ x.results = n
        BY <2>1, ResultSet, Zenon
    <2> QED
        BY <2>1, <2>2
<1> HIDE DEF v
<1>3. PermitsMove(KindOf[j], Claim(work[j]) - Claim(v))
    <2>1. Claim(work[j]) - Claim(v) = 1
        BY <1>1, <1>2 DEF Claim
    <2>2. PermitsMove(KindOf[j], 1)
        BY <1>1, JobFacts DEF PermitsMove
    <2> QED
        BY <2>1, <2>2
<1>4. v.held => work[j].held
    BY <1>2, JobFacts
<1>5. work[j].state \in {"reserved", "prepared", "cancelled"} /\ work[j].results = 0 /\ r =< 1
    BY <1>1, JobFacts
<1>6. work[j].state = "prepared" => work[j].call = "none" /\ ~h
    BY JobFacts
<1>7. v.held => v.results = 0 /\ v.call = "holding"
    BY <1>1, <1>2, <1>5, <1>6
<1>8. v.call # "none" => v.results = 0
    BY <1>1, <1>2, <1>5, <1>6
<1>9. Prepares(j, v)
    BY <1>1, <1>2, <1>4, <1>5, <1>7, <1>8 DEF Prepares
<1> QED
    BY <1>3, <1>9, PrepareEffect DEF CancelWork

(* What the simulation knows of work that found its executor stopped.       *)
Refusals == {"waiting", "let go"}

(* Activated work is in the queue in its permit's place, or was answered.   *)
LEMMA ActivateEffect ==
    ASSUME CallerFacts, NEW j \in Jobs, NEW refused \in Refusals, Activate(j, refused)
    PROVE  CallerEffect(j)
<1> DEFINE k == KindOf[j]
           p == WithPlace(work[j])
           r == WithRefusal(work[j], 1)
<1>1. /\ work[j].state = "prepared" /\ Claim(work[j]) = 1
      /\ UNCHANGED <<run, thread, done, engine, mail>>
    BY DEF Activate, Claim
<1>2. work[j] \in Works /\ work[j].call = "none" /\ ~work[j].tried
    BY <1>1, JobFacts
<1>a. work[j].results = 0
    BY <1>1, JobFacts
<1>b. permits \in [Kinds -> Int] /\ k \in Kinds
    BY JobFacts
<1>c. owner \in [Jobs -> {"none", "waiting", "let go", "settled"}]
    BY DEF CallerFacts, TypeOK
<1>3. CASE /\ Running(k)
           /\ queue' = [queue EXCEPT ![k] = Append(@, j)]
           /\ work' = [work EXCEPT ![j].state = "activated"]
           /\ owner' = [owner EXCEPT ![j] = "waiting"]
           /\ UNCHANGED permits
    <2>1. work' = [work EXCEPT ![j] = p]
        BY <1>3 DEF WithPlace, CallerFacts, TypeOK
    <2>2. /\ p \in Works /\ p.call = "none" /\ p.state = "activated" /\ p.held = work[j].held
          /\ ~p.tried /\ p.results = 0
        BY <1>2, <1>a, PlaceSet
    <2> HIDE DEF p
    <2>3. OneJob(j) /\ work'[j] = p
        BY <2>1, <2>2, WorkReplaced DEF CallerFacts
    <2>4. PermitsMove(k, Claim(work[j]) - 1)
        BY <1>1, <1>3, <1>b DEF PermitsMove
    <2>5. IsQueued(j)
        BY <1>3, <2>2, <2>3, <2>4 DEF IsQueued
    <2> QED
        BY <1>1, <2>2, <2>3, <2>5 DEF CallerEffect
<1>4. CASE /\ work' = [work EXCEPT ![j].state = "activated", ![j].held = FALSE, ![j].results = @ + 1]
           /\ owner' = [owner EXCEPT ![j] = refused]
           /\ ReleasePermit(k)
           /\ UNCHANGED queue
    <2>1. work' = [work EXCEPT ![j] = r]
        <3>1. work[j].results + 1 = 1
            BY <1>a
        <3> QED
            BY <1>4, <3>1 DEF WithRefusal, CallerFacts, TypeOK
    <2>2. /\ r \in Works /\ r.call = "none" /\ r.state = "activated" /\ r.held = FALSE
          /\ ~r.tried /\ r.results = 1
        <3>1. /\ r \in Works /\ r.call = work[j].call /\ r.state = "activated" /\ r.held = FALSE
              /\ r.tried = work[j].tried /\ r.results = 1
            <4>1. 1 \in Nat
                OBVIOUS
            <4> QED
                BY <1>2, <4>1, RefusalSet, Zenon
        <3> HIDE DEF r
        <3> QED
            BY <1>2, <3>1
    <2> HIDE DEF r
    <2>3. OneJob(j) /\ work'[j] = r
        BY <2>1, <2>2, WorkReplaced DEF CallerFacts
    <2>4. PermitsMove(k, Claim(work[j]) - Claim(r))
        <3>1. Claim(work[j]) - Claim(r) = 1
            BY <1>1, <2>2 DEF Claim
        <3>2. PermitsMove(k, 1)
            BY <1>4, <1>b DEF PermitsMove, ReleasePermit
        <3> QED
            BY <3>1, <3>2
    <2>5. MovesOn(j)
        BY <1>4, <1>c, <2>2, <2>3, <2>4 DEF MovesOn, Refusals
    <2> QED
        BY <1>1, <2>2, <2>3, <2>5 DEF CallerEffect
<1> QED
    BY <1>3, <1>4 DEF Activate

LEMMA CallerHas ==
    ASSUME CallerFacts, NEW j \in Jobs, Caller(j)
    PROVE  CallerEffect(j)
<1>1. CASE ReserveImmediateDeath(j) \/ ReservePortalOfLife(j)
    BY <1>1, NewWorks, ReserveEffect DEF ReserveImmediateDeath, ReservePortalOfLife
<1>2. CASE ReserveDeathPenaltyWork(j)
    <2> DEFINE w == WithHold(Reserved, "none", TRUE)
    <2>1. w \in Works /\ w.state = "reserved" /\ w.call = "none" /\ ~w.tried /\ w.results = 0
        BY NewWorks, HoldSet
    <2>2. w = [Reserved EXCEPT !.held = TRUE]
        BY NewWorks DEF WithHold, Works
    <2> HIDE DEF w
    <2> QED
        BY <1>2, <2>1, <2>2, ReserveEffect DEF ReserveDeathPenaltyWork
<1>3. CASE TrySubmit(j)
    BY <1>3, SubmitEffect
<1>4. CASE BeginPrepare(j) \/ HoldCharacter(j)
    BY <1>4, BeginPrepareEffect, HoldEffect
<1>5. CASE PrepareImmediateDeathWork(j) \/ PreparePortalOfLifeWork(j) \/ PrepareDeathPenaltyWork(j)
    BY <1>5, EndPrepareEffect
       DEF PrepareImmediateDeathWork, PreparePortalOfLifeWork, PrepareDeathPenaltyWork
<1>6. CASE ActivateImmediateDeathWork(j) \/ ActivatePortalOfLifeWork(j) \/ ActivateDeathPenaltyWork(j)
    BY <1>6, ActivateEffect
       DEF Refusals, ActivateImmediateDeathWork, ActivatePortalOfLifeWork, ActivateDeathPenaltyWork
<1>7. CASE CancelImmediateDeathWork(j) \/ CancelPortalOfLifeWork(j) \/ CancelDeathPenaltyWork(j)
    BY <1>7, CancelEffect DEF CancelImmediateDeathWork, CancelPortalOfLifeWork, CancelDeathPenaltyWork
<1> QED
    BY <1>1, <1>2, <1>3, <1>4, <1>5, <1>6, <1>7 DEF Caller

-----------------------------------------------------------------------------
(* What a goroutine's step does to the job it has in hand *)

(* The result is sent and the hand is empty.                                *)
Answers(t) ==
    LET j == thread[t].job
    IN /\ work'[j].results = work[j].results + 1
       /\ ~work'[j].held
       /\ thread'[t] = Idle \/ (t \in Workers /\ thread'[t] = Exited)
       /\ mail' = mail
       /\ thread[t].at # "waiting"

(* The job stays in hand, and what will be delivered is what was done.      *)
CarriesOn(t) ==
    LET j == thread[t].job
    IN /\ work'[j].results = work[j].results
       /\ thread'[t] \in Hands /\ thread'[t].job = j
       /\ thread'[t].at \in {"store", "deliver", "waiting"}
       /\ thread'[t].at = "store" => thread[t].at = "taken" /\ ~work'[j].tried
       /\ thread'[t].at \in {"deliver", "waiting"} => (work'[j].tried <=> thread'[t].what = "settled")
       /\ thread[t].at # "waiting"
       /\ \/ mail' = mail /\ thread'[t].at # "waiting"
          \/ mail' = Append(mail, t) /\ thread'[t].at = "waiting"

HandEffect(t) ==
    LET j == thread[t].job
    IN /\ UNCHANGED <<run, queue, owner, done, engine>>
       /\ Busy(t) /\ j \in Jobs
       /\ OneJob(j)
       /\ work'[j].state = work[j].state /\ work'[j].call = work[j].call
       /\ work'[j].held => work[j].held
       /\ work'[j].tried => work[j].tried \/ thread[t].at = "store"
       /\ work[j].tried => work'[j].tried
       /\ thread' \in [Threads -> {Idle, Exited} \cup Hands]
       /\ \A u \in Threads \ {t} : thread'[u] = thread[u]
       /\ Answers(t) \/ CarriesOn(t)
       /\ IF thread[t].at = "taken" THEN PermitsMove(Serves(t), 1) ELSE permits' = permits

HandFacts == TypeOK /\ JobsOrdered /\ HandsHoldOne

LEMMA HandTypes ==
    ASSUME TypeOK, NEW t \in Threads, Busy(t)
    PROVE  /\ thread[t] \in Hands /\ thread[t].job \in Jobs
           /\ thread[t].at \in {"taken", "store", "deliver", "waiting", "answered"}
           /\ thread[t].at \in {"deliver", "waiting", "answered"} =>
                  thread[t] \in Deliveries /\ thread[t].what \in {"settled", "let go"}
                  /\ thread[t].last \in BOOLEAN
<1>1. thread[t] \in {Idle, Exited} \cup Hands
    BY DEF TypeOK
<1>2. thread[t] \in Hands
    BY <1>1 DEF Busy, Idle, Exited
<1>3. CASE thread[t] \in [at: {"taken", "store"}, job: Jobs]
    BY <1>2, <1>3
<1>4. CASE thread[t] \in Deliveries
    BY <1>2, <1>4 DEF Deliveries
<1> QED
    BY <1>2, <1>3, <1>4 DEF Hands

LEMMA ThreadSet ==
    ASSUME TypeOK, NEW t \in Threads, NEW n \in {Idle, Exited} \cup Hands,
           thread' = [thread EXCEPT ![t] = n]
    PROVE  /\ thread' \in [Threads -> {Idle, Exited} \cup Hands]
           /\ thread'[t] = n /\ \A u \in Threads \ {t} : thread'[u] = thread[u]
BY DEF TypeOK

LEMMA NewHands ==
    ASSUME NEW j \in Jobs
    PROVE  /\ [at |-> "store", job |-> j] \in Hands
           /\ [at |-> "taken", job |-> j] \in Hands
           /\ \A w \in {"settled", "let go"}, l \in BOOLEAN :
                  [at |-> "deliver", job |-> j, what |-> w, last |-> l] \in Hands
BY DEF Hands, Deliveries

Delivered(d, a) == [d EXCEPT !.at = a]

LEMMA DeliverySet ==
    ASSUME NEW d \in Deliveries, NEW a \in {"waiting", "answered"}
    PROVE  LET n == Delivered(d, a)
           IN n \in Hands /\ n.at = a /\ n.job = d.job /\ n.what = d.what /\ n.last = d.last
BY DEF Hands, Deliveries, Delivered

(* Finishing a job sends its result and empties the hand.                   *)
WithAnswer(w, r) == [w EXCEPT !.results = r, !.held = FALSE]
WithRelease(w, b) == [w EXCEPT !.held = FALSE, !.tried = b]
WithTried(w, r) == [w EXCEPT !.held = FALSE, !.tried = TRUE, !.results = r]

LEMMA AnswerSet ==
    ASSUME NEW w \in Works, NEW r \in Nat
    PROVE  LET v == WithAnswer(w, r)
           IN v \in Works /\ v.state = w.state /\ v.call = w.call /\ ~v.held
              /\ v.tried = w.tried /\ v.results = r
BY DEF Works, WithAnswer

LEMMA ReleaseSet ==
    ASSUME NEW w \in Works, NEW b \in BOOLEAN
    PROVE  LET v == WithRelease(w, b)
           IN v \in Works /\ v.state = w.state /\ v.call = w.call /\ ~v.held
              /\ v.tried = b /\ v.results = w.results
BY DEF Works, WithRelease

LEMMA TriedSet ==
    ASSUME NEW w \in Works, NEW r \in Nat
    PROVE  LET v == WithTried(w, r)
           IN v \in Works /\ v.state = w.state /\ v.call = w.call /\ ~v.held
              /\ v.tried /\ v.results = r
BY DEF Works, WithTried

LEMMA FinishEffect ==
    ASSUME HandFacts, NEW t \in Threads, Busy(t), thread[t].at # "waiting",
           NEW n, n = Idle \/ (t \in Workers /\ n = Exited),
           Finish(t, thread[t].job, n),
           UNCHANGED <<run, queue, owner, done, engine, mail>>,
           IF thread[t].at = "taken" THEN PermitsMove(Serves(t), 1) ELSE permits' = permits
    PROVE  HandEffect(t)
<1> DEFINE j == thread[t].job
           v == WithAnswer(work[j], work[j].results + 1)
<1>1. j \in Jobs /\ work \in [Jobs -> Works] /\ work[j] \in Works
    BY HandTypes DEF HandFacts, TypeOK
<1>2. work[j].results \in Nat
    BY <1>1, WorkFields
<1>3. work' = [work EXCEPT ![j] = v]
    BY <1>1 DEF Finish, WithAnswer
<1>4. /\ v \in Works /\ v.state = work[j].state /\ v.call = work[j].call /\ ~v.held
      /\ v.tried = work[j].tried /\ v.results = work[j].results + 1
    <2>1. /\ v \in Works /\ v.state = work[j].state /\ v.call = work[j].call /\ ~v.held
          /\ v.tried = work[j].tried /\ v.results = work[j].results + 1
        <3>1. work[j].results + 1 \in Nat
            BY <1>2
        <3> QED
            BY <1>1, <3>1, AnswerSet, Zenon
    <2> QED
        BY <2>1
<1> HIDE DEF v
<1>5. OneJob(j) /\ work'[j] = v
    BY <1>1, <1>3, <1>4, WorkReplaced DEF HandFacts
<1>6. thread' = [thread EXCEPT ![t] = n]
    BY DEF Finish
<1>7. thread' \in [Threads -> {Idle, Exited} \cup Hands] /\ thread'[t] = n
      /\ \A u \in Threads \ {t} : thread'[u] = thread[u]
    BY <1>6, ThreadSet DEF HandFacts
<1>8. Answers(t)
    BY <1>4, <1>5, <1>7 DEF Answers
<1> QED
    BY <1>1, <1>4, <1>5, <1>7, <1>8 DEF HandEffect

(* A job stays in hand.                                                     *)
Stays(t, v, n) ==
    LET j == thread[t].job
    IN /\ v \in Works /\ n \in Hands
       /\ work' = [work EXCEPT ![j] = v] /\ thread' = [thread EXCEPT ![t] = n]
       /\ v.state = work[j].state /\ v.call = work[j].call /\ v.results = work[j].results
       /\ v.held => work[j].held
       /\ v.tried => work[j].tried \/ thread[t].at = "store"
       /\ work[j].tried => v.tried
       /\ n.job = j /\ n.at \in {"store", "deliver", "waiting"}
       /\ n.at = "store" => thread[t].at = "taken" /\ ~v.tried
       /\ n.at \in {"deliver", "waiting"} => (v.tried <=> n.what = "settled")
       /\ thread[t].at # "waiting"
       /\ \/ mail' = mail /\ n.at # "waiting"
          \/ mail' = Append(mail, t) /\ n.at = "waiting"

LEMMA StayEffect ==
    ASSUME HandFacts, NEW t \in Threads, Busy(t), NEW v, NEW n, Stays(t, v, n),
           UNCHANGED <<run, queue, owner, done, engine>>,
           IF thread[t].at = "taken" THEN PermitsMove(Serves(t), 1) ELSE permits' = permits
    PROVE  HandEffect(t)
<1> DEFINE j == thread[t].job
<1>1. j \in Jobs
    BY HandTypes DEF HandFacts
<1>2. OneJob(j) /\ work'[j] = v
    BY <1>1, WorkReplaced DEF HandFacts, Stays
<1>3. thread' \in [Threads -> {Idle, Exited} \cup Hands] /\ thread'[t] = n
      /\ \A u \in Threads \ {t} : thread'[u] = thread[u]
    BY ThreadSet DEF HandFacts, Stays
<1>4. CarriesOn(t)
    BY <1>2, <1>3 DEF CarriesOn, Stays
<1> QED
    BY <1>1, <1>2, <1>3, <1>4 DEF HandEffect, Stays

LEMMA InHandFacts ==
    ASSUME HandFacts, NEW t \in Threads, Busy(t)
    PROVE  LET j == thread[t].job
           IN /\ j \in Jobs /\ work \in [Jobs -> Works] /\ work[j] \in Works
              /\ thread[t].at \in {"taken", "store"} => ~work[j].tried
              /\ thread[t].at \in {"deliver", "waiting", "answered"} =>
                     (work[j].tried <=> thread[t].what = "settled")
BY HandTypes DEF HandFacts, TypeOK, HandsHoldOne, Waits

LEMMA GiveBackEffect ==
    ASSUME HandFacts, NEW t \in Threads, GiveBack(t)
    PROVE  HandEffect(t)
<1> DEFINE j == thread[t].job
<1>1. Busy(t) /\ thread[t].at = "taken" /\ UNCHANGED <<run, queue, owner, done, engine, mail>>
    BY DEF GiveBack, Busy
<1>2. j \in Jobs /\ work \in [Jobs -> Works] /\ work[j] \in Works /\ ~work[j].tried
    BY <1>1, InHandFacts
<1>3. PermitsMove(Serves(t), 1)
    <2>1. permits \in [Kinds -> Int] /\ Serves(t) \in Kinds
        BY Constants DEF HandFacts, TypeOK
    <2>2. permits' = [permits EXCEPT ![Serves(t)] = @ + 1]
        BY DEF GiveBack, ReleasePermit
    <2> QED
        BY <2>1, <2>2 DEF PermitsMove
<1>4. CASE thread' = [thread EXCEPT ![t] = [at |-> "store", job |-> j]] /\ work' = work
    <2>1. work' = [work EXCEPT ![j] = work[j]]
        BY <1>2, <1>4
    <2> DEFINE n == [at |-> "store", job |-> j]
    <2>2. n \in Hands /\ n.at = "store" /\ n.job = j
        BY <1>2, NewHands
    <2> HIDE DEF n
    <2>3. Stays(t, work[j], n)
        BY <1>1, <1>2, <1>4, <2>1, <2>2 DEF Stays, n
    <2> QED
        BY <1>1, <1>3, <2>3, StayEffect
<1>5. CASE Finish(t, j, IF t \in Workers THEN [at |-> "exited"] ELSE Idle)
    <2>1. PICK n : Finish(t, j, n) /\ (n = Idle \/ (t \in Workers /\ n = Exited))
        BY <1>5 DEF Exited
    <2> QED
        BY <1>1, <1>3, <2>1, FinishEffect
<1>6. CASE /\ work' = [work EXCEPT ![j].held = FALSE]
           /\ thread' = [thread EXCEPT ![t] =
                  [at |-> "deliver", job |-> j, what |-> "let go", last |-> TRUE]]
    <2> DEFINE n == [at |-> "deliver", job |-> j, what |-> "let go", last |-> TRUE]
               v == WithRelease(work[j], work[j].tried)
    <2>1. n \in Hands /\ n.at = "deliver" /\ n.job = j /\ n.what = "let go"
        BY <1>2, NewHands
    <2>2. work' = [work EXCEPT ![j] = v]
        BY <1>2, <1>6 DEF WithRelease, Works
    <2>3. /\ v \in Works /\ v.state = work[j].state /\ v.call = work[j].call /\ ~v.held
          /\ v.tried = work[j].tried /\ v.results = work[j].results
        BY <1>2, WorkFields, ReleaseSet
    <2> HIDE DEF n, v
    <2>4. Stays(t, v, n)
        BY <1>1, <1>2, <1>6, <2>1, <2>2, <2>3 DEF Stays, n
    <2> QED
        BY <1>1, <1>3, <2>4, StayEffect
<1> QED
    BY <1>4, <1>5, <1>6 DEF GiveBack

LEMMA StoreDeathEffect ==
    ASSUME HandFacts, NEW t \in Threads, StoreDeath(t)
    PROVE  HandEffect(t)
<1> DEFINE j == thread[t].job
<1>1. Busy(t) /\ thread[t].at = "store" /\ UNCHANGED <<run, permits, queue, owner, done, engine, mail>>
    BY DEF StoreDeath, Busy
<1>2. j \in Jobs /\ work \in [Jobs -> Works] /\ work[j] \in Works
    BY <1>1, InHandFacts
<1>3. CASE work' = [work EXCEPT ![j].tried = TRUE] /\ Delivers(t, j, "settled")
    <2> DEFINE n == [at |-> "deliver", job |-> j, what |-> "settled", last |-> FALSE]
               v == [work[j] EXCEPT !.tried = TRUE]
    <2>1. n \in Hands /\ n.at = "deliver" /\ n.job = j /\ n.what = "settled"
        BY <1>2, NewHands
    <2>2. work' = [work EXCEPT ![j] = v]
        BY <1>2, <1>3
    <2>3. /\ v \in Works /\ v.state = work[j].state /\ v.call = work[j].call /\ v.held = work[j].held
          /\ v.tried /\ v.results = work[j].results
        BY <1>2 DEF Works
    <2>4. thread' = [thread EXCEPT ![t] = n]
        BY <1>3 DEF Delivers
    <2> HIDE DEF n, v
    <2>5. Stays(t, v, n)
        BY <1>1, <1>2, <2>1, <2>2, <2>3, <2>4 DEF Stays
    <2> QED
        BY <1>1, <2>5, StayEffect
<1>4. CASE Finish(t, j, Idle)
    BY <1>1, <1>4, FinishEffect
<1> QED
    BY <1>3, <1>4 DEF StoreDeath

LEMMA StoreReservedEffect ==
    ASSUME HandFacts, NEW t \in Threads, StoreReserved(t)
    PROVE  HandEffect(t)
<1> DEFINE j == thread[t].job
<1>1. Busy(t) /\ thread[t].at = "store" /\ UNCHANGED <<run, permits, queue, owner, done, engine, mail>>
    BY DEF StoreReserved, Busy
<1>2. j \in Jobs /\ work \in [Jobs -> Works] /\ work[j] \in Works /\ ~work[j].tried
    BY <1>1, InHandFacts
<1>3. ASSUME NEW b \in BOOLEAN, NEW what, what = IF b THEN "settled" ELSE "let go",
             work' = [work EXCEPT ![j] = WithRelease(work[j], b)],
             Delivers(t, j, what)
      PROVE  HandEffect(t)
    <2> DEFINE n == [at |-> "deliver", job |-> j, what |-> what, last |-> FALSE]
               v == WithRelease(work[j], b)
    <2>1. n \in Hands /\ n.at = "deliver" /\ n.job = j /\ n.what = what
        BY <1>2, <1>3, NewHands
    <2>2. /\ v \in Works /\ v.state = work[j].state /\ v.call = work[j].call /\ ~v.held
          /\ v.tried = b /\ v.results = work[j].results
        BY <1>2, ReleaseSet
    <2>3. work' = [work EXCEPT ![j] = v] /\ thread' = [thread EXCEPT ![t] = n]
        BY <1>3 DEF Delivers
    <2> HIDE DEF n, v
    <2>4. Stays(t, v, n)
        BY <1>1, <1>2, <1>3, <2>1, <2>2, <2>3 DEF Stays
    <2> QED
        BY <1>1, <2>4, StayEffect
<1>4. CASE /\ work' = [[work EXCEPT ![j].held = FALSE] EXCEPT ![j].tried = TRUE]
           /\ Delivers(t, j, "settled")
    <2>1. work' = [work EXCEPT ![j] = WithRelease(work[j], TRUE)]
        BY <1>2, <1>4 DEF WithRelease
    <2> QED
        BY <1>3, <1>4, <2>1
<1>5. CASE /\ work' = [work EXCEPT ![j].held = FALSE]
           /\ Delivers(t, j, "let go")
    <2>1. work' = [work EXCEPT ![j] = WithRelease(work[j], FALSE)]
        BY <1>2, <1>5 DEF WithRelease, Works
    <2> QED
        BY <1>3, <1>5, <2>1
<1>6. CASE /\ work' = [[work EXCEPT ![j].held = FALSE]
                           EXCEPT ![j].tried = TRUE, ![j].results = @ + 1]
           /\ thread' = [thread EXCEPT ![t] = Idle]
    <2> DEFINE v == WithTried(work[j], work[j].results + 1)
    <2>1. work' = [work EXCEPT ![j] = v]
        BY <1>2, <1>6 DEF WithTried
    <2>2. /\ v \in Works /\ v.state = work[j].state /\ v.call = work[j].call /\ ~v.held
          /\ v.tried /\ v.results = work[j].results + 1
        <3>1. work[j].results + 1 \in Nat
            BY <1>2, WorkFields
        <3> QED
            BY <1>2, <3>1, TriedSet, Zenon
    <2> HIDE DEF v
    <2>3. OneJob(j) /\ work'[j] = v
        BY <1>2, <2>1, <2>2, WorkReplaced DEF HandFacts
    <2>4. /\ thread' \in [Threads -> {Idle, Exited} \cup Hands] /\ thread'[t] = Idle
          /\ \A u \in Threads \ {t} : thread'[u] = thread[u]
        BY <1>6, ThreadSet DEF HandFacts
    <2>5. Answers(t)
        BY <1>1, <2>2, <2>3, <2>4 DEF Answers
    <2> QED
        BY <1>1, <1>2, <2>2, <2>3, <2>4, <2>5 DEF HandEffect
<1> QED
    BY <1>4, <1>5, <1>6 DEF StoreReserved

LEMMA EnqueueEffect ==
    ASSUME HandFacts, NEW t \in Threads, thread[t].at = "deliver", Enqueues(t)
    PROVE  HandEffect(t)
<1> DEFINE j == thread[t].job
           n == Delivered(thread[t], "waiting")
<1>1. Busy(t) /\ UNCHANGED <<run, permits, queue, work, owner, done, engine>> /\ mail' = Append(mail, t)
    BY DEF Enqueues, admit, Busy
<1>2. /\ j \in Jobs /\ work \in [Jobs -> Works] /\ work[j] \in Works
      /\ work[j].tried <=> thread[t].what = "settled"
    BY <1>1, InHandFacts
<1>3. n \in Hands /\ n.at = "waiting" /\ n.job = j /\ n.what = thread[t].what
    BY <1>1, HandTypes, DeliverySet DEF HandFacts
<1>4. work' = [work EXCEPT ![j] = work[j]]
    BY <1>1, <1>2
<1>5. thread' = [thread EXCEPT ![t] = n]
    BY DEF Enqueues, Delivered, HandFacts, TypeOK
<1> HIDE DEF n
<1>6. Stays(t, work[j], n)
    BY <1>1, <1>2, <1>3, <1>4, <1>5 DEF Stays
<1> QED
    BY <1>1, <1>6, StayEffect

LEMMA GiveUpEffect ==
    ASSUME HandFacts, NEW t \in Threads, thread[t].at \in {"deliver", "answered"},
           Finish(t, thread[t].job, After(t)),
           UNCHANGED <<run, permits, queue, owner, done, engine, mail>>
    PROVE  HandEffect(t)
<1>1. Busy(t)
    BY DEF Busy
<1>2. After(t) = Idle \/ (t \in Workers /\ After(t) = Exited)
    BY DEF After, Exited
<1> QED
    BY <1>1, <1>2, FinishEffect

LEMMA ThreadHas ==
    ASSUME HandFacts, NEW t \in Threads, Thread(t), ~Take(t)
    PROVE  HandEffect(t)
<1>1. CASE GiveBack(t)
    BY <1>1, GiveBackEffect
<1>2. CASE StoreDeath(t)
    BY <1>2, StoreDeathEffect
<1>3. CASE StorePortal(t) \/ StorePenalty(t)
    BY <1>3, StoreReservedEffect DEF StorePortal, StorePenalty
<1>4. CASE DeliverDeath(t) \/ DeliverPortal(t) \/ DeliverPenalty(t)
    BY <1>4, EnqueueEffect, GiveUpEffect DEF DeliverDeath, DeliverPortal, DeliverPenalty, Deliver, GivesUp
<1>5. CASE deliverAbort(t) \/ deliverRetryable(t)
    BY <1>5, EnqueueEffect, GiveUpEffect DEF deliverAbort, deliverRetryable, DeliverLetGo, GivesUp
<1>6. CASE Answered(t)
    BY <1>6, GiveUpEffect DEF Answered
<1> QED
    BY <1>1, <1>2, <1>3, <1>4, <1>5, <1>6 DEF Thread

-----------------------------------------------------------------------------
(* Queues *)

LEMMA QueueAppended ==
    ASSUME TypeOK, NEW k \in Kinds, NEW j \in Jobs, queue' = [queue EXCEPT ![k] = Append(@, j)]
    PROVE  /\ queue' \in [Kinds -> Seq(Jobs)]
           /\ \A h \in Kinds \ {k} : queue'[h] = queue[h]
           /\ Len(queue[k]) \in Nat /\ Len(queue'[k]) = Len(queue[k]) + 1
           /\ \A i \in 1..Len(queue[k]) : queue'[k][i] = queue[k][i] /\ queue[k][i] \in Jobs
           /\ queue'[k][Len(queue[k]) + 1] = j
<1>1. queue \in [Kinds -> Seq(Jobs)] /\ queue[k] \in Seq(Jobs)
    BY DEF TypeOK
<1>2. queue'[k] = Append(queue[k], j) /\ \A h \in Kinds \ {k} : queue'[h] = queue[h]
    BY <1>1
<1>3. Append(queue[k], j) \in Seq(Jobs)
    BY <1>1
<1>4. queue' \in [Kinds -> Seq(Jobs)]
    BY <1>1, <1>3
<1> QED
    BY <1>1, <1>2, <1>4

LEMMA QueueTaken ==
    ASSUME TypeOK, NEW k \in Kinds, queue[k] # <<>>, queue' = [queue EXCEPT ![k] = Tail(@)]
    PROVE  /\ queue' \in [Kinds -> Seq(Jobs)]
           /\ \A h \in Kinds \ {k} : queue'[h] = queue[h]
           /\ Len(queue[k]) \in Nat \ {0} /\ Len(queue'[k]) = Len(queue[k]) - 1
           /\ \A i \in 1..(Len(queue[k]) - 1) : queue'[k][i] = queue[k][i + 1]
           /\ Head(queue[k]) = queue[k][1] /\ Head(queue[k]) \in Jobs
<1>1. queue \in [Kinds -> Seq(Jobs)] /\ queue[k] \in Seq(Jobs)
    BY DEF TypeOK
<1>2. queue'[k] = Tail(queue[k]) /\ \A h \in Kinds \ {k} : queue'[h] = queue[h]
    BY <1>1
<1>3. /\ Tail(queue[k]) \in Seq(Jobs) /\ Len(Tail(queue[k])) = Len(queue[k]) - 1
      /\ \A i \in 1..(Len(queue[k]) - 1) : Tail(queue[k])[i] = queue[k][i + 1]
      /\ Len(queue[k]) \in Nat \ {0} /\ Head(queue[k]) = queue[k][1] /\ Head(queue[k]) \in Jobs
    BY <1>1
<1>4. queue' \in [Kinds -> Seq(Jobs)]
    BY <1>1, <1>2, <1>3
<1> QED
    BY <1>2, <1>3, <1>4

LEMMA QueuedJobs ==
    ASSUME TypeOK, QueuesHoldWaiting, NEW k \in Kinds, NEW i \in 1..Len(queue[k])
    PROVE  /\ queue[k][i] \in Jobs /\ KindOf[queue[k][i]] = k /\ Waits(queue[k][i])
           /\ \A h \in 1..Len(queue[k]) : queue[k][h] = queue[k][i] => h = i
<1>1. queue[k] \in Seq(Jobs)
    BY DEF TypeOK
<1> QED
    BY <1>1 DEF QueuesHoldWaiting

-----------------------------------------------------------------------------
(* The places of jobs under a caller's step *)

LEMMA CallerPlaces ==
    ASSUME Placed, NEW j \in Jobs, CallerEffect(j)
    PROVE  Placed'
<1> DEFINE k == KindOf[j]
<1> USE DEF Placed
<1>1. k \in Kinds /\ OneJob(j) /\ UNCHANGED <<thread, done, engine, mail, run>>
    BY Constants DEF CallerEffect
<1>2. \A i \in Jobs \ {j} : owner'[i] = owner[i] /\ work'[i] = work[i]
    <2>1. CASE MovesOn(j)
        BY <1>1, <2>1 DEF MovesOn, OneJob
    <2>2. CASE IsQueued(j)
        BY <1>1, <2>2 DEF IsQueued, OneJob, TypeOK
    <2> QED
        BY <2>1, <2>2 DEF CallerEffect
<1>3. \/ queue' = queue
      \/ queue' = [queue EXCEPT ![k] = Append(@, j)] /\ Running(k) /\ WaitsNext(j)
    <2>1. CASE IsQueued(j)
        <3>1. owner'[j] = "waiting"
            BY <2>1 DEF IsQueued, TypeOK
        <3> QED
            BY <2>1, <3>1 DEF IsQueued, WaitsNext, CallerEffect
    <2> QED
        BY <2>1 DEF MovesOn, CallerEffect
<1>4. TypeOK'
    <2>1. owner' \in [Jobs -> {"none", "waiting", "let go", "settled"}]
        BY DEF CallerEffect, MovesOn, IsQueued, TypeOK
    <2>2. permits' \in [Kinds -> Int]
        BY DEF CallerEffect, MovesOn, IsQueued, PermitsMove
    <2>3. queue' \in [Kinds -> Seq(Jobs)]
        BY <1>1, <1>3, QueueAppended DEF TypeOK
    <2> QED
        BY <1>1, <2>1, <2>2, <2>3 DEF TypeOK, OneJob
<1>5. JobsOrdered'
    <2>1. work'[j].state # "activated" => owner'[j] = "none"
        BY DEF CallerEffect, MovesOn, IsQueued
    <2> QED
        BY <1>2, <2>1 DEF JobsOrdered, CallerEffect
<1>6. work[j].state # "activated"
    BY DEF CallerEffect
<1>7. \A i \in Jobs : Waits(i) => i # j /\ WaitsNext(i)
    BY <1>2, <1>6 DEF Waits, WaitsNext
<1>8. \A i \in Jobs \ {j} : QueuedNext(i) <=> Queued(i)
    <2>1. CASE queue' = queue
        BY <2>1 DEF Queued, QueuedNext
    <2>2. CASE queue' = [queue EXCEPT ![k] = Append(@, j)]
        BY <1>1, <2>2, QueueAppended, Constants DEF Queued, QueuedNext
    <2> QED
        BY <1>3, <2>1, <2>2
<1>9. QueuesHoldWaiting'
    <2> SUFFICES ASSUME NEW h \in Kinds, NEW i \in 1..Len(queue'[h])
                 PROVE  /\ KindOf[queue'[h][i]] = h
                        /\ WaitsNext(queue'[h][i])
                        /\ \A g \in 1..Len(queue'[h]) : queue'[h][g] = queue'[h][i] => g = i
        BY DEF QueuesHoldWaiting, Waits, WaitsNext
    <2>1. CASE queue'[h] = queue[h]
        BY <1>7, <2>1, QueuedJobs
    <2>2. CASE h = k /\ queue' = [queue EXCEPT ![k] = Append(@, j)]
        <3>1. \A g \in 1..Len(queue[k]) : queue[k][g] \in Jobs /\ queue[k][g] # j
            BY <1>1, <1>7, QueuedJobs
        <3>2. CASE i = Len(queue[k]) + 1
            BY <1>1, <1>3, <2>2, <3>1, <3>2, QueueAppended
        <3>3. CASE i # Len(queue[k]) + 1
            <4>1. i \in 1..Len(queue[k]) /\ queue'[h][i] = queue[k][i]
                BY <1>1, <2>2, <3>3, QueueAppended
            <4>2. /\ KindOf[queue[k][i]] = k /\ WaitsNext(queue[k][i])
                  /\ \A g \in 1..Len(queue[k]) : queue[k][g] = queue[k][i] => g = i
                BY <1>1, <1>7, <4>1, QueuedJobs
            <4>3. \A g \in 1..Len(queue'[h]) : queue'[h][g] = queue'[h][i] => g = i
                BY <1>1, <2>2, <3>1, <4>1, <4>2, QueueAppended
            <4> QED
                BY <2>2, <4>1, <4>2, <4>3
        <3> QED
            BY <3>2, <3>3
    <2> QED
        BY <1>1, <1>3, <2>1, <2>2, QueueAppended
<1>10. HandsHoldOne'
    <2> SUFFICES ASSUME NEW t \in Threads, Busy(t)
                 PROVE  LET i == thread[t].job
                        IN /\ KindOf[i] = Serves(t)
                           /\ ~QueuedNext(i)
                           /\ \A u \in Threads : Busy(u) /\ thread[u].job = i => u = t
                           /\ work'[i].state = "activated" /\ work'[i].results = 0
                           /\ thread[t].at \in {"taken", "store"} => WaitsNext(i)
                           /\ thread[t].at \in {"deliver", "waiting", "answered"} =>
                                  (work'[i].tried <=> thread[t].what = "settled")
        BY <1>1 DEF HandsHoldOne, Busy, Queued, QueuedNext, Waits, WaitsNext
    <2>1. thread[t].job \in Jobs /\ thread[t].job # j
        BY <1>6, HandTypes DEF HandsHoldOne
    <2> QED
        BY <1>2, <1>7, <1>8, <2>1 DEF HandsHoldOne
<1>11. NoneMissing'
    <2> SUFFICES ASSUME NEW i \in Jobs, work'[i].state = "activated", work'[i].results = 0
                 PROVE  Queued(i)' \/ InHand(i)'
        BY DEF NoneMissing
    <2>1. CASE i = j
        <3>1. MovesOn(j) => work'[j].results = 1
            BY <2>1 DEF MovesOn
        <3>2. ~MovesOn(j)
            BY <2>1, <3>1
        <3>3. queue' = [queue EXCEPT ![k] = Append(@, j)]
            BY <3>2 DEF CallerEffect, IsQueued
        <3>4. queue'[k][Len(queue[k]) + 1] = j /\ Len(queue[k]) + 1 \in 1..Len(queue'[k])
            <4>1. /\ queue'[k][Len(queue[k]) + 1] = j /\ Len(queue[k]) \in Nat
                  /\ Len(queue'[k]) = Len(queue[k]) + 1
                BY <1>1, <3>3, QueueAppended
            <4> QED
                BY <4>1
        <3> QED
            BY <2>1, <3>4 DEF Queued
    <2>2. CASE i # j
        <3>1. Queued(i) \/ InHand(i)
            BY <1>2, <2>2 DEF NoneMissing
        <3>2. Queued(i) => QueuedNext(i)
            BY <1>8, <2>2
        <3> QED
            BY <1>1, <3>1, <3>2 DEF InHand, Busy, Queued, QueuedNext
    <2> QED
        BY <2>1, <2>2
<1>12. MailHoldsWaiting'
    BY <1>1 DEF MailHoldsWaiting
<1>13. ReturnedIsEmpty'
    BY <1>1, <1>3, QueueAppended DEF ReturnedIsEmpty, Running
<1>14. LetGoOnlyUntried'
    <2>1. owner'[j] # "settled" /\ ~work'[j].tried
        BY DEF CallerEffect, MovesOn, IsQueued, TypeOK
    <2> QED
        BY <1>2, <2>1 DEF LetGoOnlyUntried
<1> QED
    BY <1>4, <1>5, <1>9, <1>10, <1>11, <1>12, <1>13, <1>14

-----------------------------------------------------------------------------
(* The places of jobs when a goroutine takes one *)

LEMMA TakePlaces ==
    ASSUME Placed, NEW t \in Threads, Take(t)
    PROVE  Placed'
<1> DEFINE k == Serves(t)
           j == queue[k][1]
<1> USE DEF Placed
<1>1. /\ k \in Kinds /\ thread[t] = Idle /\ queue[k] # <<>>
      /\ queue' = [queue EXCEPT ![k] = Tail(@)]
      /\ t \in Kinds => run[t] = "draining"
      /\ UNCHANGED <<run, permits, work, owner, done, engine, mail>>
    BY Constants DEF Take, Serves
<1>2. /\ queue' \in [Kinds -> Seq(Jobs)]
      /\ \A h \in Kinds \ {k} : queue'[h] = queue[h]
      /\ Len(queue[k]) \in Nat \ {0} /\ Len(queue'[k]) = Len(queue[k]) - 1
      /\ \A i \in 1..(Len(queue[k]) - 1) : queue'[k][i] = queue[k][i + 1]
      /\ Head(queue[k]) = j /\ j \in Jobs
    BY <1>1, QueueTaken
<1>3. /\ KindOf[j] = k /\ Waits(j)
      /\ \A h \in 1..Len(queue[k]) : queue[k][h] = j => h = 1
    BY <1>1, <1>2, QueuedJobs
<1>4. thread' = [thread EXCEPT ![t] = [at |-> "taken", job |-> j]]
    BY <1>2 DEF Take
<1>5. /\ thread' \in [Threads -> {Idle, Exited} \cup Hands]
      /\ thread'[t] = [at |-> "taken", job |-> j]
      /\ \A u \in Threads \ {t} : thread'[u] = thread[u]
    BY <1>2, <1>4, NewHands, ThreadSet
<1>6. TypeOK'
    BY <1>1, <1>2, <1>5 DEF TypeOK
<1>7. JobsOrdered' /\ LetGoOnlyUntried'
    BY <1>1 DEF JobsOrdered, LetGoOnlyUntried
<1>8. \A i \in Jobs : QueuedNext(i) <=> Queued(i) /\ i # j
    <2> TAKE i \in Jobs
    <2>1. CASE KindOf[i] # k
        BY <1>2, <1>3, <2>1, Constants DEF Queued, QueuedNext
    <2>2. CASE KindOf[i] = k
        <3>1. ASSUME QueuedNext(i) PROVE Queued(i) /\ i # j
            <4>1. PICK g \in 1..(Len(queue[k]) - 1) : queue'[k][g] = i
                BY <1>2, <2>2, <3>1 DEF QueuedNext
            <4>2. queue[k][g + 1] = i /\ g + 1 \in 1..Len(queue[k]) /\ g + 1 # 1
                BY <1>2, <4>1
            <4> QED
                BY <1>3, <2>2, <4>2 DEF Queued
        <3>2. ASSUME Queued(i), i # j PROVE QueuedNext(i)
            <4>1. PICK g \in 1..Len(queue[k]) : queue[k][g] = i
                BY <2>2, <3>2 DEF Queued
            <4>2. g # 1
                BY <3>2, <4>1
            <4>3. g - 1 \in 1..(Len(queue[k]) - 1) /\ (g - 1) + 1 = g
                BY <1>2, <4>2
            <4>4. queue'[k][g - 1] = i /\ g - 1 \in 1..Len(queue'[k])
                BY <1>2, <4>1, <4>3
            <4> QED
                BY <2>2, <4>4 DEF QueuedNext
        <3> QED
            BY <3>1, <3>2
    <2> QED
        BY <2>1, <2>2
<1>9. QueuesHoldWaiting'
    <2> SUFFICES ASSUME NEW h \in Kinds, NEW i \in 1..Len(queue'[h])
                 PROVE  /\ KindOf[queue'[h][i]] = h
                        /\ WaitsNext(queue'[h][i])
                        /\ \A g \in 1..Len(queue'[h]) : queue'[h][g] = queue'[h][i] => g = i
        BY DEF QueuesHoldWaiting, Waits, WaitsNext
    <2>0. \A x \in Jobs : Waits(x) => WaitsNext(x)
        BY <1>1 DEF Waits, WaitsNext
    <2>1. CASE h # k
        BY <1>2, <2>0, <2>1, QueuedJobs
    <2>2. CASE h = k
        <3>1. i \in 1..(Len(queue[k]) - 1) /\ i + 1 \in 1..Len(queue[k]) /\ queue'[h][i] = queue[k][i + 1]
            BY <1>2, <2>2
        <3>2. /\ queue[k][i + 1] \in Jobs /\ KindOf[queue[k][i + 1]] = k /\ Waits(queue[k][i + 1])
              /\ \A g \in 1..Len(queue[k]) : queue[k][g] = queue[k][i + 1] => g = i + 1
            BY <1>1, <3>1, QueuedJobs
        <3>3. ASSUME NEW g \in 1..Len(queue'[h]), queue'[h][g] = queue'[h][i]
              PROVE  g = i
            <4>1. g \in 1..(Len(queue[k]) - 1) /\ g + 1 \in 1..Len(queue[k]) /\ queue'[h][g] = queue[k][g + 1]
                BY <1>2, <2>2
            <4>2. g + 1 = i + 1
                BY <3>1, <3>2, <3>3, <4>1
            <4> QED
                BY <3>1, <4>1, <4>2
        <3> QED
            BY <2>0, <2>2, <3>1, <3>2, <3>3
    <2> QED
        BY <2>1, <2>2
<1>10. \A u \in Threads : Busy(u) => thread[u].job # j
    <2>1. Queued(j)
        BY <1>2, <1>3 DEF Queued
    <2> QED
        BY <2>1 DEF HandsHoldOne
<1>11. ~Busy(t) /\ thread'[t].at = "taken" /\ thread'[t].job = j
    BY <1>1, <1>5 DEF Busy, Idle
<1>12. HandsHoldOne'
    <2> SUFFICES ASSUME NEW u \in Threads, Busy(u)'
                 PROVE  LET i == thread'[u].job
                        IN /\ KindOf[i] = Serves(u)
                           /\ ~QueuedNext(i)
                           /\ \A s \in Threads : Busy(s)' /\ thread'[s].job = i => s = u
                           /\ work[i].state = "activated" /\ work[i].results = 0
                           /\ thread'[u].at \in {"taken", "store"} => Waits(i)
                           /\ thread'[u].at \in {"deliver", "waiting", "answered"} =>
                                  (work[i].tried <=> thread'[u].what = "settled")
        BY <1>1 DEF HandsHoldOne, Queued, QueuedNext, Waits
    <2>1. CASE u = t
        <3>1. ASSUME NEW s \in Threads, Busy(s)', thread'[s].job = j PROVE s = t
            BY <1>5, <1>10, <3>1 DEF Busy
        <3> QED
            BY <1>2, <1>3, <1>8, <1>11, <2>1, <3>1 DEF Waits
    <2>2. CASE u # t
        <3>1. thread'[u] = thread[u] /\ Busy(u) /\ thread[u].job # j /\ thread[u].job \in Jobs
            BY <1>5, <1>10, <2>2, HandTypes DEF Busy
        <3>2. ASSUME NEW s \in Threads, Busy(s)', thread'[s].job = thread[u].job PROVE s = u
            <4>1. s # t
                BY <1>11, <3>1, <3>2
            <4> QED
                BY <1>5, <3>1, <3>2, <4>1 DEF HandsHoldOne, Busy
        <3> QED
            BY <1>8, <3>1, <3>2 DEF HandsHoldOne
    <2> QED
        BY <2>1, <2>2
<1>13. NoneMissing'
    <2> SUFFICES ASSUME NEW i \in Jobs, work[i].state = "activated", work[i].results = 0
                 PROVE  QueuedNext(i) \/ InHand(i)'
        BY <1>1 DEF NoneMissing, Queued, QueuedNext
    <2>1. CASE i = j
        BY <1>11, <2>1 DEF InHand, Busy
    <2>2. CASE i # j /\ Queued(i)
        BY <1>8, <2>2
    <2>3. CASE InHand(i)
        BY <1>5, <1>11, <2>3 DEF InHand, Busy
    <2> QED
        BY <2>1, <2>2, <2>3 DEF NoneMissing
<1>14. MailHoldsWaiting'
    <2>1. mail \in Seq(Threads)
        BY DEF TypeOK
    <2>2. \A i \in 1..Len(mail) : mail[i] \in Threads
        BY <2>1
    <2> QED
        BY <1>1, <1>5, <2>2 DEF MailHoldsWaiting, Idle
<1>15. ReturnedIsEmpty'
    <2>1. run[k] # "returned"
        BY <1>1 DEF ReturnedIsEmpty
    <2>2. \A w \in Workers : thread'[w] # thread[w] => w = t
        BY <1>5 DEF Threads
    <2>3. \A h \in Kinds \ {k} : thread'[h] = thread[h]
        BY <1>1, <1>5, Constants DEF Threads, Serves
    <2>4. \A w \in Workers : WorkerOf[w] # k => thread'[w] = thread[w]
        BY <1>1, <1>5, <2>2 DEF Serves
    <2> QED
        BY <1>1, <1>2, <2>1, <2>3, <2>4 DEF ReturnedIsEmpty
<1> QED
    BY <1>6, <1>7, <1>9, <1>12, <1>13, <1>14, <1>15

-----------------------------------------------------------------------------
(* The places of jobs when a goroutine works on one *)

LEMMA HandPlaces ==
    ASSUME Placed, NEW t \in Threads, HandEffect(t)
    PROVE  Placed'
<1> DEFINE j == thread[t].job
<1> USE DEF Placed
<1>1. /\ UNCHANGED <<run, queue, owner, done, engine>>
      /\ Busy(t) /\ j \in Jobs
      /\ \A i \in Jobs \ {j} : work'[i] = work[i]
      /\ work'[j].state = work[j].state /\ work'[j].call = work[j].call
      /\ thread' \in [Threads -> {Idle, Exited} \cup Hands]
      /\ \A u \in Threads \ {t} : thread'[u] = thread[u]
      /\ Answers(t) \/ CarriesOn(t)
    BY DEF HandEffect, OneJob
<1>2. /\ KindOf[j] = Serves(t) /\ ~Queued(j)
      /\ \A u \in Threads : Busy(u) /\ thread[u].job = j => u = t
      /\ work[j].state = "activated" /\ work[j].results = 0
      /\ thread[t].at \in {"taken", "store"} => Waits(j)
    BY <1>1 DEF HandsHoldOne
<1>3. thread[t].at # "waiting" /\ (mail' = mail \/ mail' = Append(mail, t))
    BY <1>1 DEF Answers, CarriesOn
<1>4. mail \in Seq(Threads) /\ mail' \in Seq(Threads)
    <2>1. mail \in Seq(Threads)
        BY DEF TypeOK
    <2> QED
        BY <1>3, <2>1
<1>5. permits' \in [Kinds -> Int]
    BY DEF HandEffect, PermitsMove, TypeOK
<1>6. TypeOK'
    BY <1>1, <1>4, <1>5 DEF TypeOK, HandEffect, OneJob
<1>7. work'[j].results =< 1 /\ (CarriesOn(t) => work'[j].results = 0)
    BY <1>1, <1>2 DEF Answers, CarriesOn
<1>8. JobsOrdered'
    <2> SUFFICES ASSUME NEW i \in Jobs
                 PROVE  /\ work'[i].results =< 1
                        /\ work'[i].state \in {"none", "reserved", "prepared"} => work'[i].results = 0
                        /\ work'[i].state # "activated" => ~work'[i].tried /\ owner'[i] = "none"
                        /\ work'[i].call # "none" =>
                               work'[i].state \in {"reserved", "cancelled"} /\ work'[i].results = 0
        BY DEF JobsOrdered
    <2>1. CASE i = j
        <3>1. work[j].call = "none"
            BY <1>1, <1>2 DEF JobsOrdered
        <3> QED
            BY <1>1, <1>2, <1>7, <2>1, <3>1
    <2>2. CASE i # j
        BY <1>1, <2>2 DEF JobsOrdered
    <2> QED
        BY <2>1, <2>2
<1>9. \A i \in Jobs \ {j} : (Waits(i) => WaitsNext(i)) /\ (QueuedNext(i) <=> Queued(i))
    BY <1>1 DEF Waits, WaitsNext, Queued, QueuedNext
<1>10. QueuesHoldWaiting'
    <2> SUFFICES ASSUME NEW h \in Kinds, NEW i \in 1..Len(queue[h])
                 PROVE  /\ KindOf[queue[h][i]] = h
                        /\ WaitsNext(queue[h][i])
                        /\ \A g \in 1..Len(queue[h]) : queue[h][g] = queue[h][i] => g = i
        BY <1>1 DEF QueuesHoldWaiting, Waits, WaitsNext
    <2>1. /\ queue[h][i] \in Jobs /\ KindOf[queue[h][i]] = h /\ Waits(queue[h][i])
          /\ \A g \in 1..Len(queue[h]) : queue[h][g] = queue[h][i] => g = i
        BY QueuedJobs
    <2>2. queue[h][i] # j
        BY <1>2, <2>1 DEF Queued
    <2> QED
        BY <1>9, <2>1, <2>2
<1>11. ~QueuedNext(j)
    BY <1>1, <1>2 DEF Queued, QueuedNext
<1>12. HandsHoldOne'
    <2> SUFFICES ASSUME NEW u \in Threads, Busy(u)'
                 PROVE  LET i == thread'[u].job
                        IN /\ KindOf[i] = Serves(u)
                           /\ ~QueuedNext(i)
                           /\ \A s \in Threads : Busy(s)' /\ thread'[s].job = i => s = u
                           /\ work'[i].state = "activated" /\ work'[i].results = 0
                           /\ thread'[u].at \in {"taken", "store"} => WaitsNext(i)
                           /\ thread'[u].at \in {"deliver", "waiting", "answered"} =>
                                  (work'[i].tried <=> thread'[u].what = "settled")
        BY DEF HandsHoldOne, Queued, QueuedNext, Waits, WaitsNext
    <2>1. CASE u = t
        <3>1. CarriesOn(t)
            BY <1>1, <2>1 DEF Answers, Busy, Idle, Exited
        <3>2. /\ thread'[t].job = j /\ thread'[t].at \in {"store", "deliver", "waiting"}
              /\ thread'[t].at = "store" => thread[t].at = "taken" /\ ~work'[j].tried
              /\ thread'[t].at \in {"deliver", "waiting"} => (work'[j].tried <=> thread'[t].what = "settled")
            BY <3>1 DEF CarriesOn
        <3>3. work'[j].state = "activated" /\ work'[j].results = 0
            BY <1>1, <1>2, <1>7, <3>1
        <3>4. thread'[t].at = "store" => WaitsNext(j)
            BY <1>1, <1>2, <3>2, <3>3 DEF Waits, WaitsNext
        <3>5. ASSUME NEW s \in Threads, Busy(s)', thread'[s].job = j PROVE s = t
            BY <1>1, <1>2, <3>5 DEF Busy
        <3> QED
            BY <1>2, <1>11, <2>1, <3>2, <3>3, <3>4, <3>5
    <2>2. CASE u # t
        <3>1. thread'[u] = thread[u] /\ Busy(u) /\ thread[u].job # j /\ thread[u].job \in Jobs
            BY <1>1, <1>2, <2>2, HandTypes DEF Busy
        <3>2. ASSUME NEW s \in Threads, Busy(s)', thread'[s].job = thread[u].job PROVE s = u
            <4>1. s # t
                BY <1>1, <3>1, <3>2 DEF Answers, CarriesOn, Busy, Idle, Exited
            <4> QED
                BY <1>1, <3>1, <3>2, <4>1 DEF HandsHoldOne, Busy
        <3>3. ~QueuedNext(thread[u].job) /\ work'[thread[u].job] = work[thread[u].job]
            BY <1>1, <1>9, <3>1 DEF HandsHoldOne
        <3>4. thread[u].at \in {"taken", "store"} => WaitsNext(thread[u].job)
            BY <1>9, <3>1 DEF HandsHoldOne
        <3> QED
            BY <3>1, <3>2, <3>3, <3>4 DEF HandsHoldOne
    <2> QED
        BY <2>1, <2>2
<1>13. NoneMissing'
    <2> SUFFICES ASSUME NEW i \in Jobs, work'[i].state = "activated", work'[i].results = 0
                 PROVE  QueuedNext(i) \/ InHand(i)'
        BY DEF NoneMissing, Queued, QueuedNext
    <2>1. CASE i = j
        <3>1. CarriesOn(t)
            BY <1>1, <1>2, <2>1 DEF Answers
        <3> QED
            BY <2>1, <3>1 DEF CarriesOn, InHand, Busy
    <2>2. CASE i # j
        <3>1. work'[i] = work[i]
            BY <1>1, <2>2
        <3>2. CASE Queued(i)
            BY <1>9, <2>2, <3>2
        <3>3. CASE InHand(i)
            <4>1. PICK u \in Threads : Busy(u) /\ thread[u].job = i
                BY <3>3 DEF InHand
            <4>2. thread'[u] = thread[u]
                BY <1>1, <2>2, <4>1
            <4> QED
                BY <4>1, <4>2 DEF InHand, Busy
        <3> QED
            BY <3>1, <3>2, <3>3 DEF NoneMissing
    <2> QED
        BY <2>1, <2>2
<1>14. MailHoldsWaiting'
    <2>1. \A i \in 1..Len(mail) : mail[i] \in Threads /\ thread[mail[i]].at = "waiting" /\ mail[i] # t
        BY <1>3, <1>4 DEF MailHoldsWaiting
    <2>2. \A i \in 1..Len(mail) : thread'[mail[i]].at = "waiting"
        BY <1>1, <2>1
    <2>3. CASE mail' = mail
        BY <2>2, <2>3 DEF MailHoldsWaiting
    <2>4. CASE mail' # mail
        <3>1. mail' = Append(mail, t) /\ thread'[t].at = "waiting"
            BY <1>1, <2>4 DEF Answers, CarriesOn
        <3>2. /\ Len(mail) \in Nat /\ Len(mail') = Len(mail) + 1 /\ mail'[Len(mail) + 1] = t
              /\ \A i \in 1..Len(mail) : mail'[i] = mail[i]
            BY <1>4, <3>1
        <3>3. \A i \in 1..Len(mail') : i \in 1..Len(mail) \/ i = Len(mail) + 1
            BY <3>2
        <3>4. \A i \in 1..Len(mail') : thread'[mail'[i]].at = "waiting"
            BY <2>2, <3>1, <3>2, <3>3
        <3>5. \A i \in 1..Len(mail'), h \in 1..Len(mail') : mail'[h] = mail'[i] => h = i
            BY <2>1, <3>2, <3>3 DEF MailHoldsWaiting
        <3> QED
            BY <3>4, <3>5 DEF MailHoldsWaiting
    <2> QED
        BY <2>3, <2>4
<1>15. ReturnedIsEmpty'
    <2> SUFFICES ASSUME NEW h \in Kinds, run[h] = "returned"
                 PROVE  /\ queue[h] = <<>>
                        /\ thread'[h] = Idle
                        /\ \A w \in Workers : WorkerOf[w] = h => thread'[w] = Exited
        BY <1>1 DEF ReturnedIsEmpty
    <2>1. /\ queue[h] = <<>> /\ thread[h] = Idle
          /\ \A w \in Workers : WorkerOf[w] = h => thread[w] = Exited
        BY DEF ReturnedIsEmpty
    <2>2. h # t /\ \A w \in Workers : WorkerOf[w] = h => w # t
        BY <1>1, <2>1 DEF Busy, Idle, Exited
    <2> QED
        BY <1>1, <2>1, <2>2 DEF Threads
<1>16. LetGoOnlyUntried'
    <2> SUFFICES ASSUME NEW i \in Jobs
                 PROVE  /\ owner[i] = "let go" => ~work'[i].tried
                        /\ owner[i] = "settled" => work'[i].tried
        BY <1>1 DEF LetGoOnlyUntried
    <2>1. CASE i = j
        <3>1. thread[t].at = "store" => owner[j] = "waiting"
            BY <1>2 DEF Waits
        <3>2. (work'[j].tried => work[j].tried \/ thread[t].at = "store") /\ (work[j].tried => work'[j].tried)
            BY DEF HandEffect
        <3> QED
            BY <1>1, <2>1, <3>1, <3>2 DEF LetGoOnlyUntried
    <2>2. CASE i # j
        BY <1>1, <2>2 DEF LetGoOnlyUntried
    <2> QED
        BY <2>1, <2>2
<1> QED
    BY <1>6, <1>8, <1>10, <1>12, <1>13, <1>14, <1>15, <1>16

-----------------------------------------------------------------------------
(* The places of jobs in the other steps *)

(* Those who wait are answered, and the simulation hears what they say.     *)
Hears ==
    /\ UNCHANGED <<run, permits, queue, work, done>>
    /\ engine' \in [running: BOOLEAN, runs: Nat]
    /\ mail' \in Seq(Threads)
    /\ thread' \in [Threads -> {Idle, Exited} \cup Hands]
    /\ \A t \in Threads :
          \/ thread'[t] = thread[t]
          \/ /\ thread[t].at = "waiting" /\ thread'[t].at = "answered"
             /\ thread'[t].job = thread[t].job /\ thread'[t].what = thread[t].what
    /\ owner' \in [Jobs -> {"none", "waiting", "let go", "settled"}]
    /\ \A j \in Jobs :
          \/ owner'[j] = owner[j]
          \/ \E t \in Threads : /\ thread[t].at = "waiting" /\ thread[t].job = j
                                /\ owner'[j] = thread[t].what

LEMMA HearsPlaces ==
    ASSUME Placed, Hears, MailHoldsWaiting'
    PROVE  Placed'
<1> USE DEF Placed
<1>1. TypeOK'
    BY DEF TypeOK, Hears
<1>2. UNCHANGED <<run, queue, work>>
    BY DEF Hears
<1>3. \A t \in Threads : Busy(t)' <=> Busy(t)
    BY DEF Busy, Hears
<1>4. \A t \in Threads : Busy(t) => thread'[t].job = thread[t].job
    BY DEF Hears
<1>5. ASSUME NEW i \in Jobs, Waits(i), \/ Queued(i)
                                       \/ \E t \in Threads : /\ thread[t].at \in {"taken", "store"}
                                                             /\ thread[t].job = i
      PROVE  WaitsNext(i)
    <2>1. ASSUME NEW u \in Threads, thread[u].at = "waiting", thread[u].job = i PROVE FALSE
        <3>1. Busy(u)
            BY <2>1 DEF Busy
        <3>2. CASE Queued(i)
            BY <2>1, <3>1, <3>2 DEF HandsHoldOne
        <3>3. ASSUME NEW t \in Threads, thread[t].at \in {"taken", "store"}, thread[t].job = i PROVE FALSE
            <4>1. Busy(t)
                BY <3>3 DEF Busy
            <4>2. t = u
                BY <2>1, <3>1, <3>3, <4>1 DEF HandsHoldOne
            <4> QED
                BY <2>1, <3>3, <4>2
        <3> QED
            BY <1>5, <3>2, <3>3
    <2>2. owner'[i] = owner[i]
        BY <2>1 DEF Hears
    <2> QED
        BY <1>2, <1>5, <2>2 DEF Waits, WaitsNext
<1>6. JobsOrdered'
    <2> SUFFICES ASSUME NEW i \in Jobs, work[i].state # "activated"
                 PROVE  owner'[i] = "none"
        BY <1>2 DEF JobsOrdered
    <2>1. \A t \in Threads : Busy(t) => thread[t].job # i
        BY DEF HandsHoldOne
    <2>2. owner'[i] = owner[i]
        BY <2>1 DEF Hears, Busy
    <2> QED
        BY <2>2 DEF JobsOrdered
<1>7. QueuesHoldWaiting'
    <2> SUFFICES ASSUME NEW h \in Kinds, NEW i \in 1..Len(queue[h])
                 PROVE  /\ KindOf[queue[h][i]] = h
                        /\ WaitsNext(queue[h][i])
                        /\ \A g \in 1..Len(queue[h]) : queue[h][g] = queue[h][i] => g = i
        BY <1>2 DEF QueuesHoldWaiting, Waits, WaitsNext
    <2>1. /\ queue[h][i] \in Jobs /\ KindOf[queue[h][i]] = h /\ Waits(queue[h][i])
          /\ \A g \in 1..Len(queue[h]) : queue[h][g] = queue[h][i] => g = i
        BY QueuedJobs
    <2>2. Queued(queue[h][i])
        BY <2>1 DEF Queued
    <2> QED
        BY <1>5, <2>1, <2>2
<1>8. HandsHoldOne'
    <2> SUFFICES ASSUME NEW u \in Threads, Busy(u)'
                 PROVE  LET i == thread'[u].job
                        IN /\ KindOf[i] = Serves(u)
                           /\ ~Queued(i)
                           /\ \A s \in Threads : Busy(s)' /\ thread'[s].job = i => s = u
                           /\ work[i].state = "activated" /\ work[i].results = 0
                           /\ thread'[u].at \in {"taken", "store"} => WaitsNext(i)
                           /\ thread'[u].at \in {"deliver", "waiting", "answered"} =>
                                  (work[i].tried <=> thread'[u].what = "settled")
        BY <1>2 DEF HandsHoldOne, Queued, Waits, WaitsNext
    <2>1. /\ Busy(u) /\ thread'[u].job = thread[u].job
          /\ thread[u].job \in Jobs
        BY <1>3, <1>4, HandTypes
    <2>2. \A s \in Threads : Busy(s)' /\ thread'[s].job = thread[u].job => s = u
        BY <1>3, <1>4, <2>1 DEF HandsHoldOne
    <2>3. thread'[u].at \in {"taken", "store"} => WaitsNext(thread[u].job)
        <3>1. thread'[u].at \in {"taken", "store"} => thread[u].at \in {"taken", "store"}
            BY DEF Hears
        <3> QED
            BY <1>5, <2>1, <3>1 DEF HandsHoldOne
    <2>4. thread'[u].at \in {"deliver", "waiting", "answered"} =>
              (work[thread[u].job].tried <=> thread'[u].what = "settled")
        <3>1. thread[u].at \in {"deliver", "waiting", "answered"} =>
                  (work[thread[u].job].tried <=> thread[u].what = "settled")
            BY <2>1 DEF HandsHoldOne
        <3>2. thread'[u] = thread[u] \/ (thread[u].at = "waiting" /\ thread'[u].what = thread[u].what)
            BY DEF Hears
        <3> QED
            BY <3>1, <3>2
    <2> QED
        BY <2>1, <2>2, <2>3, <2>4 DEF HandsHoldOne
<1>9. NoneMissing'
    BY <1>2, <1>3, <1>4 DEF NoneMissing, Queued, InHand
<1>10. ReturnedIsEmpty'
    <2>1. \A t \in Threads : thread[t].at # "waiting" => thread'[t] = thread[t]
        BY DEF Hears
    <2> QED
        BY <1>2, <2>1 DEF ReturnedIsEmpty, Threads, Idle, Exited
<1>11. LetGoOnlyUntried'
    <2> SUFFICES ASSUME NEW i \in Jobs, owner'[i] # owner[i]
                 PROVE  /\ owner'[i] = "let go" => ~work[i].tried
                        /\ owner'[i] = "settled" => work[i].tried
        BY <1>2 DEF LetGoOnlyUntried
    <2>1. PICK t \in Threads : /\ thread[t].at = "waiting" /\ thread[t].job = i
                               /\ owner'[i] = thread[t].what
        BY DEF Hears
    <2>2. work[i].tried <=> thread[t].what = "settled"
        BY <2>1 DEF HandsHoldOne, Busy
    <2> QED
        BY <2>1, <2>2
<1> QED
    BY <1>1, <1>6, <1>7, <1>8, <1>9, <1>10, <1>11

LEMMA IngressPlaces ==
    ASSUME Placed, runIngressStep
    PROVE  Placed'
<1> DEFINE t == Head(mail)
           n == Delivered(thread[t], "answered")
<1>1. /\ mail \in Seq(Threads) /\ mail # <<>> /\ mail' = Tail(mail)
      /\ UNCHANGED <<run, permits, queue, work, done, engine>>
      /\ owner' = [owner EXCEPT ![thread[t].job] = thread[t].what]
    BY DEF runIngressStep, Placed, TypeOK
<1>2. /\ t = mail[1] /\ Len(mail) \in Nat \ {0} /\ mail' \in Seq(Threads) /\ Len(mail') = Len(mail) - 1
      /\ \A i \in 1..(Len(mail) - 1) : mail'[i] = mail[i + 1] /\ mail[i + 1] \in Threads
      /\ t \in Threads
    BY <1>1
<1>3. thread[t].at = "waiting" /\ \A i \in 1..Len(mail) : mail[i] = t => i = 1
    BY <1>2 DEF Placed, MailHoldsWaiting
<1>4. Busy(t) /\ thread[t] \in Deliveries /\ thread[t].job \in Jobs /\ thread[t].what \in {"settled", "let go"}
    BY <1>2, <1>3, HandTypes DEF Busy, Placed
<1>5. n \in Hands /\ n.at = "answered" /\ n.job = thread[t].job /\ n.what = thread[t].what
    BY <1>4, DeliverySet
<1>6. thread' = [thread EXCEPT ![t] = n]
    BY DEF runIngressStep, Delivered, Placed, TypeOK
<1> HIDE DEF n, t
<1>7. /\ thread' \in [Threads -> {Idle, Exited} \cup Hands] /\ thread'[t] = n
      /\ \A u \in Threads \ {t} : thread'[u] = thread[u]
    BY <1>2, <1>5, <1>6, ThreadSet DEF Placed
<1>8. Hears
    <2>1. engine' \in [running: BOOLEAN, runs: Nat] /\ owner \in [Jobs -> {"none", "waiting", "let go", "settled"}]
        BY <1>1 DEF Placed, TypeOK
    <2> QED
        BY <1>1, <1>2, <1>3, <1>4, <1>5, <1>7, <2>1 DEF Hears
<1>9. MailHoldsWaiting'
    <2> SUFFICES ASSUME NEW i \in 1..Len(mail')
                 PROVE  /\ thread'[mail'[i]].at = "waiting"
                        /\ \A h \in 1..Len(mail') : mail'[h] = mail'[i] => h = i
        BY DEF MailHoldsWaiting
    <2>1. i \in 1..(Len(mail) - 1) /\ i + 1 \in 1..Len(mail) /\ mail'[i] = mail[i + 1]
        BY <1>2
    <2>2. mail[i + 1] # t /\ mail[i + 1] \in Threads
        BY <1>2, <1>3, <2>1
    <2>3. thread'[mail'[i]].at = "waiting"
        BY <1>7, <2>1, <2>2 DEF Placed, MailHoldsWaiting
    <2>4. ASSUME NEW h \in 1..Len(mail'), mail'[h] = mail'[i] PROVE h = i
        <3>1. h \in 1..(Len(mail) - 1) /\ h + 1 \in 1..Len(mail) /\ mail'[h] = mail[h + 1]
            BY <1>2
        <3>2. h + 1 = i + 1
            BY <2>1, <2>4, <3>1 DEF Placed, MailHoldsWaiting
        <3> QED
            BY <2>1, <3>1, <3>2
    <2> QED
        BY <2>3, <2>4
<1> QED
    BY <1>8, <1>9, HearsPlaces

LEMMA ReleasePlaces ==
    ASSUME Placed, releaseRun
    PROVE  Placed'
<1>1. /\ UNCHANGED <<run, permits, queue, work, owner, done>> /\ mail' = <<>>
      /\ engine' = [engine EXCEPT !.running = FALSE]
      /\ thread' = [t \in Threads |-> IF thread[t].at = "waiting" THEN [thread[t] EXCEPT !.at = "answered"]
                                    ELSE thread[t]]
    BY DEF releaseRun
<1>2. engine' \in [running: BOOLEAN, runs: Nat]
    BY <1>1 DEF Placed, TypeOK
<1>3. ASSUME NEW t \in Threads, thread[t].at = "waiting"
      PROVE  /\ thread'[t] \in Hands /\ thread'[t].at = "answered"
             /\ thread'[t].job = thread[t].job /\ thread'[t].what = thread[t].what
    <2>1. thread[t] \in Deliveries
        BY <1>3, HandTypes DEF Busy, Placed
    <2>2. thread'[t] = Delivered(thread[t], "answered")
        BY <1>1, <1>3 DEF Delivered
    <2> QED
        BY <2>1, <2>2, DeliverySet
<1>4. \A t \in Threads : thread[t].at # "waiting" => thread'[t] = thread[t]
    BY <1>1
<1>5. thread' \in [Threads -> {Idle, Exited} \cup Hands]
    <2>1. \A t \in Threads : thread'[t] \in {Idle, Exited} \cup Hands
        BY <1>3, <1>4 DEF Placed, TypeOK
    <2>2. thread' = [t \in Threads |-> thread'[t]]
        BY <1>1
    <2> QED
        BY <2>1, <2>2
<1>6. Hears
    <2>0. mail' \in Seq(Threads)
        BY <1>1
    <2>1. mail' \in Seq(Threads) /\ owner \in [Jobs -> {"none", "waiting", "let go", "settled"}]
        BY <2>0 DEF Placed, TypeOK
    <2> HIDE DEF Hands, Threads
    <2>2. \A t \in Threads :
              \/ thread'[t] = thread[t]
              \/ /\ thread[t].at = "waiting" /\ thread'[t].at = "answered"
                 /\ thread'[t].job = thread[t].job /\ thread'[t].what = thread[t].what
        BY <1>3, <1>4
    <2> QED
        BY <1>1, <1>2, <1>5, <2>1, <2>2 DEF Hears
<1>7. MailHoldsWaiting'
    BY <1>1 DEF MailHoldsWaiting
<1> QED
    BY <1>6, <1>7, HearsPlaces

(* What the rest of the invariant says does not depend on the engine.       *)
LEMMA QuietPlaces ==
    ASSUME Placed, UNCHANGED <<permits, queue, work, thread, owner, mail>>,
           TypeOK', ReturnedIsEmpty'
    PROVE  Placed'
<1>1. JobsOrdered' /\ LetGoOnlyUntried'
    BY DEF Placed, JobsOrdered, LetGoOnlyUntried
<1>2. QueuesHoldWaiting' /\ MailHoldsWaiting'
    BY DEF Placed, QueuesHoldWaiting, MailHoldsWaiting, Waits
<1>3. HandsHoldOne'
    BY DEF Placed, HandsHoldOne, Busy, Queued, Waits
<1>4. NoneMissing'
    BY DEF Placed, NoneMissing, Busy, Queued, InHand
<1> QED
    BY <1>1, <1>2, <1>3, <1>4 DEF Placed

LEMMA RunPlaces ==
    ASSUME Placed, NEW k \in Kinds, Run(k) \/ StopRunning(k) \/ Return(k)
    PROVE  Placed'
<1>1. /\ UNCHANGED <<permits, queue, work, thread, owner, done, engine, mail>>
      /\ \E r \in {"running", "draining", "returned"} : run' = [run EXCEPT ![k] = r]
      /\ run'[k] # "returned" \/ Return(k)
    BY DEF Run, StopRunning, Return, Placed, TypeOK
<1>2. TypeOK'
    BY <1>1 DEF TypeOK, Placed
<1>3. ReturnedIsEmpty'
    <2> SUFFICES ASSUME NEW h \in Kinds, run'[h] = "returned"
                 PROVE  /\ queue[h] = <<>>
                        /\ thread[h] = Idle
                        /\ \A w \in Workers : WorkerOf[w] = h => thread[w] = Exited
        BY <1>1 DEF ReturnedIsEmpty
    <2>1. CASE h = k
        <3>1. Return(k)
            BY <1>1, <2>1
        <3>2. \A w \in Workers : thread[w].at = "exited" => thread[w] = Exited
            <4> TAKE w \in Workers
            <4>1. thread[w] \in {Idle, Exited} \cup Hands
                BY DEF Placed, TypeOK, Threads
            <4>2. thread[w] \in Hands => thread[w].at # "exited"
                BY DEF Hands, Deliveries
            <4> QED
                BY <4>1, <4>2 DEF Idle
        <3> QED
            BY <2>1, <3>1, <3>2 DEF Return
    <2>2. CASE h # k
        BY <1>1, <2>2 DEF ReturnedIsEmpty, Placed, TypeOK
    <2> QED
        BY <2>1, <2>2
<1> QED
    BY <1>1, <1>2, <1>3, QuietPlaces

LEMMA ExitPlaces ==
    ASSUME Placed, NEW w \in Workers, Exit(w)
    PROVE  Placed'
<1> USE DEF Placed
<1>1. /\ thread[w] = Idle /\ w \in Threads
      /\ thread' = [thread EXCEPT ![w] = Exited]
      /\ UNCHANGED <<run, permits, queue, work, owner, done, engine, mail>>
    BY DEF Exit, Exited, Threads
<1>2. /\ thread' \in [Threads -> {Idle, Exited} \cup Hands] /\ thread'[w] = Exited
      /\ \A u \in Threads \ {w} : thread'[u] = thread[u]
    BY <1>1, ThreadSet
<1>3. TypeOK'
    BY <1>1, <1>2 DEF TypeOK
<1>4. JobsOrdered' /\ QueuesHoldWaiting' /\ LetGoOnlyUntried'
    <2>1. JobsOrdered'
        BY <1>1 DEF JobsOrdered
    <2>2. QueuesHoldWaiting'
        BY <1>1 DEF QueuesHoldWaiting, Waits
    <2>3. LetGoOnlyUntried'
        BY <1>1 DEF LetGoOnlyUntried
    <2> QED
        BY <2>1, <2>2, <2>3
<1>5. \A u \in Threads : Busy(u)' <=> Busy(u)
    BY <1>1, <1>2 DEF Busy, Idle, Exited
<1>6. \A u \in Threads : Busy(u) => thread'[u] = thread[u]
    BY <1>1, <1>2 DEF Busy, Idle
<1>7. HandsHoldOne'
    BY <1>1, <1>5, <1>6 DEF HandsHoldOne, Queued, Waits
<1>8. NoneMissing'
    BY <1>1, <1>5, <1>6 DEF NoneMissing, InHand, Queued
<1>9. MailHoldsWaiting'
    <2>1. mail \in Seq(Threads)
        BY DEF TypeOK
    <2>2. \A i \in 1..Len(mail) : mail[i] \in Threads
        BY <2>1
    <2> QED
        BY <1>1, <1>2, <2>2 DEF MailHoldsWaiting, Idle
<1>10. ReturnedIsEmpty'
    <2>1. \A h \in Kinds : h # w
        BY Constants
    <2> QED
        BY <1>1, <1>2, <2>1 DEF ReturnedIsEmpty, Threads
<1> QED
    BY <1>3, <1>4, <1>7, <1>8, <1>9, <1>10

LEMMA EnginePlaces ==
    ASSUME Placed, EngineRun \/ Cancel \/ UNCHANGED vars
    PROVE  Placed'
<1>1. CASE EngineRun
    <2>1. engine' \in [running: BOOLEAN, runs: Nat]
        <3>0. engine \in [running: BOOLEAN, runs: Nat]
            BY DEF Placed, TypeOK
        <3>1. engine \in [running: BOOLEAN, runs: Nat] /\ engine.runs + 1 \in Nat
            BY <3>0
        <3>2. engine' = [engine EXCEPT !.running = TRUE, !.runs = engine.runs + 1]
            BY <1>1 DEF EngineRun
        <3> QED
            BY <3>1, <3>2
    <2> QED
        BY <1>1, <2>1, QuietPlaces DEF EngineRun, Placed, TypeOK, ReturnedIsEmpty
<1>2. CASE Cancel
    BY <1>2, QuietPlaces DEF Cancel, Placed, TypeOK, ReturnedIsEmpty
<1>3. CASE UNCHANGED vars
    BY <1>3, QuietPlaces DEF vars, Placed, TypeOK, ReturnedIsEmpty
<1> QED
    BY <1>1, <1>2, <1>3

LEMMA InitPlaces == Init => Placed
<1> SUFFICES ASSUME Init PROVE Placed
    OBVIOUS
<1>1. TypeOK
    BY InitTypeOK
<1>2. /\ queue = [k \in Kinds |-> <<>>] /\ thread = [t \in Threads |-> Idle]
      /\ owner = [j \in Jobs |-> "none"] /\ mail = <<>>
      /\ \A k \in Kinds : run[k] # "returned"
      /\ \A j \in Jobs : work[j] = Unreserved
    BY DEF Init
<1>3. JobsOrdered /\ LetGoOnlyUntried
    BY <1>2 DEF JobsOrdered, LetGoOnlyUntried, Unreserved
<1>4. QueuesHoldWaiting /\ MailHoldsWaiting
    BY <1>2 DEF QueuesHoldWaiting, MailHoldsWaiting
<1>5. HandsHoldOne /\ NoneMissing /\ ReturnedIsEmpty
    BY <1>2 DEF HandsHoldOne, NoneMissing, ReturnedIsEmpty, Busy, Idle, Unreserved
<1> QED
    BY <1>1, <1>3, <1>4, <1>5 DEF Placed

-----------------------------------------------------------------------------
(* The permits *)

Reservers(k) == {j \in Of(k) : work[j].state \in {"reserved", "prepared"}}

Takers(k) == {t \in Threads : Serves(t) = k /\ thread[t].at = "taken"}

Balanced(k) ==
    permits[k] + Len(queue[k]) + Cardinality(Reservers(k)) + Cardinality(Takers(k)) = QueueCapacity

OneHolder ==
    \A i, j \in Jobs : work[i].held /\ work[j].held /\ CharacterOf[i] = CharacterOf[j] => i = j

IInv == Placed /\ (\A k \in Kinds : Balanced(k)) /\ OneHolder /\ HeldIsLive

LEMMA Counted ==
    ASSUME NEW k \in Kinds
    PROVE  /\ IsFiniteSet(Reservers(k)) /\ Cardinality(Reservers(k)) \in Nat
           /\ IsFiniteSet(Takers(k)) /\ Cardinality(Takers(k)) \in Nat
<1>1. IsFiniteSet(Jobs) /\ IsFiniteSet(Workers)
    BY ExecutorConstants
<1>2. IsFiniteSet(Kinds)
    <2>1. IsFiniteSet({}) /\ IsFiniteSet({"death"})
        BY FS_EmptySet, FS_Singleton
    <2>2. IsFiniteSet({"death"} \cup {"portal"})
        BY <2>1, FS_AddElement
    <2>3. IsFiniteSet(({"death"} \cup {"portal"}) \cup {"penalty"})
        BY <2>2, FS_AddElement
    <2>4. Kinds = ({"death"} \cup {"portal"}) \cup {"penalty"}
        BY DEF Kinds
    <2> QED
        BY <2>3, <2>4
<1>3. IsFiniteSet(Threads)
    BY <1>1, <1>2, FS_Union DEF Threads
<1>4. Reservers(k) \subseteq Jobs /\ Takers(k) \subseteq Threads
    BY DEF Reservers, Takers, Of
<1>5. IsFiniteSet(Reservers(k)) /\ IsFiniteSet(Takers(k))
    BY <1>1, <1>3, <1>4, FS_Subset
<1> QED
    BY <1>5, FS_CardinalityType

LEMMA JoinedCount ==
    ASSUME NEW S, IsFiniteSet(S), NEW x, NEW T, T = S \cup {x}, x \notin S
    PROVE  Cardinality(T) = Cardinality(S) + 1
BY FS_AddElement

LEMMA LeftCount ==
    ASSUME NEW S, IsFiniteSet(S), NEW x, NEW T, T = S \ {x}, x \in S
    PROVE  Cardinality(T) = Cardinality(S) - 1
BY FS_RemoveElement

(* One job's record changes.                                                *)
LEMMA ReserversMove ==
    ASSUME TypeOK, NEW j \in Jobs, OneJob(j)
    PROVE  /\ Cardinality(Reservers(KindOf[j])') =
                  Cardinality(Reservers(KindOf[j])) + Claim(work'[j]) - Claim(work[j])
           /\ \A h \in Kinds \ {KindOf[j]} : Reservers(h)' = Reservers(h)
<1> DEFINE k == KindOf[j]
           S == Reservers(k)
           T == Reservers(k)'
<1>1. k \in Kinds /\ \A i \in Jobs \ {j} : work'[i] = work[i]
    BY Constants DEF OneJob
<1>2. IsFiniteSet(S) /\ Cardinality(S) \in Nat
    BY <1>1, Counted
<1>3. j \in S <=> work[j].state \in {"reserved", "prepared"}
    BY DEF Reservers, Of
<1>4. j \in T <=> work'[j].state \in {"reserved", "prepared"}
    BY DEF Reservers, Of
<1>5. \A i : i # j => (i \in S <=> i \in T)
    BY <1>1 DEF Reservers, Of
<1>6. \A h \in Kinds \ {k} : Reservers(h)' = Reservers(h)
    BY <1>1 DEF Reservers, Of
<1> HIDE DEF S, T
<1>7. Cardinality(T) = Cardinality(S) + Claim(work'[j]) - Claim(work[j])
    <2>1. CASE j \in S /\ j \in T
        <3>1. S = T
            BY <1>5, <2>1
        <3>2. Claim(work[j]) = 1 /\ Claim(work'[j]) = 1
            BY <1>3, <1>4, <2>1 DEF Claim
        <3> QED
            BY <1>2, <3>1, <3>2
    <2>2. CASE j \notin S /\ j \notin T
        <3>1. S = T
            BY <1>5, <2>2
        <3>2. Claim(work[j]) = 0 /\ Claim(work'[j]) = 0
            BY <1>3, <1>4, <2>2 DEF Claim
        <3> QED
            BY <1>2, <3>1, <3>2
    <2>3. CASE j \notin S /\ j \in T
        <3>1. T = S \cup {j}
            BY <1>5, <2>3
        <3>2. Claim(work[j]) = 0 /\ Claim(work'[j]) = 1
            BY <1>3, <1>4, <2>3 DEF Claim
        <3> QED
            BY <1>2, <2>3, <3>1, <3>2, JoinedCount
    <2>4. CASE j \in S /\ j \notin T
        <3>1. T = S \ {j}
            BY <1>5, <2>4
        <3>2. Claim(work[j]) = 1 /\ Claim(work'[j]) = 0
            BY <1>3, <1>4, <2>4 DEF Claim
        <3> QED
            BY <1>2, <2>4, <3>1, <3>2, LeftCount
    <2> QED
        BY <2>1, <2>2, <2>3, <2>4
<1> QED
    BY <1>6, <1>7 DEF S, T

(* The numbers that are balanced.                                           *)
LEMMA Numbers ==
    ASSUME TypeOK, NEW k \in Kinds
    PROVE  /\ permits[k] \in Int /\ Len(queue[k]) \in Nat
           /\ Cardinality(Reservers(k)) \in Nat /\ Cardinality(Takers(k)) \in Nat
           /\ QueueCapacity \in Nat
<1>1. permits \in [Kinds -> Int] /\ queue \in [Kinds -> Seq(Jobs)]
    BY DEF TypeOK
<1>2. queue[k] \in Seq(Jobs) /\ permits[k] \in Int
    BY <1>1
<1>3. Len(queue[k]) \in Nat
    BY <1>2
<1> QED
    BY <1>2, <1>3, Counted, Constants

LEMMA OneForOne ==
    ASSUME NEW p \in Int, NEW l \in Nat, NEW r \in Nat, NEW t \in Nat, p + l + r + t = QueueCapacity
    PROVE  p + (l - 1) + r + (t + 1) = QueueCapacity
BY Constants

LEMMA CallerBalances ==
    ASSUME TypeOK, \A k \in Kinds : Balanced(k), NEW j \in Jobs, CallerEffect(j), NEW h \in Kinds
    PROVE  Balanced(h)'
<1> DEFINE k == KindOf[j]
           c == Claim(work[j])
           d == Claim(work'[j])
<1>1. OneJob(j) /\ thread' = thread /\ k \in Kinds
    BY Constants DEF CallerEffect
<1>2. Takers(h)' = Takers(h)
    BY <1>1 DEF Takers
<1>3. c \in {0, 1} /\ d \in {0, 1}
    BY DEF Claim
<1>4. MovesOn(j) \/ IsQueued(j)
    BY DEF CallerEffect
<1>5. CASE h # k
    <2>1. Reservers(h)' = Reservers(h)
        BY <1>1, <1>5, ReserversMove
    <2>2. permits'[h] = permits[h]
        BY <1>4, <1>5 DEF MovesOn, IsQueued, PermitsMove
    <2>3. queue'[h] = queue[h]
        BY <1>1, <1>4, <1>5, QueueAppended DEF MovesOn, IsQueued
    <2> QED
        BY <1>2, <2>1, <2>2, <2>3 DEF Balanced
<1>6. CASE h = k
    <2>1. Cardinality(Reservers(k)') = Cardinality(Reservers(k)) + d - c
        BY <1>1, ReserversMove
    <2>2. permits'[k] + Len(queue'[k]) = permits[k] + Len(queue[k]) + c - d
        <3>1. permits[k] \in Int /\ Len(queue[k]) \in Nat
            BY <1>1, Numbers
        <3>2. CASE MovesOn(j)
            <4>1. permits'[k] = permits[k] + (c - d) /\ queue' = queue
                BY <3>2 DEF MovesOn, PermitsMove
            <4> HIDE DEF c, d
            <4> QED
                BY <1>3, <3>1, <4>1
        <3>3. CASE IsQueued(j)
            <4>1. permits'[k] = permits[k] + (c - 1) /\ Len(queue'[k]) = Len(queue[k]) + 1
                BY <1>1, <3>3, QueueAppended DEF IsQueued, PermitsMove
            <4>2. d = 0
                BY <3>3 DEF IsQueued, Claim
            <4> HIDE DEF c, d
            <4> QED
                BY <1>3, <3>1, <4>1, <4>2
        <3> QED
            BY <1>4, <3>2, <3>3
    <2>3. /\ permits[k] \in Int /\ Len(queue[k]) \in Nat /\ Cardinality(Reservers(k)) \in Nat
          /\ Cardinality(Takers(k)) \in Nat
        BY <1>1, Numbers
    <2>4. permits'[k] \in Int /\ Len(queue'[k]) \in Nat
        <3>1. permits'[k] \in Int
            BY <1>1, <1>4 DEF MovesOn, IsQueued, PermitsMove
        <3>2. CASE queue' = queue
            BY <2>3, <3>1, <3>2
        <3>3. CASE queue' = [queue EXCEPT ![k] = Append(@, j)]
            <4>1. Len(queue'[k]) = Len(queue[k]) + 1
                BY <1>1, <3>3, QueueAppended
            <4>2. Len(queue[k]) + 1 \in Nat
                BY <2>3
            <4> QED
                BY <3>1, <4>1, <4>2
        <3> QED
            BY <1>4, <3>2, <3>3 DEF MovesOn, IsQueued
    <2>5. permits[k] + Len(queue[k]) + Cardinality(Reservers(k)) + Cardinality(Takers(k)) = QueueCapacity
        BY <1>1 DEF Balanced
    <2> HIDE DEF c, d
    <2>6. permits'[k] + Len(queue'[k]) + Cardinality(Reservers(k)') + Cardinality(Takers(k)) = QueueCapacity
        BY <1>3, <2>1, <2>2, <2>3, <2>4, <2>5
    <2> QED
        BY <1>2, <1>6, <2>6 DEF Balanced
<1> QED
    BY <1>5, <1>6

LEMMA TakeBalances ==
    ASSUME TypeOK, \A k \in Kinds : Balanced(k), NEW t \in Threads, Take(t), NEW h \in Kinds
    PROVE  Balanced(h)'
<1>0. PICK k \in Kinds : k = Serves(t)
    BY Constants
<1>1. /\ k = Serves(t) /\ k \in Kinds /\ thread[t] = Idle /\ queue[k] # <<>>
      /\ queue' = [queue EXCEPT ![k] = Tail(@)]
      /\ UNCHANGED <<permits, work>>
      /\ thread' = [thread EXCEPT ![t] = [at |-> "taken", job |-> Head(queue[k])]]
    BY <1>0 DEF Take
<1>2. /\ \A i \in Kinds \ {k} : queue'[i] = queue[i]
      /\ Len(queue[k]) \in Nat \ {0} /\ Len(queue'[k]) = Len(queue[k]) - 1
    BY <1>1, QueueTaken
<1>3. thread'[t].at = "taken" /\ \A u \in Threads \ {t} : thread'[u] = thread[u]
    BY <1>1 DEF TypeOK
<1>4. Reservers(h)' = Reservers(h)
    BY <1>1 DEF Reservers
<1>5. CASE h # k
    <2>1. Takers(h)' = Takers(h)
        BY <1>1, <1>3, <1>5 DEF Takers
    <2> QED
        BY <1>1, <1>2, <1>4, <1>5, <2>1 DEF Balanced
<1>6. CASE h = k
    <2>1. Takers(k)' = Takers(k) \cup {t} /\ t \notin Takers(k)
        BY <1>1, <1>3 DEF Takers, Idle
    <2>2. Cardinality(Takers(k)') = Cardinality(Takers(k)) + 1
        BY <1>1, <2>1, Counted, JoinedCount
    <2>3. permits[k] + Len(queue[k]) + Cardinality(Reservers(k)) + Cardinality(Takers(k)) = QueueCapacity
        BY <1>1 DEF Balanced
    <2>a. /\ permits[k] \in Int /\ Len(queue[k]) \in Nat /\ Cardinality(Reservers(k)) \in Nat
          /\ Cardinality(Takers(k)) \in Nat
        BY <1>1, Numbers
    <2>4. permits[k] + Len(queue'[k]) + Cardinality(Reservers(k)) + Cardinality(Takers(k)') = QueueCapacity
        <3>1. Len(queue'[k]) = Len(queue[k]) - 1
            BY <1>2
        <3>2. permits[k] + (Len(queue[k]) - 1) + Cardinality(Reservers(k)) + (Cardinality(Takers(k)) + 1)
                  = QueueCapacity
            BY <2>3, <2>a, OneForOne
        <3> QED
            BY <2>2, <3>1, <3>2, Zenon
    <2> QED
        BY <1>1, <1>4, <1>6, <2>4 DEF Balanced
<1> QED
    BY <1>5, <1>6

LEMMA HandBalances ==
    ASSUME TypeOK, \A k \in Kinds : Balanced(k), NEW t \in Threads, HandEffect(t), NEW h \in Kinds
    PROVE  Balanced(h)'
<1>0. PICK k \in Kinds : k = Serves(t)
    BY Constants
<1>1. /\ k = Serves(t) /\ k \in Kinds /\ queue' = queue
      /\ \A u \in Threads \ {t} : thread'[u] = thread[u]
      /\ IF thread[t].at = "taken" THEN PermitsMove(k, 1) ELSE permits' = permits
    BY <1>0 DEF HandEffect
<1>2. thread'[t].at # "taken"
    BY DEF HandEffect, Answers, CarriesOn, Idle, Exited
<1>3. Reservers(h)' = Reservers(h)
    BY DEF Reservers, Of, HandEffect, OneJob
<1>4. CASE h # k \/ thread[t].at # "taken"
    <2>1. Takers(h)' = Takers(h)
        BY <1>1, <1>2, <1>4 DEF Takers
    <2>2. permits'[h] = permits[h]
        BY <1>1, <1>4 DEF PermitsMove
    <2> QED
        BY <1>1, <1>3, <2>1, <2>2 DEF Balanced
<1>5. CASE h = k /\ thread[t].at = "taken"
    <2>1. Takers(k)' = Takers(k) \ {t} /\ t \in Takers(k)
        BY <1>1, <1>2, <1>5 DEF Takers
    <2>2. Cardinality(Takers(k)') = Cardinality(Takers(k)) - 1
        BY <1>1, <2>1, Counted, LeftCount
    <2>3. permits'[k] = permits[k] + 1
        BY <1>1, <1>5 DEF PermitsMove
    <2>4. permits[k] + Len(queue[k]) + Cardinality(Reservers(k)) + Cardinality(Takers(k)) = QueueCapacity
        BY <1>1 DEF Balanced
    <2>a. /\ permits[k] \in Int /\ Len(queue[k]) \in Nat /\ Cardinality(Reservers(k)) \in Nat
          /\ Cardinality(Takers(k)) \in Nat
        BY <1>1, Numbers
    <2>5. permits'[k] + Len(queue[k]) + Cardinality(Reservers(k)) + Cardinality(Takers(k)') = QueueCapacity
        <3>1. PICK a, b, c, d : /\ a = permits[k] /\ b = Len(queue[k])
                                /\ c = Cardinality(Reservers(k)) /\ d = Cardinality(Takers(k))
            OBVIOUS
        <3>2. /\ a \in Int /\ b \in Nat /\ c \in Nat /\ d \in Nat
              /\ a + b + c + d = QueueCapacity
            BY <2>4, <2>a, <3>1
        <3>3. (a + 1) + b + c + (d - 1) = QueueCapacity
            BY <3>2
        <3> QED
            BY <2>2, <2>3, <3>1, <3>3
    <2> QED
        BY <1>1, <1>3, <1>5, <2>5 DEF Balanced
<1> QED
    BY <1>4, <1>5

(* Steps that move neither work nor permits.                                *)
LEMMA QuietBalances ==
    ASSUME \A k \in Kinds : Balanced(k), UNCHANGED <<permits, queue, work>>,
           \A t \in Threads : thread'[t].at = "taken" <=> thread[t].at = "taken",
           NEW h \in Kinds
    PROVE  Balanced(h)'
<1>1. Takers(h)' = Takers(h) /\ Reservers(h)' = Reservers(h)
    BY DEF Takers, Reservers
<1> QED
    BY <1>1 DEF Balanced

-----------------------------------------------------------------------------
(* The characters *)

LEMMA CallerHolds ==
    ASSUME OneHolder, HeldIsLive, NEW j \in Jobs, CallerEffect(j)
    PROVE  OneHolder' /\ HeldIsLive'
<1>1. /\ \A i \in Jobs \ {j} : work'[i] = work[i]
      /\ work'[j].held => work[j].held \/ Free(CharacterOf[j])
    BY DEF CallerEffect, OneJob
<1>2. OneHolder'
    BY <1>1 DEF OneHolder, Free
<1>3. HeldIsLive'
    BY <1>1 DEF HeldIsLive, CallerEffect
<1> QED
    BY <1>2, <1>3

LEMMA HandHolds ==
    ASSUME HandFacts, OneHolder, HeldIsLive, NEW t \in Threads, HandEffect(t)
    PROVE  OneHolder' /\ HeldIsLive'
<1> DEFINE j == thread[t].job
<1>1. /\ j \in Jobs /\ Busy(t)
      /\ \A i \in Jobs \ {j} : work'[i] = work[i]
      /\ work'[j].held => work[j].held
      /\ work'[j].state = work[j].state /\ work'[j].call = work[j].call
    BY DEF HandEffect, OneJob
<1>2. work[j].state = "activated" /\ work[j].call = "none" /\ work[j].results = 0
    BY <1>1 DEF HandFacts, HandsHoldOne, JobsOrdered
<1>3. work'[j].held => work'[j].results = 0
    BY <1>2 DEF HandEffect, Answers, CarriesOn
<1>4. OneHolder'
    BY <1>1 DEF OneHolder
<1>5. HeldIsLive'
    BY <1>1, <1>2, <1>3 DEF HeldIsLive
<1> QED
    BY <1>4, <1>5

-----------------------------------------------------------------------------
(* The invariant, and what it says *)

LEMMA InitIInv == Init => IInv
<1> SUFFICES ASSUME Init PROVE IInv
    OBVIOUS
<1>1. /\ permits = [k \in Kinds |-> QueueCapacity] /\ queue = [k \in Kinds |-> <<>>]
      /\ thread = [t \in Threads |-> Idle] /\ \A j \in Jobs : work[j] = Unreserved
    BY DEF Init
<1>2. OneHolder /\ HeldIsLive
    BY <1>1 DEF OneHolder, HeldIsLive, Unreserved
<1>3. ASSUME NEW k \in Kinds PROVE Balanced(k)
    <2>1. Reservers(k) = {} /\ Takers(k) = {}
        BY <1>1 DEF Reservers, Takers, Of, Unreserved, Idle
    <2>2. permits[k] = QueueCapacity /\ queue[k] = <<>>
        BY <1>1
    <2>3. Cardinality({}) = 0 /\ Len(<<>>) = 0
        BY FS_EmptySet
    <2> QED
        BY <2>1, <2>2, <2>3, Constants DEF Balanced
<1> QED
    BY <1>2, <1>3, InitPlaces DEF IInv

LEMMA NextIInv == IInv /\ [Next]_vars => IInv'
<1> SUFFICES ASSUME IInv, [Next]_vars PROVE IInv'
    OBVIOUS
<1>1. /\ Placed /\ TypeOK /\ CallerFacts /\ HandFacts /\ OneHolder /\ HeldIsLive
      /\ \A k \in Kinds : Balanced(k)
    BY DEF IInv, Placed, CallerFacts, HandFacts
<1>2. ASSUME NEW j \in Jobs, Caller(j) PROVE IInv'
    <2>1. CallerEffect(j)
        BY <1>1, <1>2, CallerHas
    <2>2. Placed'
        BY <1>1, <2>1, CallerPlaces
    <2> QED
        BY <1>1, <2>1, <2>2, CallerBalances, CallerHolds DEF IInv
<1>3. ASSUME NEW t \in Threads, Thread(t) PROVE IInv'
    <2>1. CASE Take(t)
        <3>1. Placed'
            BY <1>1, <2>1, TakePlaces
        <3>2. OneHolder' /\ HeldIsLive'
            BY <1>1, <2>1 DEF Take, OneHolder, HeldIsLive
        <3> QED
            BY <1>1, <2>1, <3>1, <3>2, TakeBalances DEF IInv
    <2>2. CASE ~Take(t)
        <3>1. HandEffect(t)
            BY <1>1, <1>3, <2>2, ThreadHas
        <3>2. Placed'
            BY <1>1, <3>1, HandPlaces
        <3> QED
            BY <1>1, <3>1, <3>2, HandBalances, HandHolds DEF IInv
    <2> QED
        BY <2>1, <2>2
<1>4. ASSUME Placed', UNCHANGED <<permits, queue, work>>,
             \A t \in Threads : thread'[t].at = "taken" <=> thread[t].at = "taken"
      PROVE  IInv'
    <2>1. OneHolder' /\ HeldIsLive'
        BY <1>1, <1>4 DEF OneHolder, HeldIsLive
    <2> QED
        BY <1>1, <1>4, <2>1, QuietBalances DEF IInv
<1>5. ASSUME NEW w \in Workers, Exit(w) PROVE IInv'
    <2>1. UNCHANGED <<permits, queue, work>>
        BY <1>5 DEF Exit
    <2>2. \A t \in Threads : thread'[t].at = "taken" <=> thread[t].at = "taken"
        <3>1. thread' = [thread EXCEPT ![w] = Exited] /\ w \in Threads /\ thread[w] = Idle
            BY <1>5 DEF Exit, Exited, Threads
        <3>2. thread'[w] = Exited /\ \A t \in Threads \ {w} : thread'[t] = thread[t]
            BY <1>1, <3>1 DEF TypeOK
        <3> QED
            BY <3>1, <3>2 DEF Idle, Exited
    <2> QED
        BY <1>1, <1>4, <1>5, <2>1, <2>2, ExitPlaces
<1>6. ASSUME NEW k \in Kinds, Run(k) \/ StopRunning(k) \/ Return(k) PROVE IInv'
    <2>1. UNCHANGED <<permits, queue, work, thread>>
        BY <1>6 DEF Run, StopRunning, Return
    <2> QED
        BY <1>1, <1>4, <1>6, <2>1, RunPlaces
<1>7. CASE EngineRun \/ Cancel \/ UNCHANGED vars
    <2>1. UNCHANGED <<permits, queue, work, thread>>
        BY <1>7 DEF EngineRun, Cancel, vars
    <2> QED
        BY <1>1, <1>4, <1>7, <2>1, EnginePlaces
<1>8. CASE runIngressStep
    <2>1. UNCHANGED <<permits, queue, work>> /\ mail # <<>>
        BY <1>8 DEF runIngressStep
    <2>2. mail \in Seq(Threads)
        BY <1>1 DEF TypeOK
    <2>3. Head(mail) = mail[1] /\ 1 \in 1..Len(mail) /\ mail[1] \in Threads
        BY <2>1, <2>2
    <2>4. thread[Head(mail)].at = "waiting"
        BY <1>1, <2>3 DEF Placed, MailHoldsWaiting
    <2>5. thread' = [thread EXCEPT ![Head(mail)].at = "answered"]
        BY <1>8 DEF runIngressStep
    <2>6. thread'[Head(mail)].at # "taken"
        <3>1. thread'[Head(mail)] = [thread[Head(mail)] EXCEPT !.at = "answered"]
            BY <1>1, <2>3, <2>5 DEF TypeOK
        <3>2. thread[Head(mail)] \in Deliveries
            BY <1>1, <2>3, <2>4, HandTypes DEF Busy
        <3> QED
            BY <3>1, <3>2 DEF Deliveries
    <2>7. \A t \in Threads : thread'[t].at = "taken" <=> thread[t].at = "taken"
        BY <1>1, <2>4, <2>5, <2>6 DEF TypeOK
    <2> QED
        BY <1>1, <1>4, <1>8, <2>1, <2>7, IngressPlaces
<1>9. CASE releaseRun
    <2>1. UNCHANGED <<permits, queue, work>>
        BY <1>9 DEF releaseRun
    <2>2. ASSUME NEW t \in Threads PROVE thread'[t].at = "taken" <=> thread[t].at = "taken"
        <3>1. CASE thread[t].at = "waiting"
            <4>1. thread'[t] = [thread[t] EXCEPT !.at = "answered"]
                BY <1>9, <3>1 DEF releaseRun
            <4>2. thread[t] \in Deliveries
                BY <1>1, <3>1, HandTypes DEF Busy
            <4> QED
                BY <3>1, <4>1, <4>2 DEF Deliveries
        <3>2. CASE thread[t].at # "waiting"
            BY <1>9, <3>2 DEF releaseRun
        <3> QED
            BY <3>1, <3>2
    <2> QED
        BY <1>1, <1>4, <1>9, <2>1, <2>2, ReleasePlaces
<1> QED
    BY <1>2, <1>3, <1>5, <1>6, <1>7, <1>8, <1>9 DEF Next, worker, Executor, Engine, Threads

LEMMA Always == Spec => []IInv
BY InitIInv, NextIInv, PTL DEF Spec

(* The simulation is told to let go of an attempt, and to make it again,    *)
(* only if its transaction was never tried, and takes it for done only if   *)
(* it was: for any number of workers, also when executors drain and the     *)
(* engine stops with the answer in its mailbox.                             *)
THEOREM LetGoIsUntried == Spec => []LetGoOnlyUntried
<1>1. IInv => LetGoOnlyUntried
    BY DEF IInv, Placed
<1> QED
    BY <1>1, Always, PTL

(* No work gets two results, and when Run has returned, no activated work   *)
(* of its executor is without one.                                          *)
THEOREM EveryWorkIsAnsweredOnce == Spec => []AnsweredOnce
<1>1. IInv => AnsweredOnce
    <2> SUFFICES ASSUME IInv, NEW j \in Jobs
                 PROVE  /\ work[j].results =< 1
                        /\ run[KindOf[j]] = "returned" /\ work[j].state = "activated" =>
                               work[j].results = 1
        BY DEF AnsweredOnce
    <2> USE DEF IInv, Placed
    <2>1. work[j].results =< 1 /\ work[j].results \in Nat
        <3>1. work[j] \in Works
            BY DEF TypeOK
        <3> QED
            BY <3>1, WorkFields DEF JobsOrdered
    <2>2. ASSUME run[KindOf[j]] = "returned", work[j].state = "activated", work[j].results = 0
          PROVE  FALSE
        <3>1. KindOf[j] \in Kinds
            BY Constants
        <3>2. CASE Queued(j)
            <4>1. queue[KindOf[j]] = <<>>
                BY <2>2, <3>1 DEF ReturnedIsEmpty
            <4>2. Len(<<>>) = 0
                OBVIOUS
            <4> QED
                BY <3>2, <4>1, <4>2 DEF Queued
        <3>3. CASE InHand(j)
            <4>1. PICK t \in Threads : Busy(t) /\ thread[t].job = j
                BY <3>3 DEF InHand
            <4>2. Serves(t) = KindOf[j]
                BY <4>1 DEF HandsHoldOne
            <4>3. thread[t] = Idle \/ thread[t] = Exited
                BY <2>2, <3>1, <4>2 DEF ReturnedIsEmpty, Serves, Threads
            <4> QED
                BY <4>1, <4>3 DEF Busy, Idle, Exited
        <3> QED
            BY <2>2, <3>2, <3>3 DEF NoneMissing
    <2> QED
        BY <2>1, <2>2
<1> QED
    BY <1>1, Always, PTL

(* The permits of an executor, its queue, what is reserved in it and what   *)
(* was just taken from it make up its capacity, whatever failed, was        *)
(* cancelled or refused; and a character is held by one reservation that is *)
(* not over.                                                                *)
THEOREM ReservationsAreBalanced == Spec => []ReservationsBalanced
<1>1. IInv => ReservationsBalanced
    BY DEF IInv, ReservationsBalanced, Balanced, Reservers, Takers, OneHolder, HeldIsLive
<1> QED
    BY <1>1, Always, PTL

=============================================================================
