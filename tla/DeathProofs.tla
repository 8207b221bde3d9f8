----------------------------- MODULE DeathProofs -----------------------------
(***************************************************************************)
(* Theorems of Death.tla for every set of items, every cost, context and   *)
(* power of a portal, every clock, and any number of crashes, faults and   *)
(* attempts: every death is paid for once, a player free to act knows what *)
(* the database holds against it, what is owed only shrinks, and nothing   *)
(* that was played is undone.                                              *)
(*                                                                         *)
(* The argument.  A row has a history: its deaths, free deaths and losses. *)
(* While a request may still be stored, the player and the row have the    *)
(* same history, so that the content a request carries is one death, one   *)
(* loss or nothing more than the row it replaces; this is also why a row   *)
(* that equals the content proves that the request was stored.  A portal   *)
(* holds the character's gate, a death waits for it, and neither a death   *)
(* nor a penalty is stored while a portal's debt is pending.               *)
(***************************************************************************)
EXTENDS Death, TLAPS

-----------------------------------------------------------------------------
(* The inductive invariant *)

Characters == [deaths : Nat, free : Nat, losses : Nat, progress : Nat]

Debts == [phase : {"none", "pending"}, cost : PendingCosts, time : Nat, corpse : Nat, used : BOOLEAN]

Row == db.row[Character].is

CarriedItems == {k \in Items : db.row[k].is = Carried}

SameHistory(a, b) == a.deaths = b.deaths /\ a.free = b.free /\ a.losses = b.losses

(* The database is whole: what is not pending is nothing.                   *)
Stored ==
  /\ db = [row |-> db.row, debt |-> db.debt, corpses |-> db.corpses]
  /\ Row \in Characters
  /\ db.debt \in Debts
  /\ db.corpses \in Nat
  /\ db.debt.phase = "none" => db.debt = NothingPending

(* Before anybody entered, and after a crash.                               *)
Nobody ==
  /\ player = Gone
  /\ deathJob = NoJob /\ portalJob = NoJob /\ penaltyJob = NoJob
  /\ holder = "none"

IsPlayer(p) ==
  p = [life |-> p.life, hp |-> p.hp, is |-> p.is, items |-> p.items, debt |-> p.debt,
       last |-> p.last, deathEpoch |-> p.deathEpoch, portalEpoch |-> p.portalEpoch,
       penaltyEpoch |-> p.penaltyEpoch, flight |-> p.flight, attempt |-> p.attempt]

(* The player is never behind its row.                                      *)
Somebody ==
  /\ IsPlayer(player)
  /\ player.life \in Lives
  /\ player.is \in Characters
  /\ player.debt \in Debts
  /\ Row.progress =< player.is.progress

(* Nothing was stored that the player does not show.                        *)
Unwritten == SameHistory(player.is, Row) /\ player.items = CarriedItems

FreeToAct ==
  In({"Alive", "AwaitingRespawn"}) =>
     Unwritten /\ (~player.flight.active => SameDebt(player.debt, db.debt))

(* A portal in flight keeps its debt: no death and no penalty is stored.    *)
InFlight ==
  player.flight.active =>
     db.debt.phase = "pending" /\ In({"Alive", "AwaitingRespawn", "DeathPersisting"})

(* The content of a death is what the player is, and one death more.        *)
Died(req) ==
  /\ Character \in DOMAIN req.content
  /\ req.content[Character] = IF req.home THEN [player.is EXCEPT !.free = @ + 1]
                              ELSE [player.is EXCEPT !.deaths = @ + 1]
  /\ \A k \in DOMAIN req.content \ {Character} : req.content[k] = player.is.deaths + 1
  /\ req.time \in Nat

DeathWritten ==
  /\ SameHistory(deathJob.req.content[Character], Row)
  /\ player.items \ DOMAIN deathJob.req.content = CarriedItems
  /\ ~player.flight.active

(* A death that is looked into was stored or not; one that is answered was. *)
DeathUnderWay ==
  deathJob.phase # "none" =>
    /\ deathJob.phase \in {"queued", "recover", "deliver"}
    /\ In({"DeathPersisting"})
    /\ Died(deathJob.req)
    /\ deathJob.phase # "queued" => holder = "none"
    /\ CASE deathJob.phase = "queued" -> Unwritten
         [] deathJob.phase = "recover" -> Unwritten \/ DeathWritten
         [] deathJob.phase = "deliver" ->
              /\ DeathWritten
              /\ deathJob.pending \in Debts
              /\ SameDebt(deathJob.pending, db.debt)

(* A portal that may still be stored holds the gate, and carries a row that *)
(* differs from the one it replaces in what was played since.               *)
PortalUnderWay ==
  portalJob.phase # "none" =>
    /\ portalJob.phase \in {"queued", "reload", "deliver"}
    /\ player.flight.active
    /\ portalJob.phase # "deliver" => holder = "portal"
    /\ portalJob.phase = "queued" =>
         LET req == portalJob.req
         IN /\ DOMAIN req.content = {Character}
            /\ req.content[Character] \in Characters
            /\ SameHistory(req.content[Character], Row)
            /\ Row.progress =< req.content[Character].progress
            /\ req.content[Character].progress =< player.is.progress
            /\ req.before = player.debt
            /\ SameDebt(player.debt, db.debt)
    /\ portalJob.phase = "deliver" =>
         portalJob.pending \in Debts /\ SameDebt(portalJob.pending, db.debt)

(* The content of penalties is what the player is, and one loss more.       *)
Captured(req) ==
  /\ DOMAIN req.content = {Character}
  /\ req.content[Character] = [player.is EXCEPT !.losses = @ + 1]

PenaltyWritten ==
  SameHistory(player.attempt.req.content[Character], Row) /\ db.debt.phase = "none"

(* A player held for its penalties keeps their capture; what may be tried   *)
(* again was not stored.                                                    *)
Held ==
  In({"DeathPenaltyPersisting"}) =>
    /\ Captured(player.attempt.req)
    /\ player.items = CarriedItems
    /\ player.attempt = [active |-> player.attempt.active, req |-> player.attempt.req]
    /\ player.attempt.active \in BOOLEAN
    /\ ~player.attempt.active => SameHistory(player.is, Row)

PenaltyUnderWay ==
  penaltyJob.phase # "none" =>
    /\ penaltyJob.phase \in {"queued", "reload", "deliver"}
    /\ In({"DeathPenaltyPersisting"})
    /\ player.attempt.active
    /\ penaltyJob.phase # "deliver" => holder = "penalty" /\ penaltyJob.req = player.attempt.req
    /\ CASE penaltyJob.phase = "queued" -> SameHistory(player.is, Row)
         [] penaltyJob.phase = "reload" -> SameHistory(player.is, Row) \/ PenaltyWritten
         [] penaltyJob.phase = "deliver" -> PenaltyWritten

Inside ==
  /\ Somebody
  /\ FreeToAct
  /\ InFlight
  /\ DeathUnderWay
  /\ PortalUnderWay
  /\ Held
  /\ PenaltyUnderWay

IInv ==
  /\ now \in Nat
  /\ Stored
  /\ PaidOnce
  /\ Nobody \/ Inside

(* What every step does to the debt and to the row (the action properties). *)
DebtStep ==
  LET owed == db.debt  left == db'.debt
  IN owed.phase = "pending" =>
       \/ /\ left.phase = "pending"
          /\ left.time = owed.time
          /\ left.cost =< owed.cost
          /\ owed.used => left.used /\ left.cost = owed.cost
          /\ left.corpse \in {owed.corpse, NoCorpse}
       \/ /\ left.phase = "none"
          /\ db'.row[Character].is.losses = db.row[Character].is.losses + 1

ProgressStep == db'.row[Character].is.progress >= db.row[Character].is.progress

-----------------------------------------------------------------------------
(* What stays when little changes *)

LEMMA SameDatabase ==
  ASSUME Stored, PaidOnce, UNCHANGED db
  PROVE  Stored' /\ PaidOnce' /\ Row' = Row /\ CarriedItems' = CarriedItems
BY DEF Stored, PaidOnce, Row, CarriedItems

(* Neither the database nor the player changes: the jobs are left to see to.*)
LEMMA SameWorld ==
  ASSUME IInv, Inside, UNCHANGED <<now, db, player>>
  PROVE  now' \in Nat /\ Stored' /\ PaidOnce' /\ Somebody' /\ FreeToAct' /\ InFlight' /\ Held'
<1>1. Stored' /\ PaidOnce' /\ Row' = Row /\ CarriedItems' = CarriedItems
  BY SameDatabase DEF IInv
<1>2. Somebody' /\ FreeToAct' /\ InFlight' /\ Held'
  BY <1>1 DEF Inside, Somebody, FreeToAct, InFlight, Held, Captured, In, Unwritten
<1> QED
  BY <1>1, <1>2 DEF IInv

LEMMA SameDeath ==
  ASSUME Inside, UNCHANGED <<db, player, deathJob>>, holder' \in {holder, "none"}
  PROVE  DeathUnderWay'
<1>1. Row' = Row /\ CarriedItems' = CarriedItems
  BY DEF Row, CarriedItems
<1> QED
  BY <1>1 DEF Inside, DeathUnderWay, In, Unwritten, DeathWritten, Died

LEMMA SamePortal ==
  ASSUME Inside, UNCHANGED <<db, player, portalJob>>, portalJob.phase = "none" \/ holder' = holder
  PROVE  PortalUnderWay'
<1>1. Row' = Row
  BY DEF Row
<1> QED
  BY <1>1 DEF Inside, PortalUnderWay

LEMMA SamePenalty ==
  ASSUME Inside, UNCHANGED <<db, player, penaltyJob>>, penaltyJob.phase = "none" \/ holder' = holder
  PROVE  PenaltyUnderWay'
<1>1. Row' = Row
  BY DEF Row
<1> QED
  BY <1>1 DEF Inside, PenaltyUnderWay, PenaltyWritten, In

(* The three kinds of request exclude each other, but for a death that is  *)
(* queued behind a portal.                                                  *)
LEMMA Apart ==
  ASSUME Inside
  PROVE  /\ In({"Alive", "AwaitingRespawn"}) => deathJob.phase = "none" /\ penaltyJob.phase = "none"
         /\ In({"DeathPersisting"}) => penaltyJob.phase = "none"
         /\ In({"DeathPenaltyPersisting"}) => deathJob.phase = "none" /\ portalJob.phase = "none"
         /\ ~player.flight.active => portalJob.phase = "none"
BY DEF Inside, DeathUnderWay, PortalUnderWay, PenaltyUnderWay, InFlight, In

LEMMA InitInv == Init => IInv
  BY DeathConstants DEF Init, IInv, Stored, PaidOnce, Nobody, EmptyDatabase, NewCharacter, NothingPending, NoCorpse, Characters, Debts, PendingCosts, Row, Roots

-----------------------------------------------------------------------------
(* The simulation: a player enters and plays *)

LEMMA EnterWorldInv == ASSUME IInv, EnterWorld PROVE IInv'
<1>1. Nobody /\ db' = db /\ now' = now /\ UNCHANGED <<holder, deathJob, portalJob, penaltyJob>>
  BY DEF EnterWorld, IInv, Inside, Somebody, Lives, In, jobs
<1>2. Stored' /\ PaidOnce' /\ Row' = Row /\ CarriedItems' = CarriedItems
  BY <1>1, SameDatabase DEF IInv
<1>3. /\ IsPlayer(player') /\ player'.life = "Alive" /\ player'.is = Row
      /\ player'.items = CarriedItems /\ player'.debt = db.debt /\ ~player'.flight.active
  BY DEF EnterWorld, LoadPlayerBootstrap, LoadPlayerBootstrapRecovery, IsPlayer, NoAttempt, Row, CarriedItems
<1>4. Row \in Characters /\ db.debt \in Debts /\ Row.progress =< Row.progress
  BY DEF IInv, Stored, Characters
<1>5. Somebody' /\ FreeToAct' /\ InFlight' /\ Held'
  BY <1>1, <1>2, <1>3, <1>4
     DEF Somebody, FreeToAct, InFlight, Held, In, Lives, Unwritten, SameHistory, SameDebt
<1>6. DeathUnderWay' /\ PortalUnderWay' /\ PenaltyUnderWay'
  BY <1>1 DEF Nobody, NoJob, DeathUnderWay, PortalUnderWay, PenaltyUnderWay
<1> QED
  BY <1>1, <1>2, <1>5, <1>6 DEF IInv, Inside

LEMMA PlayInv == ASSUME IInv, Play PROVE IInv'
<1>1. In({"Alive"}) /\ Inside /\ Stored /\ PaidOnce /\ now \in Nat
  BY DEF Play, IInv, Nobody, Gone, In
<1>2. /\ IsPlayer(player')
      /\ player'.life = player.life
      /\ player'.is = [player.is EXCEPT !.progress = @ + 1]
      /\ player'.items = player.items
      /\ player'.debt = player.debt
      /\ player'.flight = player.flight
      /\ player'.attempt = player.attempt
  <2>1. PICK p, q : p = player /\ q = player'
    OBVIOUS
  <2>2. q = [p EXCEPT !.is.progress = @ + 1]
    BY <2>1 DEF Play
  <2>3. IsPlayer(p)
    BY <1>1, <2>1 DEF Inside, Somebody
  <2> QED
    BY <2>1, <2>2, <2>3 DEF IsPlayer
<1>3. db' = db /\ now' = now /\ UNCHANGED <<holder, deathJob, portalJob, penaltyJob>>
  BY DEF Play, saver, jobs
<1>4. Stored' /\ PaidOnce' /\ Row' = Row /\ CarriedItems' = CarriedItems
  BY <1>1, <1>3, SameDatabase
<1>5. /\ player.is \in Characters /\ player'.is \in Characters
      /\ SameHistory(player.is, player'.is)
      /\ player.is.progress =< player'.is.progress
  BY <1>1, <1>2 DEF Inside, Somebody, Characters, SameHistory
<1>6. Somebody'
  BY <1>1, <1>2, <1>4, <1>5 DEF Inside, Somebody, Stored, Characters
<1>7. FreeToAct' /\ InFlight' /\ Held'
  BY <1>1, <1>2, <1>3, <1>4, <1>5 DEF Inside, FreeToAct, InFlight, Held, In, Unwritten, SameHistory
<1>8. DeathUnderWay' /\ PenaltyUnderWay'
  BY <1>1, <1>3, Apart DEF DeathUnderWay, PenaltyUnderWay, In
<1>9. PortalUnderWay'
  BY <1>1, <1>2, <1>3, <1>4, <1>5 DEF Inside, PortalUnderWay, In, Stored, Characters
<1> QED
  BY <1>1, <1>3, <1>4, <1>6, <1>7, <1>8, <1>9 DEF IInv, Inside

(* A step of a player that could play, and still can: what it is, carries   *)
(* and owes stays.                                                          *)
LEMMA StaysFree ==
  ASSUME IInv, Inside, In({"Alive", "AwaitingRespawn"}),
         IsPlayer(player'), In({"Alive", "AwaitingRespawn"})',
         player'.is = player.is, player'.items = player.items, player'.debt = player.debt,
         player'.flight = player.flight, player'.attempt = player.attempt,
         UNCHANGED <<now, db, holder, deathJob, portalJob, penaltyJob>>
  PROVE  IInv'
<1>1. Stored' /\ PaidOnce' /\ Row' = Row /\ CarriedItems' = CarriedItems
  BY SameDatabase DEF IInv
<1>2. Somebody' /\ FreeToAct' /\ InFlight' /\ Held'
  BY <1>1 DEF Inside, Somebody, FreeToAct, InFlight, Held, In, Lives, Unwritten
<1>3. DeathUnderWay' /\ PenaltyUnderWay'
  BY Apart DEF DeathUnderWay, PenaltyUnderWay, In
<1>4. PortalUnderWay'
  BY <1>1 DEF Inside, PortalUnderWay
<1> QED
  BY <1>1, <1>2, <1>3, <1>4 DEF IInv, Inside

LEMMA PlayerLoseHealthInv == ASSUME IInv, PlayerLoseHealth PROVE IInv'
<1>1. In({"Alive"}) /\ Inside
  BY DEF PlayerLoseHealth, IInv, Nobody, Gone, In
<1>2. PICK p, q : p = player /\ q = player'
  OBVIOUS
<1>3. IsPlayer(p) /\ q = [p EXCEPT !.hp = 0]
  BY <1>1, <1>2 DEF PlayerLoseHealth, Inside, Somebody
<1>4. /\ IsPlayer(q) /\ q.life = p.life /\ q.is = p.is /\ q.items = p.items /\ q.debt = p.debt
      /\ q.flight = p.flight /\ q.attempt = p.attempt
  BY <1>3 DEF IsPlayer
<1>5. UNCHANGED <<now, db, holder, deathJob, portalJob, penaltyJob>>
  BY DEF PlayerLoseHealth, saver, jobs
<1> QED
  BY <1>1, <1>2, <1>4, <1>5, StaysFree DEF In

LEMMA PlayerReleaseRespawnInv == ASSUME IInv, PlayerReleaseRespawn PROVE IInv'
<1>1. In({"AwaitingRespawn"}) /\ Inside
  BY DEF PlayerReleaseRespawn, IInv, Nobody, Gone, In
<1>2. PICK p, q : p = player /\ q = player'
  OBVIOUS
<1>3. IsPlayer(p) /\ q = [p EXCEPT !.life = "Alive"]
  BY <1>1, <1>2 DEF PlayerReleaseRespawn, Inside, Somebody
<1>4. /\ IsPlayer(q) /\ q.life = "Alive" /\ q.is = p.is /\ q.items = p.items /\ q.debt = p.debt
      /\ q.flight = p.flight /\ q.attempt = p.attempt
  BY <1>3 DEF IsPlayer
<1>5. UNCHANGED <<now, db, holder, deathJob, portalJob, penaltyJob>>
  BY DEF PlayerReleaseRespawn, saver, jobs
<1> QED
  BY <1>1, <1>2, <1>4, <1>5, StaysFree DEF In

-----------------------------------------------------------------------------
(* The environment *)

(* Time passes and executors stop without a change to anything else.        *)
LEMMA NothingElseInv ==
  ASSUME IInv, UNCHANGED <<db, holder, player, deathJob, portalJob, penaltyJob>>, now' \in Nat
  PROVE  IInv'
<1>1. Stored' /\ PaidOnce' /\ Row' = Row /\ CarriedItems' = CarriedItems
  BY SameDatabase DEF IInv
<1>2. Nobody => Nobody'
  BY DEF Nobody
<1>3. ASSUME Inside PROVE Inside'
  <2>1. Somebody' /\ FreeToAct' /\ InFlight' /\ Held'
    BY <1>1, <1>3 DEF Inside, Somebody, FreeToAct, InFlight, Held, Captured, In, Unwritten
  <2>2. DeathUnderWay' /\ PortalUnderWay' /\ PenaltyUnderWay'
    BY <1>3, SameDeath, SamePortal, SamePenalty
  <2> QED
    BY <2>1, <2>2 DEF Inside
<1> QED
  BY <1>1, <1>2, <1>3 DEF IInv

LEMMA TickInv == ASSUME IInv, Tick PROVE IInv'
<1>1. now' \in Nat
  BY DEF IInv, Tick
<1> QED
  BY <1>1, NothingElseInv DEF Tick, saver, jobs

LEMMA StopInv == ASSUME IInv, Stop PROVE IInv'
<1>1. now' \in Nat
  BY DEF IInv, Stop
<1> QED
  BY <1>1, NothingElseInv DEF Stop, saver, jobs

LEMMA CrashInv == ASSUME IInv, Crash PROVE IInv'
<1>1. now' \in Nat /\ UNCHANGED db
  BY DEF IInv, Crash
<1>2. Stored' /\ PaidOnce'
  BY <1>1, SameDatabase DEF IInv
<1>3. Nobody'
  BY DEF Crash, Nobody
<1> QED
  BY <1>1, <1>2, <1>3 DEF IInv

-----------------------------------------------------------------------------
(* Dying *)

LEMMA DiesInv == ASSUME IInv, Dies PROVE IInv'
<1>1. In({"Alive"}) /\ Inside
  BY DEF Dies, PlayerOrchestrateImmediateDeath, MayDie, IInv, Nobody, Gone, In
<1>2. PICK cost \in Costs, context \in Contexts : PlayerOrchestrateImmediateDeath(cost, context)
  BY DEF Dies
<1>3. UNCHANGED <<now, db, holder, portalJob, penaltyJob>>
  BY <1>2 DEF PlayerOrchestrateImmediateDeath, saver
<1>4. PICK plan : plan = The(PlanDeathDisposition(cost, context, FALSE))
  OBVIOUS
<1>5. PICK p, s, b : p = player /\ s = [p EXCEPT !.last = now] /\ b = PlayerBeginDeathPersistence(s)
  OBVIOUS
<1>6. /\ IsPlayer(p)
      /\ IsPlayer(s) /\ s.life = p.life /\ s.is = p.is /\ s.items = p.items /\ s.debt = p.debt
      /\ s.flight = p.flight /\ s.attempt = p.attempt
  BY <1>1, <1>5 DEF Inside, Somebody, IsPlayer
<1>7. \/ player' \in {s, [s EXCEPT !.hp = 1]} /\ UNCHANGED deathJob
      \/ /\ player' = b
         /\ \E token \in Tokens(plan) :
              deathJob' = IF stopping THEN NoJob
                          ELSE [phase |-> "queued", epoch |-> b.deathEpoch,
                                req |-> MapImmediateDeathCapture(BuildImmediateDeathCapture(plan, token))]
  BY <1>2, <1>4, <1>5 DEF PlayerOrchestrateImmediateDeath
<1>8. CASE player' \in {s, [s EXCEPT !.hp = 1]} /\ UNCHANGED deathJob
  <2>1. PICK q : q = player'
    OBVIOUS
  <2>2. /\ IsPlayer(q) /\ q.life = p.life /\ q.is = p.is /\ q.items = p.items /\ q.debt = p.debt
        /\ q.flight = p.flight /\ q.attempt = p.attempt
    BY <1>6, <1>8, <2>1 DEF IsPlayer
  <2> QED
    BY <1>1, <1>3, <1>5, <1>8, <2>1, <2>2, StaysFree DEF In
<1>9. CASE /\ player' = b
           /\ \E token \in Tokens(plan) :
                deathJob' = IF stopping THEN NoJob
                            ELSE [phase |-> "queued", epoch |-> b.deathEpoch,
                                  req |-> MapImmediateDeathCapture(BuildImmediateDeathCapture(plan, token))]
  <2>1. /\ IsPlayer(player') /\ player'.life = "DeathPersisting" /\ player'.is = player.is
        /\ player'.items = player.items /\ player'.debt = player.debt
        /\ player'.flight = player.flight
    BY <1>5, <1>6, <1>9 DEF PlayerBeginDeathPersistence, IsPlayer
  <2>2. Stored' /\ PaidOnce' /\ Row' = Row /\ CarriedItems' = CarriedItems
    BY <1>3, SameDatabase DEF IInv
  <2>3. Somebody' /\ FreeToAct' /\ InFlight' /\ Held'
    BY <1>1, <1>3, <2>1, <2>2 DEF Inside, Somebody, FreeToAct, InFlight, Held, In, Lives
  <2>4. PortalUnderWay' /\ PenaltyUnderWay'
    BY <1>1, <1>3, <2>1, <2>2, Apart DEF Inside, PortalUnderWay, PenaltyUnderWay, In
  <2>5. Unwritten'
    BY <1>1, <2>1, <2>2 DEF Inside, FreeToAct, Unwritten, In
  <2>6. ASSUME NEW token, NEW req, req = MapImmediateDeathCapture(BuildImmediateDeathCapture(plan, token))
        PROVE  Died(req)'
    <3>1. now \in Nat
      BY DEF IInv
    <3>2. PICK S, owed : BuildImmediateDeathCapture(plan, token) =
                           [is |-> applyDeath(plan), plan |-> plan, affected |-> S, pending |-> owed]
      BY Zenon DEF BuildImmediateDeathCapture
    <3>3. PICK cap : /\ cap = BuildImmediateDeathCapture(plan, token)
                     /\ cap.is = applyDeath(plan) /\ cap.plan = plan /\ cap.affected = S
      BY <3>2
    <3>4. /\ req.content = [k \in S \cup {Character} |->
                              IF k = Character THEN applyDeath(plan) ELSE player.is.deaths + 1]
          /\ req.time = now /\ req.home = plan.newbieHome
      BY <2>6, <3>3 DEF MapImmediateDeathCapture
    <3>5. req.content[Character] = applyDeath(plan) /\ Character \in DOMAIN req.content
      BY <3>4
    <3>6. \A k \in DOMAIN req.content \ {Character} : req.content[k] = player.is.deaths + 1
      BY <3>4
    <3> QED
      BY <2>1, <3>1, <3>4, <3>5, <3>6 DEF Died, applyDeath
  <2>7. DeathUnderWay'
    <3>1. CASE deathJob' = NoJob
      BY <3>1 DEF DeathUnderWay, NoJob
    <3>2. CASE deathJob' # NoJob
      <4>1. PICK token : deathJob' = [phase |-> "queued", epoch |-> b.deathEpoch,
                           req |-> MapImmediateDeathCapture(BuildImmediateDeathCapture(plan, token))]
        BY <1>9, <3>2
      <4>2. PICK req : req = MapImmediateDeathCapture(BuildImmediateDeathCapture(plan, token))
        OBVIOUS
      <4>3. deathJob'.phase = "queued" /\ deathJob'.req = req
        BY <4>1, <4>2
      <4>4. Died(req)'
        BY <2>6, <4>2
      <4>5. Died(deathJob.req)'
        BY <4>3, <4>4 DEF Died
      <4> QED
        BY <2>1, <2>5, <4>3, <4>5 DEF DeathUnderWay, In
    <3> QED
      BY <3>1, <3>2
  <2> QED
    BY <1>3, <2>2, <2>3, <2>4, <2>7 DEF IInv, Inside
<1> QED
  BY <1>7, <1>8, <1>9

LEMMA GiveUpDeathInv == ASSUME IInv, GiveUpDeath PROVE IInv'
<1>1. Inside
  BY DEF GiveUpDeath, IInv, Nobody, NoJob
<1>2. UNCHANGED <<now, db, holder, player, portalJob, penaltyJob>> /\ deathJob' = NoJob
  BY DEF GiveUpDeath, saver
<1>3. now' \in Nat /\ Stored' /\ PaidOnce' /\ Somebody' /\ FreeToAct' /\ InFlight' /\ Held'
  BY <1>1, <1>2, SameWorld
<1>4. PortalUnderWay' /\ PenaltyUnderWay'
  BY <1>1, <1>2, SamePortal, SamePenalty
<1>5. DeathUnderWay'
  BY <1>2 DEF DeathUnderWay, NoJob
<1> QED
  BY <1>3, <1>4, <1>5 DEF IInv, Inside

(* A death commits only where nothing is owed, so that no portal is open.   *)
LEMMA DeathCommits ==
  ASSUME IInv, Inside, deathJob.phase = "queued", UNCHANGED <<now, player>>,
         db' \in CommitDeathEntry(db, deathJob.req, known)
  PROVE  /\ Stored' /\ PaidOnce'
         /\ SameHistory(deathJob.req.content[Character], Row')
         /\ player.items \ DOMAIN deathJob.req.content = CarriedItems'
         /\ Row'.progress =< player.is.progress /\ Row.progress =< Row'.progress
         /\ ~player.flight.active
         /\ db.debt.phase = "none"
         /\ db'.debt = completionWithNormalPending(deathJob.req, db'.corpses)
<1> DEFINE req == deathJob.req
<1>1. /\ db.debt.phase = "none"
      /\ req.cost \in PendingCosts
      /\ db' = [row |-> Written(db, req.content), corpses |-> db.corpses + 1,
                debt |-> completionWithNormalPending(req, db.corpses + 1)]
  BY DEF CommitDeathEntry, validateDeathEntryRequest, completionWithNormalPending
<1>2. Died(req) /\ Unwritten
  BY DEF Inside, DeathUnderWay
<1>3. ~player.flight.active
  BY <1>1 DEF Inside, InFlight
<1>4. \A k \in Roots : db'.row[k].is = IF k \in DOMAIN req.content THEN req.content[k] ELSE db.row[k].is
  BY <1>1 DEF Written
<1>5. Row' = req.content[Character]
  BY <1>2, <1>4 DEF Roots, Died, Row
<1>6. player.is \in Characters /\ Row \in Characters /\ Row.progress =< player.is.progress
  BY DEF Inside, Somebody, IInv, Stored
<1>7. /\ Row' \in Characters /\ Row'.progress = player.is.progress
      /\ Row'.losses = player.is.losses
      /\ Row'.deaths = player.is.deaths + IF req.home THEN 0 ELSE 1
  BY <1>2, <1>5, <1>6 DEF Died, Characters
<1>8. player.items \ DOMAIN req.content = CarriedItems'
  <2>1. \A k \in Items : k \in DOMAIN req.content => db'.row[k].is # Carried
    BY <1>2, <1>4, <1>6, RootsAreDistinct DEF Roots, Died, Carried, Characters
  <2>2. \A k \in Items : k \notin DOMAIN req.content => db'.row[k].is = db.row[k].is
    BY <1>4 DEF Roots
  <2> QED
    BY <1>2, <2>1, <2>2 DEF Unwritten, CarriedItems
<1>9. db'.debt \in Debts /\ (db'.debt.phase = "none" => db'.debt = NothingPending)
      /\ (db'.debt.phase = "none" <=> req.home)
  BY <1>1, <1>2 DEF completionWithNormalPending, Died, Debts, NothingPending, IInv, Stored, PendingCosts
<1>10. Stored'
  BY <1>1, <1>7, <1>9 DEF Stored, IInv
<1>11. PaidOnce'
  BY <1>1, <1>2, <1>6, <1>7, <1>9 DEF PaidOnce, IInv, Unwritten, SameHistory, Row, Characters, Debts
<1> QED
  BY <1>1, <1>3, <1>5, <1>6, <1>7, <1>8, <1>10, <1>11 DEF SameHistory, Characters

LEMMA commitDeathEntryObservedInv ==
  ASSUME IInv, commitDeathEntryObserved
  PROVE  IInv' /\ DebtStep /\ ProgressStep
<1> DEFINE req == deathJob.req
<1>1. Inside /\ deathJob.phase = "queued"
  BY DEF commitDeathEntryObserved, IInv, Nobody, NoJob
<1>2. holder = "none" /\ UNCHANGED <<now, holder, player, portalJob, penaltyJob>>
  BY DEF commitDeathEntryObserved, Unreserved
<1>3. /\ deathJob'.req = req
      /\ \/ /\ db' \in CommitDeathEntry(db, req, known)
            /\ deathJob'.phase = "deliver"
            /\ deathJob'.pending = completionWithNormalPending(req, db'.corpses)
         \/ /\ db' \in CommitDeathEntry(db, req, known) \cup {db}
            /\ deathJob'.phase = "recover"
  BY DEF commitDeathEntryObserved
<1>4. Died(req) /\ In({"DeathPersisting"}) /\ Unwritten
  BY <1>1 DEF Inside, DeathUnderWay
<1>6. CASE db' = db /\ deathJob'.phase = "recover"
  <2>1. now' \in Nat /\ Stored' /\ PaidOnce' /\ Somebody' /\ FreeToAct' /\ InFlight' /\ Held'
    BY <1>1, <1>2, <1>6, SameWorld
  <2>2. PortalUnderWay' /\ PenaltyUnderWay'
    BY <1>1, <1>2, <1>6, SamePortal, SamePenalty
  <2>3. DeathUnderWay'
    BY <1>2, <1>3, <1>4, <1>6 DEF DeathUnderWay, Died, In, Unwritten, CarriedItems, Row
  <2>4. DebtStep /\ ProgressStep
    BY <1>6 DEF IInv, Stored, DebtStep, ProgressStep, Row, Debts, PendingCosts, Characters
  <2> QED
    BY <2>1, <2>2, <2>3, <2>4 DEF IInv, Inside
<1>7. CASE db' \in CommitDeathEntry(db, req, known)
  <2>1. /\ Stored' /\ PaidOnce'
        /\ SameHistory(req.content[Character], Row')
        /\ player.items \ DOMAIN req.content = CarriedItems'
        /\ Row'.progress =< player.is.progress /\ Row.progress =< Row'.progress
        /\ ~player.flight.active
        /\ db.debt.phase = "none"
        /\ db'.debt = completionWithNormalPending(req, db'.corpses)
    BY <1>1, <1>2, <1>7, DeathCommits
  <2>2. Somebody' /\ FreeToAct' /\ InFlight' /\ Held'
    BY <1>1, <1>2, <1>4, <2>1 DEF Inside, Somebody, FreeToAct, InFlight, Held, In
  <2>3. PortalUnderWay' /\ PenaltyUnderWay'
    BY <1>1, <1>2, <1>4, <2>1, Apart DEF PortalUnderWay, PenaltyUnderWay
  <2>4. DeathWritten'
    BY <1>2, <1>3, <2>1 DEF DeathWritten
  <2>5. deathJob'.phase = "deliver" => deathJob'.pending = db'.debt
    BY <1>3, <2>1
  <2>6. db'.debt \in Debts
    BY <2>1 DEF Stored
  <2>7. DeathUnderWay'
    BY <1>2, <1>3, <1>4, <2>4, <2>5, <2>6 DEF DeathUnderWay, Died, In, SameDebt
  <2>8. DebtStep /\ ProgressStep
    <3>1. Row \in Characters /\ Row' \in Characters
      BY <2>1 DEF IInv, Stored
    <3> QED
      BY <2>1, <3>1 DEF DebtStep, ProgressStep, Row, Characters
  <2> QED
    BY <1>2, <2>1, <2>2, <2>3, <2>7, <2>8 DEF IInv, Inside
<1> QED
  BY <1>3, <1>6, <1>7

(* Recovery reads the character with its debt.                              *)
LEMMA ReadsCharacter == ReadRoots[Character] = LoadDeathCharacterRecovery(db)
  BY DEF ReadRoots, Roots

(* What proves a death: a row that the death made, which no other row is.   *)
LEMMA DeathIsProved ==
  ASSUME Inside, deathJob.phase = "recover", NEW expected,
         proveDeathCommit(deathJob.req, expected, ReadRoots)
  PROVE  DeathWritten
<1>1. Died(deathJob.req) /\ (Unwritten \/ DeathWritten) /\ player.is \in Characters
  BY DEF Inside, DeathUnderWay, Somebody
<1>2. ReadRoots[Character].is = deathJob.req.content[Character]
  BY <1>1 DEF proveDeathCommit, EqualContent, Died
<1>3. Row = deathJob.req.content[Character]
  BY <1>2, ReadsCharacter DEF LoadDeathCharacterRecovery, Row
<1>4. Row.deaths # player.is.deaths \/ Row.free # player.is.free
  BY <1>1, <1>3 DEF Died, Characters
<1> QED
  BY <1>1, <1>4 DEF Unwritten, SameHistory

LEMMA recoverInv == ASSUME IInv, NEW failed \in SUBSET Roots, recover(failed) PROVE IInv'
<1>1. Inside /\ deathJob.phase = "recover"
  BY DEF recover, IInv, Nobody, NoJob
<1>2. UNCHANGED <<now, db, holder, player, portalJob, penaltyJob>>
  BY DEF recover
<1>3. \/ deathJob' = NoJob
      \/ /\ proveDeathCommit(deathJob.req, deathJob.expected, ReadRoots)
         /\ deathJob' = [phase |-> "deliver", epoch |-> deathJob.epoch, req |-> deathJob.req,
                         pending |-> completionWithRecoveredPending(ReadRoots)]
  BY DEF recover
<1>4. now' \in Nat /\ Stored' /\ PaidOnce' /\ Somebody' /\ FreeToAct' /\ InFlight' /\ Held'
  BY <1>1, <1>2, SameWorld
<1>5. PortalUnderWay' /\ PenaltyUnderWay'
  BY <1>1, <1>2, SamePortal, SamePenalty
<1>6. CASE deathJob' = NoJob
  BY <1>4, <1>5, <1>6 DEF IInv, Inside, DeathUnderWay, NoJob
<1>7. CASE deathJob' # NoJob
  <2>1. DeathWritten /\ Died(deathJob.req) /\ In({"DeathPersisting"}) /\ holder = "none"
    BY <1>1, <1>3, <1>7, DeathIsProved DEF Inside, DeathUnderWay
  <2>2. deathJob'.phase = "deliver" /\ deathJob'.req = deathJob.req /\ deathJob'.pending = db.debt
    BY <1>3, <1>7, ReadsCharacter DEF completionWithRecoveredPending, LoadDeathCharacterRecovery
  <2>3. DeathWritten' /\ Died(deathJob.req)'
    BY <1>2, <2>1, <2>2 DEF DeathWritten, Died, Row, CarriedItems
  <2>4. db.debt \in Debts
    BY DEF IInv, Stored
  <2>5. DeathUnderWay'
    BY <1>2, <2>1, <2>2, <2>3, <2>4 DEF DeathUnderWay, In, SameDebt
  <2> QED
    BY <1>4, <1>5, <2>5 DEF IInv, Inside
<1> QED
  BY <1>6, <1>7

LEMMA DeliverDeathInv == ASSUME IInv, DeliverDeath PROVE IInv'
<1>1. Inside /\ deathJob.phase = "deliver"
  BY DEF DeliverDeath, IInv, Nobody, NoJob
<1>2. UNCHANGED <<now, db, holder, portalJob, penaltyJob>> /\ deathJob' = NoJob
  BY DEF DeliverDeath, saver
<1>3. player' = player \/ player' = PlayerAcceptImmediateDeathCompletion(deathJob)
  BY DEF DeliverDeath
<1>4. DeathUnderWay'
  BY <1>2 DEF DeathUnderWay, NoJob
<1>5. CASE player' = player
  <2>1. now' \in Nat /\ Stored' /\ PaidOnce' /\ Somebody' /\ FreeToAct' /\ InFlight' /\ Held'
    BY <1>1, <1>2, <1>5, SameWorld
  <2>2. PortalUnderWay' /\ PenaltyUnderWay'
    BY <1>1, <1>2, <1>5, SamePortal, SamePenalty
  <2> QED
    BY <1>4, <2>1, <2>2 DEF IInv, Inside
<1>6. CASE player' = PlayerAcceptImmediateDeathCompletion(deathJob)
  <2>1. PICK p, q, job : p = player /\ q = player' /\ job = deathJob
    OBVIOUS
  <2>2. q = [p EXCEPT !.life = "AwaitingRespawn", !.hp = 1, !.is = job.req.content[Character],
                      !.items = @ \ DOMAIN job.req.content, !.debt = job.pending]
    BY <1>6, <2>1 DEF PlayerAcceptImmediateDeathCompletion
  <2>3. IsPlayer(p)
    BY <1>1, <2>1 DEF Inside, Somebody
  <2>4. /\ IsPlayer(q) /\ q.life = "AwaitingRespawn" /\ q.is = job.req.content[Character]
        /\ q.items = p.items \ DOMAIN job.req.content /\ q.debt = job.pending
        /\ q.flight = p.flight
    BY <2>2, <2>3 DEF IsPlayer
  <2>5. /\ Died(job.req) /\ DeathWritten /\ job.pending \in Debts /\ SameDebt(job.pending, db.debt)
        /\ player.is \in Characters /\ Row.progress =< player.is.progress
        /\ portalJob.phase = "none" /\ penaltyJob.phase = "none"
    BY <1>1, <2>1, Apart DEF Inside, Somebody, DeathUnderWay, DeathWritten
  <2>6. q.is \in Characters /\ q.is.progress = player.is.progress
    BY <2>4, <2>5 DEF Died, Characters
  <2>7. Stored' /\ PaidOnce' /\ Row' = Row /\ CarriedItems' = CarriedItems
    BY <1>2, SameDatabase DEF IInv
  <2>8. Somebody' /\ InFlight' /\ Held'
    BY <2>1, <2>4, <2>5, <2>6, <2>7 DEF Somebody, InFlight, Held, In, Lives, DeathWritten
  <2>9. FreeToAct'
    BY <1>2, <2>1, <2>4, <2>5, <2>7 DEF FreeToAct, Unwritten, DeathWritten
  <2>10. PortalUnderWay' /\ PenaltyUnderWay'
    BY <1>2, <2>5 DEF PortalUnderWay, PenaltyUnderWay
  <2> QED
    BY <1>2, <1>4, <2>7, <2>8, <2>9, <2>10 DEF IInv, Inside
<1> QED
  BY <1>3, <1>5, <1>6

-----------------------------------------------------------------------------
(* The portal of life *)

LEMMA OpensInv == ASSUME IInv, Opens PROVE IInv'
<1>1. Inside /\ In({"AwaitingRespawn", "Alive"}) /\ ~player.flight.active /\ player.debt.phase = "pending"
  BY DEF Opens, PlayerOrchestratePortalOfLife, MayOpen, IInv, Nobody, Gone, In
<1>2. PICK power \in Powers : PlayerOrchestratePortalOfLife(power)
  BY DEF Opens
<1>3. UNCHANGED <<now, db, deathJob, penaltyJob>>
  BY <1>2 DEF PlayerOrchestratePortalOfLife
<1>4. PICK p, q, capture : p = player /\ q = player' /\ capture = PortalOfLifeCapture(power)
  OBVIOUS
<1>5. IsPlayer(p)
  BY <1>1, <1>4 DEF Inside, Somebody
<1>6. \/ q = [p EXCEPT !.portalEpoch = @ + 1] /\ UNCHANGED <<holder, portalJob>>
      \/ /\ holder = "none" /\ holder' = "portal"
         /\ q = [p EXCEPT !.portalEpoch = @ + 1,
                          !.flight = [active |-> TRUE, before |-> capture.before,
                                      effective |-> capture.effective]]
         /\ portalJob'.phase = "queued"
         /\ portalJob'.req = MapPortalOfLifeCapture(capture)
  BY <1>2, <1>4 DEF PlayerOrchestratePortalOfLife, ReserveCharacter, Unreserved
<1>7. CASE q = [p EXCEPT !.portalEpoch = @ + 1] /\ UNCHANGED <<holder, portalJob>>
  <2>1. /\ IsPlayer(q) /\ q.life = p.life /\ q.is = p.is /\ q.items = p.items /\ q.debt = p.debt
        /\ q.flight = p.flight /\ q.attempt = p.attempt
    BY <1>5, <1>7 DEF IsPlayer
  <2> QED
    BY <1>1, <1>3, <1>4, <1>7, <2>1, StaysFree DEF In
<1>8. CASE /\ holder = "none" /\ holder' = "portal"
           /\ q = [p EXCEPT !.portalEpoch = @ + 1,
                            !.flight = [active |-> TRUE, before |-> capture.before,
                                        effective |-> capture.effective]]
           /\ portalJob'.phase = "queued"
           /\ portalJob'.req = MapPortalOfLifeCapture(capture)
  <2>1. /\ IsPlayer(q) /\ q.life = p.life /\ q.is = p.is /\ q.items = p.items /\ q.debt = p.debt
        /\ q.flight.active /\ q.attempt = p.attempt
    BY <1>5, <1>8 DEF IsPlayer
  <2>2. capture.is = player.is /\ capture.before = player.debt
    <3>1. PICK a, b : capture = [is |-> player.is, before |-> player.debt, proposed |-> a, effective |-> b]
      BY <1>4, Zenon DEF PortalOfLifeCapture
    <3> QED
      BY <3>1
  <2>3. Stored' /\ PaidOnce' /\ Row' = Row /\ CarriedItems' = CarriedItems
    BY <1>3, SameDatabase DEF IInv
  <2>4. Unwritten /\ SameDebt(player.debt, db.debt) /\ db.debt.phase = "pending"
    <3>1. Unwritten /\ SameDebt(player.debt, db.debt)
      BY <1>1 DEF Inside, FreeToAct, In
    <3> QED
      BY <1>1, <3>1 DEF SameDebt, Inside, Somebody, IInv, Stored, Debts
  <2>5. Somebody' /\ FreeToAct' /\ InFlight' /\ Held'
    BY <1>1, <1>3, <1>4, <2>1, <2>3, <2>4
       DEF Inside, Somebody, FreeToAct, InFlight, Held, In, Lives, Unwritten
  <2>6. DeathUnderWay' /\ PenaltyUnderWay'
    BY <1>1, <1>3, Apart DEF DeathUnderWay, PenaltyUnderWay, In
  <2>7. PICK req : req = portalJob'.req
    OBVIOUS
  <2>8. /\ req.content = [k \in {Character} |-> player.is] /\ req.before = player.debt
    BY <1>8, <2>2, <2>7 DEF MapPortalOfLifeCapture
  <2>9. /\ DOMAIN req.content = {Character} /\ req.content[Character] = player.is
    BY <2>8
  <2>10. player.is \in Characters /\ Row.progress =< player.is.progress /\ SameHistory(player.is, Row)
    BY <1>1, <2>4 DEF Inside, Somebody, Unwritten
  <2>11. PortalUnderWay'
    <3>1. SameDebt(player.debt, db.debt)'
      BY <1>3, <1>4, <2>1, <2>4 DEF SameDebt
    <3> QED
      BY <1>4, <1>8, <2>1, <2>3, <2>7, <2>8, <2>9, <2>10, <3>1 DEF PortalUnderWay, Characters
  <2> QED
    BY <1>3, <2>3, <2>5, <2>6, <2>11 DEF IInv, Inside
<1> QED
  BY <1>6, <1>7, <1>8

(* What a transaction leaves that writes the character's row alone, a row   *)
(* with the same history: everybody's view of it.                           *)
LEMMA HistoryKept ==
  ASSUME IInv, NEW content, DOMAIN content = {Character}, content[Character] \in Characters,
         SameHistory(content[Character], Row), NEW debt \in Debts,
         debt.phase = db.debt.phase, debt.phase = "none" => debt = NothingPending,
         db' = [db EXCEPT !.row = Written(db, content), !.debt = debt]
  PROVE  /\ Stored' /\ PaidOnce'
         /\ Row' = content[Character] /\ CarriedItems' = CarriedItems /\ db'.debt = debt
         /\ SameHistory(player.is, Row) => SameHistory(player.is, Row')
<1>1. Stored /\ PaidOnce
  BY DEF IInv
<1>2. PICK r, d, e : r = Written(db, content) /\ d = db /\ e = db'
  OBVIOUS
<1>3. d = [row |-> d.row, debt |-> d.debt, corpses |-> d.corpses]
      /\ e = [d EXCEPT !.row = r, !.debt = debt]
  BY <1>1, <1>2 DEF Stored
<1>31. e = [row |-> e.row, debt |-> e.debt, corpses |-> e.corpses]
      /\ e.row = r /\ e.debt = debt /\ e.corpses = d.corpses
  BY <1>3
<1>4. /\ db' = [row |-> db'.row, debt |-> db'.debt, corpses |-> db'.corpses]
      /\ db'.row = r /\ db'.debt = debt /\ db'.corpses = db.corpses
  BY <1>2, <1>31
<1>5. /\ r[Character].is = content[Character]
      /\ \A k \in Items : r[k].is = db.row[k].is
  BY <1>2, RootsAreDistinct DEF Written, Roots
<1>51. Row' = content[Character]
  BY <1>4, <1>5 DEF Row
<1>6. CarriedItems' = CarriedItems
  BY <1>4, <1>5 DEF CarriedItems
<1>7. Stored'
  BY <1>1, <1>4, <1>51 DEF Stored
<1>8. PaidOnce'
  BY <1>1, <1>4, <1>51 DEF PaidOnce, Row, SameHistory
<1> QED
  BY <1>4, <1>51, <1>6, <1>7, <1>8 DEF SameHistory

(* A portal commits on the debt it was opened for, and lowers it.           *)
LEMMA PortalCommits ==
  ASSUME IInv, Inside, portalJob.phase = "queued", UNCHANGED <<now, player>>,
         db' \in CommitPortalOfLife(db, portalJob.req, known)
  PROVE  /\ Stored' /\ PaidOnce' /\ CarriedItems' = CarriedItems
         /\ SameHistory(player.is, Row) => SameHistory(player.is, Row')
         /\ Row'.progress =< player.is.progress /\ Row.progress =< Row'.progress
         /\ db'.debt.phase = "pending"
         /\ db'.debt = [db.debt EXCEPT !.cost = db'.debt.cost, !.used = TRUE]
         /\ db'.debt.cost =< db.debt.cost /\ ~db.debt.used
<1> DEFINE req == portalJob.req
           cost == IF req.proposed < db.debt.cost THEN req.proposed ELSE db.debt.cost
<1>1. /\ db.debt.phase = "pending" /\ ~db.debt.used /\ req.proposed \in 5 .. 80
      /\ db' = [db EXCEPT !.row = Written(db, req.content), !.debt.cost = cost, !.debt.used = TRUE]
  BY DEF CommitPortalOfLife, validatePortalOfLifeRequest
<1>2. /\ DOMAIN req.content = {Character} /\ req.content[Character] \in Characters
      /\ SameHistory(req.content[Character], Row)
      /\ Row.progress =< req.content[Character].progress
      /\ req.content[Character].progress =< player.is.progress
  BY DEF Inside, PortalUnderWay
<1>3. PICK d, e : d = db.debt /\ e = [d EXCEPT !.cost = cost, !.used = TRUE]
  OBVIOUS
<1>4. d \in Debts
  BY <1>3 DEF IInv, Stored
<1>5. cost \in PendingCosts /\ cost =< d.cost
  <2>1. d.cost \in PendingCosts /\ cost = IF req.proposed < d.cost THEN req.proposed ELSE d.cost
    BY <1>3, <1>4 DEF Debts
  <2> HIDE DEF cost
  <2> QED
    <3>1. req.proposed \in PendingCosts
      BY <1>1, SMT DEF PendingCosts
    <3>2. cost \in PendingCosts
      BY <2>1, <3>1
    <3>3. req.proposed \in Int /\ d.cost \in Int
      BY <2>1, <3>1, SMT DEF PendingCosts
    <3> QED
      BY <2>1, <3>2, <3>3
<1>6. e \in Debts /\ e.phase = "pending" /\ e.cost = cost
  BY <1>1, <1>3, <1>4, <1>5 DEF Debts
<1>7. db' = [db EXCEPT !.row = Written(db, req.content), !.debt = e]
  BY <1>1, <1>3 DEF IInv, Stored
<1>8. /\ Stored' /\ PaidOnce' /\ Row' = req.content[Character] /\ CarriedItems' = CarriedItems
      /\ db'.debt = e
      /\ SameHistory(player.is, Row) => SameHistory(player.is, Row')
  <2>1. PICK content : content = req.content
    OBVIOUS
  <2>2. /\ DOMAIN content = {Character} /\ content[Character] \in Characters
        /\ SameHistory(content[Character], Row)
        /\ e.phase = db.debt.phase /\ (e.phase = "none" => e = NothingPending)
        /\ db' = [db EXCEPT !.row = Written(db, content), !.debt = e]
    BY <1>1, <1>2, <1>6, <1>7, <2>1
  <2> HIDE DEF req
  <2> QED
    BY <1>6, <2>1, <2>2, HistoryKept
<1> QED
  BY <1>1, <1>2, <1>3, <1>5, <1>6, <1>8

LEMMA ExecutePortalInv ==
  ASSUME IInv, ExecutePortal
  PROVE  IInv' /\ DebtStep /\ ProgressStep
<1> DEFINE req == portalJob.req
<1>1. Inside /\ portalJob.phase = "queued"
  BY DEF ExecutePortal, IInv, Nobody, NoJob
<1>2. UNCHANGED <<now, player, deathJob, penaltyJob>>
  BY DEF ExecutePortal
<1>3. \/ /\ db' \in CommitPortalOfLife(db, req, known)
         /\ holder' = "none"
         /\ portalJob'.phase = "deliver"
         /\ portalJob'.pending = normalPortalCompletion(req, db'.debt.cost)
      \/ /\ db' \in CommitPortalOfLife(db, req, known) \cup {db}
         /\ holder' = holder
         /\ portalJob'.phase = "reload"
  BY DEF ExecutePortal
<1>4. /\ player.flight.active /\ holder = "portal"
      /\ req.before = player.debt /\ SameDebt(player.debt, db.debt)
      /\ deathJob.phase \in {"none", "queued"} /\ penaltyJob.phase = "none"
      /\ db.debt.phase = "pending"
      /\ player.debt \in Debts /\ db.debt \in Debts
  BY <1>1, Apart DEF Inside, PortalUnderWay, DeathUnderWay, InFlight, In, Somebody, IInv, Stored
<1>5. CASE db' = db /\ holder' = holder /\ portalJob'.phase = "reload"
  <2>1. now' \in Nat /\ Stored' /\ PaidOnce' /\ Somebody' /\ FreeToAct' /\ InFlight' /\ Held'
    BY <1>1, <1>2, <1>5, SameWorld
  <2>2. DeathUnderWay' /\ PenaltyUnderWay'
    BY <1>1, <1>2, <1>5, SameDeath, SamePenalty
  <2>3. PortalUnderWay'
    BY <1>2, <1>4, <1>5 DEF PortalUnderWay
  <2>4. DebtStep /\ ProgressStep
    BY <1>5 DEF IInv, Stored, DebtStep, ProgressStep, Row, Debts, PendingCosts, Characters
  <2> QED
    BY <2>1, <2>2, <2>3, <2>4 DEF IInv, Inside
<1>6. CASE db' \in CommitPortalOfLife(db, req, known)
  <2>1. /\ Stored' /\ PaidOnce' /\ CarriedItems' = CarriedItems
        /\ SameHistory(player.is, Row) => SameHistory(player.is, Row')
        /\ Row'.progress =< player.is.progress /\ Row.progress =< Row'.progress
        /\ db'.debt.phase = "pending"
        /\ db'.debt = [db.debt EXCEPT !.cost = db'.debt.cost, !.used = TRUE]
        /\ db'.debt.cost =< db.debt.cost /\ ~db.debt.used
    BY <1>1, <1>2, <1>6, PortalCommits
  <2>2. Somebody' /\ FreeToAct' /\ InFlight' /\ Held'
    BY <1>1, <1>2, <1>4, <2>1 DEF Inside, Somebody, FreeToAct, InFlight, Held, In, Unwritten
  <2>3. DeathUnderWay' /\ PenaltyUnderWay'
    BY <1>1, <1>2, <1>4, <2>1 DEF Inside, DeathUnderWay, PenaltyUnderWay, In, Unwritten, Died
  <2>4. PortalUnderWay'
    <3>1. CASE portalJob'.phase = "reload" /\ holder' = holder
      BY <1>2, <1>4, <3>1 DEF PortalUnderWay
    <3>2. CASE /\ portalJob'.phase = "deliver"
               /\ portalJob'.pending = normalPortalCompletion(req, db'.debt.cost)
      <4>1. PICK a, b, c, n : /\ a = player.debt /\ b = db.debt /\ c = db'.debt
                              /\ n = portalJob'.pending
        OBVIOUS
      <4>2. n = [a EXCEPT !.cost = c.cost, !.used = TRUE] /\ c = [b EXCEPT !.cost = c.cost, !.used = TRUE]
        BY <1>4, <2>1, <3>2, <4>1 DEF normalPortalCompletion
      <4>3. a \in Debts /\ b \in Debts /\ c \in Debts /\ SameDebt(a, b)
        BY <1>4, <2>1, <4>1 DEF Stored
      <4>4. a.phase = b.phase /\ a.time = b.time
        BY <4>3 DEF Debts, SameDebt
      <4>5. n \in Debts
        BY <4>2, <4>3 DEF Debts
      <4>6. c.phase = b.phase /\ c.time = b.time /\ c.used = TRUE
        BY <4>2, <4>3 DEF Debts
      <4>7. n.phase = c.phase /\ n.time = c.time /\ n.used = c.used /\ n.cost = c.cost
        BY <4>2, <4>3, <4>4, <4>6 DEF Debts
      <4>8. SameDebt(n, c)
        BY <4>3, <4>5, <4>7 DEF Debts, SameDebt
      <4> QED
        BY <1>2, <1>4, <3>2, <4>1, <4>5, <4>8 DEF PortalUnderWay
    <3> QED
      BY <1>3, <3>1, <3>2
  <2>5. DebtStep /\ ProgressStep
    <3>1. Row \in Characters /\ Row' \in Characters
      BY <2>1 DEF IInv, Stored
    <3>2. db'.debt.time = db.debt.time /\ db'.debt.corpse = db.debt.corpse
      BY <1>4, <2>1 DEF Debts
    <3> QED
      BY <2>1, <3>1, <3>2 DEF DebtStep, ProgressStep, Row, Characters
  <2> QED
    BY <1>2, <2>1, <2>2, <2>3, <2>4, <2>5 DEF IInv, Inside
<1> QED
  BY <1>3, <1>5, <1>6

LEMMA ReloadPortalInv == ASSUME IInv, NEW reads \in BOOLEAN, ReloadPortal(reads) PROVE IInv'
<1>1. Inside /\ portalJob.phase = "reload"
  BY DEF ReloadPortal, IInv, Nobody, NoJob
<1>2. UNCHANGED <<now, db, player, deathJob, penaltyJob>> /\ holder' = "none"
  BY DEF ReloadPortal
<1>3. \/ portalJob' = NoJob
      \/ portalJob' = [phase |-> "deliver", epoch |-> portalJob.epoch,
                       pending |-> recoveredPortalCompletion(ReadRoots)]
  BY DEF ReloadPortal
<1>4. now' \in Nat /\ Stored' /\ PaidOnce' /\ Somebody' /\ FreeToAct' /\ InFlight' /\ Held'
  BY <1>1, <1>2, SameWorld
<1>5. player.flight.active /\ penaltyJob.phase = "none"
  BY <1>1, Apart DEF Inside, PortalUnderWay, InFlight, In
<1>6. DeathUnderWay' /\ PenaltyUnderWay'
  BY <1>1, <1>2, <1>5, SameDeath, SamePenalty
<1>7. PortalUnderWay'
  <2>1. CASE portalJob' = NoJob
    BY <2>1 DEF PortalUnderWay, NoJob
  <2>2. CASE portalJob' # NoJob
    <3>1. portalJob'.phase = "deliver" /\ portalJob'.pending = db.debt
      BY <1>3, <2>2, ReadsCharacter DEF recoveredPortalCompletion, LoadDeathCharacterRecovery
    <3>2. db.debt \in Debts
      BY DEF IInv, Stored
    <3> QED
      BY <1>2, <1>5, <3>1, <3>2 DEF PortalUnderWay, SameDebt
  <2> QED
    BY <2>1, <2>2
<1> QED
  BY <1>4, <1>6, <1>7 DEF IInv, Inside

(* A portal closes, its attempt with it: what was owed by then is known.    *)
LEMMA PortalCloses ==
  ASSUME IInv, Inside, portalJob.phase # "none", UNCHANGED <<now, db, deathJob, penaltyJob>>,
         portalJob' = NoJob, holder' \in {holder, "none"},
         NEW debt \in Debts, SameDebt(debt, db.debt),
         player' = [player EXCEPT !.debt = debt, !.flight = NoAttempt]
  PROVE  IInv'
<1>1. /\ player.flight.active
      /\ penaltyJob.phase = "none"
      /\ In({"Alive", "AwaitingRespawn", "DeathPersisting"})
      /\ deathJob.phase # "none" => ~DeathWritten
  BY Apart DEF Inside, PortalUnderWay, InFlight, In, DeathWritten
<1>2. PICK p, q : p = player /\ q = player'
  OBVIOUS
<1>3. IsPlayer(p) /\ q = [p EXCEPT !.debt = debt, !.flight = NoAttempt]
  BY <1>2 DEF Inside, Somebody
<1>4. /\ IsPlayer(q) /\ q.life = p.life /\ q.is = p.is /\ q.items = p.items /\ q.debt = debt
      /\ ~q.flight.active
  BY <1>3 DEF IsPlayer, NoAttempt
<1>5. Stored' /\ PaidOnce' /\ Row' = Row /\ CarriedItems' = CarriedItems
  BY SameDatabase DEF IInv
<1>6. Somebody' /\ FreeToAct' /\ InFlight' /\ Held'
  BY <1>1, <1>2, <1>4, <1>5 DEF Inside, Somebody, FreeToAct, InFlight, Held, In, Unwritten
<1>7. PortalUnderWay' /\ PenaltyUnderWay'
  BY <1>1 DEF PortalUnderWay, PenaltyUnderWay, NoJob
<1>8. DeathUnderWay'
  BY <1>1, <1>2, <1>4, <1>5, ZenonT(30) DEF Inside, DeathUnderWay, In, Died, Unwritten
<1> QED
  BY <1>5, <1>6, <1>7, <1>8 DEF IInv, Inside

LEMMA DeliverPortalInv == ASSUME IInv, DeliverPortal PROVE IInv'
<1>1. Inside /\ portalJob.phase = "deliver"
  BY DEF DeliverPortal, IInv, Nobody, NoJob
<1>2. UNCHANGED <<now, db, holder, deathJob, penaltyJob>> /\ portalJob' = NoJob
  BY DEF DeliverPortal, saver
<1>3. player' = player \/ player' = PlayerAcceptPortalOfLifeCompletion(portalJob)
  BY DEF DeliverPortal
<1>4. CASE player' = player
  <2>1. now' \in Nat /\ Stored' /\ PaidOnce' /\ Somebody' /\ FreeToAct' /\ InFlight' /\ Held'
    BY <1>1, <1>2, <1>4, SameWorld
  <2>2. DeathUnderWay' /\ PenaltyUnderWay'
    BY <1>1, <1>2, <1>4, SameDeath, SamePenalty
  <2>3. PortalUnderWay'
    BY <1>2 DEF PortalUnderWay, NoJob
  <2> QED
    BY <2>1, <2>2, <2>3 DEF IInv, Inside
<1>5. CASE player' = PlayerAcceptPortalOfLifeCompletion(portalJob)
  <2>1. PICK debt : debt = portalJob.pending
    OBVIOUS
  <2>2. debt \in Debts /\ SameDebt(debt, db.debt)
    BY <1>1, <2>1 DEF Inside, PortalUnderWay
  <2>3. player' = [player EXCEPT !.debt = debt, !.flight = NoAttempt]
    BY <1>5, <2>1 DEF PlayerAcceptPortalOfLifeCompletion
  <2> QED
    BY <1>1, <1>2, <2>2, <2>3, PortalCloses
<1> QED
  BY <1>3, <1>4, <1>5

LEMMA AbortPortalInv == ASSUME IInv, AbortPortal PROVE IInv'
<1>1. Inside /\ portalJob.phase = "queued"
  BY DEF AbortPortal, IInv, Nobody, NoJob
<1>2. UNCHANGED <<now, db, deathJob, penaltyJob>> /\ portalJob' = NoJob /\ holder' = "none"
  BY DEF AbortPortal
<1>3. player' = player \/ player' = PlayerAbortPortalOfLifeAttempt
  BY DEF AbortPortal
<1>4. player.flight.active /\ penaltyJob.phase = "none"
  BY <1>1, Apart DEF Inside, PortalUnderWay, InFlight, In
<1>5. CASE player' = player
  <2>1. now' \in Nat /\ Stored' /\ PaidOnce' /\ Somebody' /\ FreeToAct' /\ InFlight' /\ Held'
    BY <1>1, <1>2, <1>5, SameWorld
  <2>2. DeathUnderWay' /\ PenaltyUnderWay'
    BY <1>1, <1>2, <1>4, <1>5, SameDeath, SamePenalty
  <2>3. PortalUnderWay'
    BY <1>2 DEF PortalUnderWay, NoJob
  <2> QED
    BY <2>1, <2>2, <2>3 DEF IInv, Inside
<1>6. CASE player' = PlayerAbortPortalOfLifeAttempt
  <2>1. PICK p, debt : p = player /\ debt = p.debt
    OBVIOUS
  <2>2. debt \in Debts /\ SameDebt(debt, db.debt) /\ IsPlayer(p)
    BY <1>1, <2>1 DEF Inside, PortalUnderWay, Somebody
  <2>3. [p EXCEPT !.flight = NoAttempt] = [p EXCEPT !.debt = debt, !.flight = NoAttempt]
    BY <2>1, <2>2 DEF IsPlayer
  <2>4. player' = [player EXCEPT !.debt = debt, !.flight = NoAttempt]
    BY <1>6, <2>1, <2>3 DEF PlayerAbortPortalOfLifeAttempt
  <2> QED
    BY <1>1, <1>2, <2>2, <2>4, PortalCloses
<1> QED
  BY <1>3, <1>5, <1>6

-----------------------------------------------------------------------------
(* The penalties *)

(* Preparing, the first time and again: the player is held with a capture   *)
(* of what it is.                                                           *)
LEMMA PersistHolds ==
  ASSUME IInv, Inside, UNCHANGED <<now, db, deathJob, portalJob>>,
         deathJob.phase = "none", portalJob.phase = "none", penaltyJob.phase = "none",
         ~player.flight.active, Unwritten,
         NEW attempting, IsPlayer(attempting), attempting.life = "DeathPenaltyPersisting",
         attempting.is = player.is, attempting.items = player.items,
         attempting.debt = player.debt, attempting.flight = player.flight,
         NEW req, DOMAIN req.content = {Character},
         req.content[Character] = [player.is EXCEPT !.losses = @ + 1],
         Persist(attempting, req)
  PROVE  IInv'
<1>0. PICK active \in BOOLEAN : player' = [attempting EXCEPT !.attempt = [active |-> active, req |-> req]]
  <2>1. \/ player' = [attempting EXCEPT !.attempt = [active |-> TRUE, req |-> req]]
        \/ player' = [attempting EXCEPT !.attempt = [active |-> FALSE, req |-> req]]
    BY DEF Persist
  <2> QED
    BY <2>1, Zenon
<1>1. PICK q : q = player' /\ q = [attempting EXCEPT !.attempt = [active |-> active, req |-> req]]
  BY <1>0, Zenon
<1>2. /\ IsPlayer(q) /\ q.life = "DeathPenaltyPersisting" /\ q.is = player.is
      /\ q.items = player.items /\ q.debt = player.debt /\ q.flight = player.flight
      /\ q.attempt = [active |-> active, req |-> req]
  BY <1>1 DEF IsPlayer
<1>3. Stored' /\ PaidOnce' /\ Row' = Row /\ CarriedItems' = CarriedItems
  BY SameDatabase DEF IInv
<1>4. Somebody' /\ FreeToAct' /\ InFlight'
  BY <1>1, <1>2, <1>3 DEF Inside, Somebody, FreeToAct, InFlight, In, Lives
<1>5. Held'
  BY <1>1, <1>2, <1>3 DEF Held, In, Captured, Unwritten
<1>6. DeathUnderWay' /\ PortalUnderWay'
  BY DEF DeathUnderWay, PortalUnderWay
<1>7. PenaltyUnderWay'
  <2>1. CASE UNCHANGED penaltyJob
    BY <2>1 DEF PenaltyUnderWay
  <2>2. CASE /\ holder' = "penalty"
             /\ player' = [attempting EXCEPT !.attempt = [active |-> TRUE, req |-> req]]
             /\ penaltyJob' = [phase |-> "queued", epoch |-> attempting.penaltyEpoch, req |-> req]
    <3>1. q.attempt.active /\ q.attempt.req = req
      <4>1. PICK at : at = [active |-> TRUE, req |-> req]
        OBVIOUS
      <4>2. q = [attempting EXCEPT !.attempt = at]
        BY <1>1, <2>2, <4>1
      <4>3. q.attempt = at
        BY <4>2 DEF IsPlayer
      <4> QED
        BY <4>1, <4>3
    <3>2. penaltyJob'.phase = "queued" /\ penaltyJob'.req = req
      BY <2>2
    <3> QED
      BY <1>1, <1>2, <1>3, <2>2, <3>1, <3>2 DEF PenaltyUnderWay, In, Unwritten
  <2> QED
    BY <2>1, <2>2 DEF Persist, ReserveCharacter
<1> QED
  BY <1>3, <1>4, <1>5, <1>6, <1>7 DEF IInv, Inside

LEMMA PlayerOrchestrateDeathPenaltiesInv ==
  ASSUME IInv, PlayerOrchestrateDeathPenalties
  PROVE  IInv'
<1>1. Inside /\ In({"Alive"}) /\ ~player.flight.active
  BY DEF PlayerOrchestrateDeathPenalties, MayPay, IInv, Nobody, Gone, In
<1>2. UNCHANGED <<now, db, deathJob, portalJob>>
  BY DEF PlayerOrchestrateDeathPenalties
<1>3. Unwritten /\ deathJob.phase = "none" /\ portalJob.phase = "none" /\ penaltyJob.phase = "none"
  BY <1>1, Apart DEF Inside, FreeToAct, In
<1>4. PICK p, a, req :
        /\ p = player
        /\ a = [p EXCEPT !.life = "DeathPenaltyPersisting", !.penaltyEpoch = @ + 1]
        /\ req = MapDeathPenaltyCapture
  OBVIOUS
<1>5. Persist(a, req)
  BY <1>4 DEF PlayerOrchestrateDeathPenalties
<1>6. IsPlayer(p)
  BY <1>1, <1>4 DEF Inside, Somebody
<1>7. /\ IsPlayer(a) /\ a.life = "DeathPenaltyPersisting" /\ a.is = p.is /\ a.items = p.items
      /\ a.debt = p.debt /\ a.flight = p.flight
  BY <1>4, <1>6 DEF IsPlayer
<1>8. DOMAIN req.content = {Character} /\ req.content[Character] = [player.is EXCEPT !.losses = @ + 1]
  BY <1>4 DEF MapDeathPenaltyCapture, applyDeathPenaltyPlanToDurable
<1> QED
  BY <1>1, <1>2, <1>3, <1>4, <1>5, <1>7, <1>8, PersistHolds

LEMMA PlayerRetryDeathPenaltyPersistenceInv ==
  ASSUME IInv, PlayerRetryDeathPenaltyPersistence
  PROVE  IInv'
<1>1. Inside /\ In({"DeathPenaltyPersisting"}) /\ ~player.attempt.active
  BY DEF PlayerRetryDeathPenaltyPersistence, IInv, Nobody, Gone, In
<1>2. UNCHANGED <<now, db, deathJob, portalJob>>
  BY DEF PlayerRetryDeathPenaltyPersistence
<1>3. Unwritten /\ deathJob.phase = "none" /\ portalJob.phase = "none" /\ penaltyJob.phase = "none"
      /\ ~player.flight.active
  BY <1>1, Apart DEF Inside, Held, Unwritten, PenaltyUnderWay, InFlight, In
<1>4. PICK p, req : p = player /\ req = p.attempt.req
  OBVIOUS
<1>5. Persist(p, req)
  BY <1>4 DEF PlayerRetryDeathPenaltyPersistence
<1>6. IsPlayer(p) /\ p.life = "DeathPenaltyPersisting"
  BY <1>1, <1>4 DEF Inside, Somebody, In
<1>7. DOMAIN req.content = {Character} /\ req.content[Character] = [player.is EXCEPT !.losses = @ + 1]
  BY <1>1, <1>4 DEF Inside, Held, Captured
<1> QED
  BY <1>1, <1>2, <1>3, <1>4, <1>5, <1>6, <1>7, PersistHolds

(* The penalties commit where a death is owed for: they are one loss more.  *)
LEMMA PenaltyCommits ==
  ASSUME IInv, Inside, penaltyJob.phase = "queued", UNCHANGED <<now, player>>,
         db' \in CommitDeathPenalties(db, penaltyJob.req, known)
  PROVE  /\ Stored' /\ PaidOnce' /\ CarriedItems' = CarriedItems
         /\ PenaltyWritten'
         /\ Row'.progress =< player.is.progress /\ Row.progress =< Row'.progress
         /\ Row'.losses = Row.losses + 1
<1>1. PICK req, r, d, e : /\ req = penaltyJob.req /\ r = Written(db, req.content)
                          /\ d = db /\ e = db'
  OBVIOUS
<1>2. /\ d.debt.phase = "pending"
      /\ e = [d EXCEPT !.row = r, !.debt = NothingPending]
  BY <1>1 DEF CommitDeathPenalties
<1>3. /\ req = player.attempt.req /\ DOMAIN req.content = {Character}
      /\ req.content[Character] = [player.is EXCEPT !.losses = @ + 1]
      /\ SameHistory(player.is, Row) /\ player.is \in Characters /\ Row \in Characters
      /\ Row.progress =< player.is.progress
  BY <1>1 DEF Inside, PenaltyUnderWay, Held, Captured, Somebody, IInv, Stored
<1>4. d = [row |-> d.row, debt |-> d.debt, corpses |-> d.corpses] /\ d.corpses \in Nat
  BY <1>1 DEF IInv, Stored
<1>5. /\ e = [row |-> e.row, debt |-> e.debt, corpses |-> e.corpses]
      /\ e.row = r /\ e.debt = NothingPending /\ e.corpses = d.corpses
  BY <1>2, <1>4
<1>6. /\ r[Character].is = req.content[Character]
      /\ \A k \in Items : r[k].is = db.row[k].is
  BY <1>1, <1>3, RootsAreDistinct DEF Written, Roots
<1>7. Row' = req.content[Character] /\ CarriedItems' = CarriedItems
  BY <1>1, <1>5, <1>6 DEF Row, CarriedItems
<1>8. /\ Row' \in Characters /\ Row'.deaths = Row.deaths /\ Row'.losses = Row.losses + 1
      /\ Row'.progress = player.is.progress
  BY <1>3, <1>7 DEF Characters, SameHistory
<1>9. NothingPending \in Debts /\ NothingPending.phase = "none"
  BY SMT DEF NothingPending, Debts, PendingCosts
<1>10. Stored'
  BY <1>1, <1>4, <1>5, <1>8, <1>9 DEF Stored
<1>11. PaidOnce'
  <2>1. Row.deaths = Row.losses + 1
    BY <1>1, <1>2 DEF IInv, PaidOnce, Row
  <2>2. Row'.deaths = Row'.losses
    BY <1>3, <1>8, <2>1 DEF Characters
  <2> QED
    BY <1>1, <1>5, <1>8, <1>9, <2>2 DEF PaidOnce, Row, Characters
<1>12. PenaltyWritten'
  <2>1. SameHistory(player.attempt.req.content[Character], Row')
    BY <1>1, <1>3, <1>7 DEF SameHistory
  <2> QED
    BY <1>1, <1>5, <1>9, <2>1 DEF PenaltyWritten
<1> QED
  BY <1>3, <1>7, <1>8, <1>10, <1>11, <1>12 DEF Characters

LEMMA ExecutePenaltyInv ==
  ASSUME IInv, ExecutePenalty
  PROVE  IInv' /\ DebtStep /\ ProgressStep
<1> DEFINE req == penaltyJob.req
<1>1. Inside /\ penaltyJob.phase = "queued"
  BY DEF ExecutePenalty, IInv, Nobody, NoJob
<1>2. UNCHANGED <<now, player, deathJob, portalJob>>
  BY DEF ExecutePenalty
<1>3. \/ /\ db' \in CommitDeathPenalties(db, req, known)
         /\ holder' = "none"
         /\ penaltyJob'.phase = "deliver"
      \/ /\ db' \in CommitDeathPenalties(db, req, known) \cup {db}
         /\ holder' = holder
         /\ penaltyJob'.phase = "reload" /\ penaltyJob'.req = req
  BY DEF ExecutePenalty
<1>4. /\ In({"DeathPenaltyPersisting"}) /\ player.attempt.active
      /\ holder = "penalty" /\ req = player.attempt.req /\ SameHistory(player.is, Row)
      /\ deathJob.phase = "none" /\ portalJob.phase = "none"
      /\ ~player.flight.active
  BY <1>1, Apart DEF Inside, PenaltyUnderWay, InFlight, In
<1>5. DeathUnderWay' /\ PortalUnderWay'
  BY <1>2, <1>4 DEF DeathUnderWay, PortalUnderWay
<1>6. CASE db' = db /\ holder' = holder /\ penaltyJob'.phase = "reload" /\ penaltyJob'.req = req
  <2>1. now' \in Nat /\ Stored' /\ PaidOnce' /\ Somebody' /\ FreeToAct' /\ InFlight' /\ Held'
    BY <1>1, <1>2, <1>6, SameWorld
  <2>2. PenaltyUnderWay'
    BY <1>2, <1>4, <1>6 DEF PenaltyUnderWay, In, Row
  <2>3. DebtStep /\ ProgressStep
    BY <1>6 DEF IInv, Stored, DebtStep, ProgressStep, Row, Debts, PendingCosts, Characters
  <2> QED
    BY <1>5, <2>1, <2>2, <2>3 DEF IInv, Inside
<1>7. CASE db' \in CommitDeathPenalties(db, req, known)
  <2>1. /\ Stored' /\ PaidOnce' /\ CarriedItems' = CarriedItems
        /\ PenaltyWritten'
        /\ Row'.progress =< player.is.progress /\ Row.progress =< Row'.progress
        /\ Row'.losses = Row.losses + 1
    BY <1>1, <1>2, <1>7, PenaltyCommits
  <2>2. Somebody' /\ FreeToAct' /\ InFlight' /\ Held'
    BY <1>1, <1>2, <1>4, <2>1 DEF Inside, Somebody, FreeToAct, InFlight, Held, In, Captured
  <2>3. PenaltyUnderWay'
    BY <1>2, <1>3, <1>4, <2>1 DEF PenaltyUnderWay, In
  <2>4. DebtStep /\ ProgressStep
    <3>1. Row \in Characters /\ Row' \in Characters /\ db'.debt.phase = "none"
      BY <2>1 DEF IInv, Stored, PenaltyWritten
    <3> QED
      BY <2>1, <3>1 DEF DebtStep, ProgressStep, Row, Characters
  <2> QED
    BY <1>2, <1>5, <2>1, <2>2, <2>3, <2>4 DEF IInv, Inside
<1> QED
  BY <1>3, <1>6, <1>7

(* What proves the penalties: a row that suffered them.                     *)
LEMMA PenaltyIsProved ==
  ASSUME Inside, penaltyJob.phase = "reload", provePenaltyCommit(penaltyJob.req, known, ReadRoots)
  PROVE  PenaltyWritten
<1>1. /\ penaltyJob.req = player.attempt.req /\ Captured(player.attempt.req)
      /\ player.is \in Characters
      /\ SameHistory(player.is, Row) \/ PenaltyWritten
  BY DEF Inside, PenaltyUnderWay, Held, Somebody
<1>2. ReadRoots[Character].is = player.attempt.req.content[Character]
  BY <1>1 DEF provePenaltyCommit, EqualContent, Captured
<1>3. Row = player.attempt.req.content[Character]
  BY <1>2, ReadsCharacter DEF LoadDeathCharacterRecovery, Row
<1>4. Row.losses # player.is.losses
  BY <1>1, <1>3 DEF Captured, Characters
<1> QED
  BY <1>1, <1>4 DEF SameHistory

LEMMA ReloadPenaltyInv == ASSUME IInv, NEW reads \in BOOLEAN, ReloadPenalty(reads) PROVE IInv'
<1>1. Inside /\ penaltyJob.phase = "reload"
  BY DEF ReloadPenalty, IInv, Nobody, NoJob
<1>2. UNCHANGED <<now, db, player, deathJob, portalJob>> /\ holder' = "none"
  BY DEF ReloadPenalty
<1>3. \/ penaltyJob' = NoJob
      \/ /\ provePenaltyCommit(penaltyJob.req, known, ReadRoots)
         /\ penaltyJob'.phase = "deliver"
  BY DEF ReloadPenalty
<1>4. now' \in Nat /\ Stored' /\ PaidOnce' /\ Somebody' /\ FreeToAct' /\ InFlight' /\ Held'
  BY <1>1, <1>2, SameWorld
<1>5. /\ In({"DeathPenaltyPersisting"}) /\ player.attempt.active
      /\ deathJob.phase = "none" /\ portalJob.phase = "none"
  BY <1>1, Apart DEF Inside, PenaltyUnderWay
<1>6. DeathUnderWay' /\ PortalUnderWay'
  BY <1>2, <1>5 DEF DeathUnderWay, PortalUnderWay
<1>7. PenaltyUnderWay'
  <2>1. CASE penaltyJob' = NoJob
    BY <2>1 DEF PenaltyUnderWay, NoJob
  <2>2. CASE provePenaltyCommit(penaltyJob.req, known, ReadRoots) /\ penaltyJob'.phase = "deliver"
    <3>1. PenaltyWritten
      BY <1>1, <2>2, PenaltyIsProved
    <3>2. PenaltyWritten'
      BY <1>2, <3>1 DEF PenaltyWritten, Row
    <3> QED
      BY <1>2, <1>5, <2>2, <3>2 DEF PenaltyUnderWay, In
  <2> QED
    BY <1>3, <2>1, <2>2
<1> QED
  BY <1>4, <1>6, <1>7 DEF IInv, Inside

LEMMA DeliverPenaltyInv == ASSUME IInv, DeliverPenalty PROVE IInv'
<1>1. Inside /\ penaltyJob.phase = "deliver"
  BY DEF DeliverPenalty, IInv, Nobody, NoJob
<1>2. UNCHANGED <<now, db, holder, deathJob, portalJob>> /\ penaltyJob' = NoJob
  BY DEF DeliverPenalty, saver
<1>3. player' = player \/ player' = PlayerAcceptDeathPenaltyCompletion
  BY DEF DeliverPenalty
<1>4. /\ In({"DeathPenaltyPersisting"}) /\ PenaltyWritten
      /\ deathJob.phase = "none" /\ portalJob.phase = "none" /\ ~player.flight.active
  BY <1>1, Apart DEF Inside, PenaltyUnderWay, InFlight, In
<1>5. DeathUnderWay' /\ PortalUnderWay' /\ PenaltyUnderWay'
  BY <1>2, <1>4 DEF DeathUnderWay, PortalUnderWay, PenaltyUnderWay, NoJob
<1>6. CASE player' = player
  BY <1>1, <1>2, <1>5, <1>6, SameWorld DEF IInv, Inside
<1>7. CASE player' = PlayerAcceptDeathPenaltyCompletion
  <2>1. PICK p, q, req : p = player /\ q = player' /\ req = p.attempt.req
    OBVIOUS
  <2>2. IsPlayer(p) /\ q = [p EXCEPT !.life = "Alive", !.attempt = NoAttempt,
                                     !.is = req.content[Character], !.debt = NothingPending]
    BY <1>1, <1>7, <2>1 DEF PlayerAcceptDeathPenaltyCompletion, Inside, Somebody
  <2>3. /\ IsPlayer(q) /\ q.life = "Alive" /\ q.is = req.content[Character] /\ q.items = p.items
        /\ q.debt = NothingPending /\ q.flight = p.flight
    BY <2>2 DEF IsPlayer
  <2>4. /\ req.content[Character] = [player.is EXCEPT !.losses = @ + 1]
        /\ player.is \in Characters /\ Row.progress =< player.is.progress
        /\ player.items = CarriedItems
    BY <1>1, <1>4, <2>1 DEF Inside, Held, Captured, Somebody
  <2>5. q.is \in Characters /\ q.is.progress = player.is.progress /\ SameHistory(q.is, Row)
    BY <1>4, <2>1, <2>3, <2>4 DEF Characters, PenaltyWritten
  <2>6. db.debt = NothingPending /\ NothingPending \in Debts
    BY <1>4 DEF IInv, Stored, PenaltyWritten
  <2>7. Stored' /\ PaidOnce' /\ Row' = Row /\ CarriedItems' = CarriedItems
    BY <1>2, SameDatabase DEF IInv
  <2>8. Somebody' /\ InFlight' /\ Held'
    BY <1>4, <2>1, <2>3, <2>4, <2>5, <2>6, <2>7 DEF Somebody, InFlight, Held, In, Lives
  <2>9. FreeToAct'
    BY <1>2, <2>1, <2>3, <2>4, <2>5, <2>6, <2>7 DEF FreeToAct, Unwritten, SameDebt
  <2> QED
    BY <1>2, <1>5, <2>7, <2>8, <2>9 DEF IInv, Inside
<1> QED
  BY <1>3, <1>6, <1>7

LEMMA DropPenaltyInv == ASSUME IInv, DropPenalty PROVE IInv'
<1>1. Inside /\ penaltyJob.phase = "queued"
  BY DEF DropPenalty, IInv, Nobody, NoJob
<1>2. UNCHANGED <<now, db, deathJob, portalJob>> /\ penaltyJob' = NoJob
  BY DEF DropPenalty
<1>3. player' = player \/ player' = PlayerMarkDeathPenaltyPersistenceRetryable
  BY DEF DropPenalty
<1>4. /\ In({"DeathPenaltyPersisting"}) /\ SameHistory(player.is, Row)
      /\ deathJob.phase = "none" /\ portalJob.phase = "none" /\ ~player.flight.active
  BY <1>1, Apart DEF Inside, PenaltyUnderWay, InFlight, In
<1>5. DeathUnderWay' /\ PortalUnderWay' /\ PenaltyUnderWay'
  BY <1>2, <1>4 DEF DeathUnderWay, PortalUnderWay, PenaltyUnderWay, NoJob
<1>6. CASE player' = player
  BY <1>1, <1>2, <1>5, <1>6, SameWorld DEF IInv, Inside
<1>7. CASE player' = PlayerMarkDeathPenaltyPersistenceRetryable
  <2>1. PICK p, q, at : p = player /\ q = player' /\ at = [p.attempt EXCEPT !.active = FALSE]
    OBVIOUS
  <2>2. IsPlayer(p) /\ q = [p EXCEPT !.attempt = at]
    BY <1>1, <1>7, <2>1 DEF PlayerMarkDeathPenaltyPersistenceRetryable, Inside, Somebody
  <2>3. /\ IsPlayer(q) /\ q.life = p.life /\ q.is = p.is /\ q.items = p.items
        /\ q.debt = p.debt /\ q.flight = p.flight /\ q.attempt = at
    BY <2>2 DEF IsPlayer
  <2>4. at = [active |-> FALSE, req |-> p.attempt.req]
    BY <1>1, <1>4, <2>1 DEF Inside, Held
  <2>41. at = [active |-> at.active, req |-> at.req] /\ at.active = FALSE /\ at.req = p.attempt.req
    BY <2>4
  <2>5. Stored' /\ PaidOnce' /\ Row' = Row /\ CarriedItems' = CarriedItems
    BY <1>2, SameDatabase DEF IInv
  <2>6. Somebody' /\ FreeToAct' /\ InFlight'
    BY <1>1, <1>4, <2>1, <2>3, <2>5 DEF Inside, Somebody, FreeToAct, InFlight, In
  <2>7. Held'
    BY <1>1, <1>4, <2>1, <2>3, <2>41, <2>5 DEF Inside, Held, In, Captured
  <2> QED
    BY <1>2, <1>5, <2>5, <2>6, <2>7 DEF IInv, Inside
<1> QED
  BY <1>3, <1>6, <1>7

-----------------------------------------------------------------------------
(* The environment writes *)

LEMMA SaveSnapshotInv ==
  ASSUME IInv, SaveSnapshot
  PROVE  IInv' /\ DebtStep /\ ProgressStep
<1>1. /\ Inside /\ holder = "none"
      /\ UNCHANGED <<now, holder, player, deathJob, portalJob, penaltyJob>>
      /\ db' \in SaveRoot(db, Character, player.is, known[Character])
  BY DEF SaveSnapshot, IInv, Nobody, Gone, NoJob, In, Unreserved, jobs
<1>2. /\ SameHistory(player.is, Row)
      /\ deathJob.phase \in {"none", "queued"}
      /\ portalJob.phase \in {"none", "deliver"}
      /\ penaltyJob.phase = "none"
  BY <1>1, Apart DEF SaveSnapshot, Inside, FreeToAct, DeathUnderWay, PortalUnderWay,
                     Held, PenaltyUnderWay, Unwritten, In
<1>3. PICK content, debt : content = [k \in {Character} |-> player.is] /\ debt = db.debt
  OBVIOUS
<1>4. /\ DOMAIN content = {Character} /\ content[Character] = player.is
      /\ player.is \in Characters /\ Row.progress =< player.is.progress
      /\ SameHistory(content[Character], Row)
      /\ debt \in Debts /\ debt.phase = db.debt.phase
      /\ debt.phase = "none" => debt = NothingPending
  BY <1>1, <1>2, <1>3 DEF Inside, Somebody, IInv, Stored
<1>5. db' = [db EXCEPT !.row = Written(db, content), !.debt = debt]
  <2>1. PICK r, d : r = Written(db, content) /\ d = db
    OBVIOUS
  <2>2. d = [row |-> d.row, debt |-> d.debt, corpses |-> d.corpses] /\ debt = d.debt
    BY <1>3, <2>1 DEF IInv, Stored
  <2>3. db' = [d EXCEPT !.row = r]
    BY <1>1, <1>3, <2>1 DEF SaveRoot
  <2>4. [d EXCEPT !.row = r] = [d EXCEPT !.row = r, !.debt = debt]
    BY <2>2
  <2> QED
    BY <2>1, <2>3, <2>4
<1>6. /\ Stored' /\ PaidOnce' /\ Row' = player.is /\ CarriedItems' = CarriedItems
      /\ db'.debt = debt
      /\ SameHistory(player.is, Row')
  BY <1>2, <1>4, <1>5, HistoryKept
<1>7. Somebody' /\ FreeToAct' /\ InFlight' /\ Held'
  BY <1>1, <1>3, <1>4, <1>6 DEF Inside, Somebody, FreeToAct, InFlight, Held, In, Unwritten, Captured, Characters
<1>8. DeathUnderWay'
  BY <1>1, <1>2, <1>6 DEF Inside, DeathUnderWay, In, Unwritten, Died
<1>9. PortalUnderWay' /\ PenaltyUnderWay'
  BY <1>1, <1>2, <1>3, <1>6 DEF Inside, PortalUnderWay, PenaltyUnderWay
<1>10. DebtStep /\ ProgressStep
  <2>1. Row \in Characters /\ debt.cost \in Int
    BY <1>3, <1>4, SMT DEF IInv, Stored, Debts, PendingCosts
  <2>2. ProgressStep
    BY <1>4, <1>6, <2>1 DEF ProgressStep, Row, Characters
  <2>3. DebtStep
    BY <1>3, <1>6, <2>1 DEF DebtStep
  <2> QED
    BY <2>2, <2>3
<1> QED
  BY <1>1, <1>6, <1>7, <1>8, <1>9, <1>10 DEF IInv, Inside

LEMMA CorpseDecaysInv ==
  ASSUME IInv, CorpseDecays
  PROVE  IInv' /\ DebtStep /\ ProgressStep
<1>1. UNCHANGED <<now, holder, player, deathJob, portalJob, penaltyJob>>
  BY DEF CorpseDecays, saver, jobs
<1>2. PICK d, e, a, b : d = db /\ e = db' /\ a = db.debt /\ b = db'.debt
  OBVIOUS
<1>3. e = [d EXCEPT !.debt.corpse = NoCorpse] /\ a.corpse # NoCorpse
  BY <1>2 DEF CorpseDecays, DeleteCorpse
<1>4. /\ d = [row |-> d.row, debt |-> d.debt, corpses |-> d.corpses]
      /\ a = d.debt /\ b = e.debt /\ a \in Debts
  BY <1>2 DEF IInv, Stored
<1>5. /\ e = [row |-> e.row, debt |-> e.debt, corpses |-> e.corpses]
      /\ e.row = d.row /\ e.corpses = d.corpses
      /\ b = [a EXCEPT !.corpse = NoCorpse]
  BY <1>3, <1>4
<1>6. /\ b \in Debts /\ b.phase = a.phase /\ b.time = a.time /\ b.cost = a.cost
      /\ b.used = a.used /\ b.corpse = NoCorpse
  BY <1>4, <1>5, SMT DEF Debts, NoCorpse
<1>7. a.phase # "none" /\ b.phase # "none"
  BY <1>2, <1>3, <1>6 DEF IInv, Stored, NothingPending, NoCorpse
<1>8. Row' = Row /\ CarriedItems' = CarriedItems
  BY <1>2, <1>5 DEF Row, CarriedItems
<1>9. Stored' /\ PaidOnce'
  BY <1>2, <1>5, <1>6, <1>7, <1>8 DEF IInv, Stored, PaidOnce, Row
<1>10. \A debt : SameDebt(debt, db'.debt) <=> SameDebt(debt, db.debt)
  <2>1. [b EXCEPT !.corpse = NoCorpse] = [a EXCEPT !.corpse = NoCorpse]
    BY <1>5
  <2> QED
    BY <1>2, <2>1 DEF SameDebt
<1>11. Nobody => Nobody'
  BY <1>1 DEF Nobody
<1>12. ASSUME Inside PROVE Inside'
  <2>1. Somebody' /\ FreeToAct' /\ InFlight' /\ Held'
    BY <1>1, <1>2, <1>6, <1>8, <1>10, <1>12
       DEF Inside, Somebody, FreeToAct, InFlight, Held, In, Unwritten, Captured
  <2>2. DeathUnderWay'
    BY <1>1, <1>8, <1>10, <1>12 DEF Inside, DeathUnderWay, In, Unwritten, DeathWritten, Died
  <2>3. PortalUnderWay'
    BY <1>1, <1>8, <1>10, <1>12 DEF Inside, PortalUnderWay
  <2>4. PenaltyUnderWay'
    BY <1>1, <1>2, <1>6, <1>8, <1>12 DEF Inside, PenaltyUnderWay, PenaltyWritten, In
  <2> QED
    BY <2>1, <2>2, <2>3, <2>4 DEF Inside
<1>13. DebtStep /\ ProgressStep
  <2>1. a.cost \in Int /\ Row.progress \in Nat
    BY <1>4, SMT DEF Debts, PendingCosts, IInv, Stored, Characters
  <2>2. DebtStep
    BY <1>2, <1>6, <1>7, <2>1 DEF DebtStep, Debts
  <2>3. ProgressStep
    BY <1>8, <2>1 DEF ProgressStep, Row
  <2> QED
    BY <2>2, <2>3
<1> QED
  BY <1>1, <1>9, <1>11, <1>12, <1>13 DEF IInv

-----------------------------------------------------------------------------
(* The theorems *)

LEMMA StepInv == ASSUME IInv, Next PROVE IInv'
<1>1. CASE Simulation
  BY <1>1, EnterWorldInv, PlayInv, PlayerLoseHealthInv, DiesInv, PlayerReleaseRespawnInv, OpensInv,
     PlayerOrchestrateDeathPenaltiesInv, PlayerRetryDeathPenaltyPersistenceInv DEF Simulation
<1>2. CASE DeathExecutor
  BY <1>2, commitDeathEntryObservedInv, GiveUpDeathInv, DeliverDeathInv, recoverInv DEF DeathExecutor
<1>3. CASE PortalExecutor
  BY <1>3, ExecutePortalInv, DeliverPortalInv, AbortPortalInv, ReloadPortalInv DEF PortalExecutor
<1>4. CASE PenaltyExecutor
  BY <1>4, ExecutePenaltyInv, DeliverPenaltyInv, DropPenaltyInv, ReloadPenaltyInv DEF PenaltyExecutor
<1>5. CASE Environment
  BY <1>5, SaveSnapshotInv, TickInv, CorpseDecaysInv, StopInv, CrashInv DEF Environment
<1> QED
  BY <1>1, <1>2, <1>3, <1>4, <1>5 DEF Next

(* Only the saver, a decaying corpse and the three transactions write.      *)
LEMMA StepWrites == ASSUME IInv, Next PROVE DebtStep /\ ProgressStep
<1>1. CASE UNCHANGED db
  BY <1>1, SMT DEF IInv, Stored, DebtStep, ProgressStep, Row, Debts, PendingCosts, Characters
<1>2. CASE Simulation
  <2>1. UNCHANGED db
    BY <1>2 DEF Simulation, EnterWorld, Play, PlayerLoseHealth, Dies, PlayerOrchestrateImmediateDeath,
                PlayerReleaseRespawn, Opens, PlayerOrchestratePortalOfLife,
                PlayerOrchestrateDeathPenalties, PlayerRetryDeathPenaltyPersistence
  <2> QED
    BY <1>1, <2>1
<1>3. CASE DeathExecutor
  <2>1. UNCHANGED db \/ commitDeathEntryObserved
    BY <1>3 DEF DeathExecutor, GiveUpDeath, DeliverDeath, recover
  <2> QED
    BY <1>1, <2>1, commitDeathEntryObservedInv
<1>4. CASE PortalExecutor
  <2>1. UNCHANGED db \/ ExecutePortal
    BY <1>4 DEF PortalExecutor, DeliverPortal, AbortPortal, ReloadPortal
  <2> QED
    BY <1>1, <2>1, ExecutePortalInv
<1>5. CASE PenaltyExecutor
  <2>1. UNCHANGED db \/ ExecutePenalty
    BY <1>5 DEF PenaltyExecutor, DeliverPenalty, DropPenalty, ReloadPenalty
  <2> QED
    BY <1>1, <2>1, ExecutePenaltyInv
<1>6. CASE Environment
  <2>1. UNCHANGED db \/ SaveSnapshot \/ CorpseDecays
    BY <1>6 DEF Environment, Tick, Stop, Crash
  <2> QED
    BY <1>1, <2>1, SaveSnapshotInv, CorpseDecaysInv
<1> QED
  BY <1>2, <1>3, <1>4, <1>5, <1>6 DEF Next

LEMMA AlwaysIInv == Spec => []IInv
<1>1. Init => IInv
  BY InitInv
<1>2. IInv /\ [Next]_vars => IInv'
  <2>1. ASSUME IInv, UNCHANGED vars PROVE IInv'
    <3>1. UNCHANGED <<now, db, holder, player, deathJob, portalJob, penaltyJob>> /\ now' \in Nat
      BY <2>1 DEF vars, IInv
    <3> QED
      BY <2>1, <3>1, NothingElseInv
  <2> QED
    BY <2>1, StepInv
<1> QED
  BY <1>1, <1>2, PTL DEF Spec

(* Every death that is not free is paid for once: deaths and losses differ  *)
(* by the debt that is pending, whatever was lost, retried, recovered or    *)
(* crashed.                                                                 *)
THEOREM DeathsArePaidOnce == Spec => []PaidOnce
<1>1. IInv => PaidOnce
  BY DEF IInv
<1> QED
  BY <1>1, AlwaysIInv, PTL

(* A player that is free to act shows the deaths, losses, items and debt    *)
(* that the database holds: no lost answer is taken for a commit, and none  *)
(* that committed for a failure.                                            *)
THEOREM NothingIsShownUnproved == Spec => []NothingUnproved
<1>1. IInv => NothingUnproved
  <2> SUFFICES ASSUME IInv, In({"Alive", "AwaitingRespawn"}) PROVE NothingUnproved
    BY DEF NothingUnproved
  <2>1. Unwritten /\ (~player.flight.active => SameDebt(player.debt, db.debt))
    BY DEF IInv, Nobody, Gone, In, Inside, FreeToAct
  <2> QED
    BY <2>1 DEF NothingUnproved, Unwritten, SameHistory, Row, CarriedItems
<1> QED
  BY <1>1, AlwaysIInv, PTL

(* No step raises what is owed, opens a portal twice, or forgives a debt    *)
(* without the loss that pays for it.                                       *)
THEOREM DebtsOnlyShrink == Spec => DebtOnlyShrinks
<1>1. IInv /\ [Next]_vars => [DebtStep]_vars
  BY StepWrites
<1> QED
  BY <1>1, AlwaysIInv, PTL DEF Spec, DebtOnlyShrinks, DebtStep

(* No step stores a row that is behind the one it replaces, although the    *)
(* portal, the death and the penalties store what they captured earlier.    *)
THEOREM ProgressIsKept == Spec => ProgressKept
<1>1. IInv /\ [Next]_vars => [ProgressStep]_vars
  BY StepWrites
<1> QED
  BY <1>1, AlwaysIInv, PTL DEF Spec, ProgressKept, ProgressStep

=============================================================================
