------------------------------- MODULE Fanout -------------------------------
(***************************************************************************)
(* Who is told of whom (gateway/fanout.go, world_runtime.go, death_wire.go): *)
(* the simulation reports movements to a bounded queue, sessions put their  *)
(* arrival and departure into the same queue, and one pump takes an event   *)
(* at a time and tells the sessions concerned that an entity is created,    *)
(* moved or removed, each under its own handle.  A death completes beside   *)
(* the pump: the simulation itself moves the entity and tells everybody.    *)
(*                                                                         *)
(* A session's outbound queue (module Outbound) sends what is critical      *)
(* first and in order.  So what a client knows when a movement reaches it   *)
(* is everything critical it was sent: "shown" is that knowledge, "moving"  *)
(* the movements still to be sent.  Where within a cell an entity is, and   *)
(* the throttle that only leaves movements out, are abstracted.             *)
(***************************************************************************)
EXTENDS Presence, Sequences, FiniteSetsExt

CONSTANTS
  Capacity,    \* FanoutEventCapacity
  MaxMoves,    \* bound: movements
  MaxDeaths,   \* bound: relocations
  MaxLost      \* bound: connections that fail by themselves

ASSUME FanoutConstants ==
  /\ Capacity \in Nat \ {0}
  /\ {MaxMoves, MaxDeaths, MaxLost} \subseteq Nat

Never == 0

VARIABLES
  tick, deaths, losses,
  cellOf,     \* of each entity: the cell it is in, by the simulation
  phase,      \* of each session: how far it is into the world, or out of it
  events,     \* the queue
  closed,
  pump,       \* the event at hand and what is still to do for it
  relocated,  \* of each entity: the tick of its last relocation
  fan,        \* presence, ready; up: connections that are open; shown, moving
  behind,     \* history: entities whose last movement was dropped
  torn        \* history: <<s, e>>: what s is told of e was half done by the pump
              \* when a death was presented beside it

vars == <<tick, deaths, losses, cellOf, phase, events, closed, pump, relocated, fan, behind, torn>>

InSim(s) == phase[s] \in {"staged", "active", "booting", "failed", "unstaged", "in"}

(* The presentation source: entities and where they are now.                *)
EntitiesInCell(at, cells) == {e \in Sessions : InSim(e) /\ at[e] \in cells}

Idle == [at |-> "idle", entity |-> 0, cell |-> 0, creates |-> {}, removes |-> {}, moves |-> {}]

-----------------------------------------------------------------------------
(* What a step does to one session's view of one entity.                    *)

ClearReady(f, s) == [f EXCEPT !.ready = @ \ {s}]

CloseNow(f, s) == [f EXCEPT !.up = @ \ {s}, !.moving[s] = {}]

failRecipient(f, s) == CloseNow(ClearReady(f, s), s)

Hide(f, s, e) == [f EXCEPT !.presence[s] = HideVisible(s, @, e)]

emitCreate(f, s, e) ==
  IF ~InSim(e) \/ e \notin Visible(f.presence[s]) THEN failRecipient(f, s)
  ELSE IF s \notin f.up THEN failRecipient(Hide(f, s, e), s)
  ELSE [f EXCEPT !.shown[s] = @ \cup {<<f.presence[s].forward[e], e>>}]

addViewerCreate(f, s, e) ==
  LET granted == EnsureVisible(f.presence[s], e)
  IN IF granted = {} THEN failRecipient(f, s)
     ELSE IF granted = {f.presence[s]} THEN f
     ELSE emitCreate([f EXCEPT !.presence[s] = CHOOSE p \in granted : TRUE], s, e)

(* A reconciled entity is told whether its handle is new or not.            *)
reconcileCreate(f, s, e) ==
  LET granted == EnsureVisible(f.presence[s], e)
  IN IF granted = {} THEN failRecipient(f, s)
     ELSE emitCreate([f EXCEPT !.presence[s] = CHOOSE p \in granted : TRUE], s, e)

CancelState(f, s, h) == [f EXCEPT !.moving[s] = @ \ {h}]

(* Mutant: what is still to be sent of the entity is left in the queue.     *)
DestroyOnly(f, s, e) ==
  LET h == f.presence[s].forward[e]
  IN IF e \notin Visible(f.presence[s]) THEN f
     ELSE IF s \in f.up THEN Hide([f EXCEPT !.shown[s] = @ \ {<<h, e>>}], s, e)
     ELSE Hide(failRecipient(f, s), s, e)

removeViewerDestroy(f, s, e) ==
  LET h == f.presence[s].forward[e]
  IN IF e \notin Visible(f.presence[s]) THEN f
     ELSE IF s \in f.up THEN Hide([CancelState(f, s, h) EXCEPT !.shown[s] = @ \ {<<h, e>>}], s, e)
     ELSE Hide(failRecipient(f, s), s, e)

(* The movement is queued, or left out: dropped for room, or throttled.     *)
sendMove(f, s, e) ==
  IF e \notin Visible(f.presence[s]) THEN {f}
  ELSE IF s \notin f.up THEN {ClearReady(f, s), f}
  ELSE {f, [f EXCEPT !.moving[s] = @ \cup {f.presence[s].forward[e]}]}

(* A position that is forced upon a viewer.                                 *)
refreshViewerPosition(f, s, e) ==
  IF e \notin Visible(f.presence[s]) THEN f
  ELSE IF s \notin f.up THEN ClearReady(f, s)
  ELSE [f EXCEPT !.moving[s] = @ \cup {f.presence[s].forward[e]}]

(* Sessions and entities are visited in ascending order.                    *)
InOrder(Op(_, _), f, members) ==
  LET visit[m \in SUBSET members] == IF m = {} THEN f ELSE Op(visit[m \ {Max(m)}], Max(m))
  IN visit[members]

-----------------------------------------------------------------------------
(* The simulation.                                                          *)

Enqueue(kind, e, cell) ==
  events' = Append(events, [kind |-> kind, entity |-> e, cell |-> cell, tick |-> tick + 1])

OnMovement(e, cell) ==
  IF closed \/ Len(events) = Capacity THEN behind' = behind \cup {e} /\ UNCHANGED events
  ELSE Enqueue("movement", e, cell) /\ behind' = behind \ {e}

Move(e, cell) ==
  /\ phase[e] = "in"
  /\ tick < MaxMoves
  /\ tick' = tick + 1
  /\ cellOf' = [cellOf EXCEPT ![e] = cell]
  /\ OnMovement(e, cell)
  /\ UNCHANGED <<deaths, losses, phase, closed, pump, relocated, fan, torn>>

(* A death completes: the simulation has put the entity elsewhere, and      *)
(* tells who sees it there, whom it left and who saw it all the time.       *)
RelocateEntity(f, e, cell) ==
  LET centered == IF ~f.presence[e].active THEN f
                  ELSE [f EXCEPT !.presence[e] = UpdateCenter(@, cell)]
      desired == Subscribers(centered.presence, cell) \cap f.ready
      current == Viewers(f.presence, e) \cap f.ready
      created == InOrder(LAMBDA g, s : addViewerCreate(g, s, e), centered, desired \ current)
      removed == InOrder(LAMBDA g, s : removeViewerDestroy(g, s, e), created, current \ desired)
  IN InOrder(LAMBDA g, s : refreshViewerPosition(g, s, e), removed, current \cap desired)

reconcileVisibleSet(f, s, at) ==
  LET desired == {s} \cup EntitiesInCell(at, BaseAOICells(f.presence[s].center))
      visible == Visible(f.presence[s])
      created == InOrder(LAMBDA g, e : reconcileCreate(g, s, e), f, desired \ visible)
  IN InOrder(LAMBDA g, e : removeViewerDestroy(g, s, e), created, (visible \ desired) \ {s})

(* Whom the pump is half way of telling about this very entity, or about    *)
(* another on the ground of where this entity was.                          *)
Overlapped(e) ==
  CASE pump.at = "idle" -> {}
    [] pump.at # "idle" /\ pump.entity = e -> ({e} \X Sessions) \cup (Sessions \X {e})
    [] pump.at = "viewers" /\ pump.entity # e -> {<<e, pump.entity>>}
    [] pump.at = "bootstrap" /\ pump.entity # e -> {<<pump.entity, e>>}
    [] OTHER -> {}

OnDeathCompleted(e, cell) ==
  LET told == RelocateEntity(fan, e, cell)
      at == [cellOf EXCEPT ![e] = cell]
  IN /\ phase[e] = "in"
     /\ deaths < MaxDeaths
     /\ deaths' = deaths + 1
     /\ cellOf' = at
     /\ relocated' = [relocated EXCEPT ![e] = tick]
     /\ fan' = IF e \in told.ready THEN reconcileVisibleSet(told, e, at) ELSE told
     /\ behind' = behind \ {e}
     /\ torn' = torn \cup Overlapped(e)
     /\ UNCHANGED <<tick, losses, phase, events, closed, pump>>

(* A death begins: whom it cannot tell it lets go.                          *)
EmitDeath(e) ==
  /\ phase[e] = "in"
  /\ LET told == (Viewers(fan.presence, e) \cap fan.ready) \ fan.up
     IN told # {} /\ fan' = InOrder(failRecipient, fan, told)
  /\ UNCHANGED <<tick, deaths, losses, cellOf, phase, events, closed, pump, relocated, behind, torn>>

-----------------------------------------------------------------------------
(* The pump.                                                                *)

(* Mutant: nobody tells the session that the pump has ended.                *)
completeUnlessClosed(s, ok) ==
  phase' = [phase EXCEPT ![s] =
              CASE closed -> @
                [] @ = "booting" -> IF ok THEN "in" ELSE "failed"
                [] @ = "removing" -> IF ok THEN "removed" ELSE "fallback"
                [] OTHER -> @]

(* The one result of a control, to the session that waits for it.           *)
complete(s, ok) ==
  phase' = [phase EXCEPT ![s] =
              CASE @ = "booting" -> IF ok THEN "in" ELSE "failed"
                [] @ = "removing" -> IF ok THEN "removed" ELSE "fallback"
                [] OTHER -> @]

(* Mutant: a movement from before a relocation is shown.                    *)
NeverStale(e, at) == FALSE

staleAfterRelocation(e, at) == relocated[e] # Never /\ at =< relocated[e]

Take ==
  LET ev == Head(events)
      Begin(at) == [Idle EXCEPT !.at = at, !.entity = ev.entity, !.cell = ev.cell]
  IN /\ pump.at = "idle"
     /\ events # <<>>
     /\ events' = Tail(events)
     /\ IF closed THEN /\ IF ev.kind = "movement" THEN UNCHANGED phase ELSE complete(ev.entity, FALSE)
                       /\ UNCHANGED <<pump, relocated, fan>>
        ELSE CASE ev.kind = "movement" ->
                    /\ pump' = IF staleAfterRelocation(ev.entity, ev.tick) THEN Idle ELSE Begin("center")
                    /\ UNCHANGED <<phase, relocated, fan>>
               [] ev.kind = "bootstrap" ->
                    /\ pump' = [Begin("bootstrap") EXCEPT !.creates = {ev.entity} \cup
                          EntitiesInCell(cellOf, BaseAOICells(fan.presence[ev.entity].center))]
                    /\ UNCHANGED <<phase, relocated, fan>>
               [] ev.kind = "remove" ->
                    /\ fan' = ClearReady(fan, ev.entity)
                    /\ relocated' = [relocated EXCEPT ![ev.entity] = Never]
                    /\ pump' = [Begin("remove") EXCEPT !.removes = Viewers(fan.presence, ev.entity) \ {ev.entity}]
                    /\ UNCHANGED phase
     /\ UNCHANGED <<tick, deaths, losses, cellOf, closed, behind, torn>>

(* The owner's subscriptions and view follow the movement first.            *)
Center ==
  LET p == fan.presence[pump.entity]
      centered == [fan EXCEPT !.presence[pump.entity] = UpdateCenter(@, pump.cell)]
  IN /\ pump.at = "center"
     /\ pump' = [pump EXCEPT !.at = "sets"]
     /\ fan' = IF ~p.active THEN fan
               ELSE IF p.center = pump.cell THEN fan
               ELSE IF pump.entity \notin fan.ready THEN centered
               ELSE reconcileVisibleSet(centered, pump.entity, cellOf)
     /\ UNCHANGED <<tick, deaths, losses, cellOf, phase, events, closed, relocated, behind, torn>>

Sets ==
  LET desired == Subscribers(fan.presence, pump.cell) \cap fan.ready
      current == Viewers(fan.presence, pump.entity) \cap fan.ready
  IN /\ pump.at = "sets"
     /\ pump' = [pump EXCEPT !.at = "viewers", !.creates = desired \ current,
                             !.removes = current \ desired, !.moves = current \cap desired]
     /\ UNCHANGED <<tick, deaths, losses, cellOf, phase, events, closed, relocated, fan, behind, torn>>

TellViewer ==
  LET e == pump.entity
  IN /\ pump.at = "viewers"
     /\ \/ /\ pump.creates # {}
           /\ fan' = addViewerCreate(fan, Min(pump.creates), e)
           /\ pump' = [pump EXCEPT !.creates = @ \ {Min(@)}]
        \/ /\ pump.creates = {} /\ pump.removes # {}
           /\ fan' = removeViewerDestroy(fan, Min(pump.removes), e)
           /\ pump' = [pump EXCEPT !.removes = @ \ {Min(@)}]
        \/ /\ pump.creates = {} /\ pump.removes = {} /\ pump.moves # {}
           /\ fan' \in sendMove(fan, Min(pump.moves), e)
           /\ pump' = [pump EXCEPT !.moves = @ \ {Min(@)}]
        \/ /\ pump.creates = {} /\ pump.removes = {} /\ pump.moves = {}
           /\ pump' = Idle
           /\ UNCHANGED fan
     /\ UNCHANGED <<tick, deaths, losses, cellOf, phase, events, closed, relocated, behind, torn>>

(* A session that joins is told of everyone near, itself included, or fails.*)
Bootstrap ==
  LET s == pump.entity
      e == Min(pump.creates)
      granted == EnsureVisible(fan.presence[s], e)
      told == IF granted = {} THEN fan
              ELSE emitCreate([fan EXCEPT !.presence[s] = CHOOSE p \in granted : TRUE], s, e)
  IN /\ pump.at = "bootstrap"
     /\ \/ /\ pump.creates # {}
           /\ fan' = told
           /\ IF granted # {} /\ s \in told.up THEN pump' = [pump EXCEPT !.creates = @ \ {e}] /\ UNCHANGED phase
              ELSE pump' = Idle /\ complete(s, FALSE)
        \/ /\ pump.creates = {}
           /\ fan' = [fan EXCEPT !.ready = @ \cup {s}]
           /\ pump' = [pump EXCEPT !.at = "notify"]
           /\ UNCHANGED phase
     /\ UNCHANGED <<tick, deaths, losses, cellOf, events, closed, relocated, behind, torn>>

notifyExistingViewers ==
  LET s == pump.entity
      others == (Subscribers(fan.presence, cellOf[s]) \cap fan.ready) \ {s}
  IN /\ pump.at = "notify"
     /\ fan' = InOrder(LAMBDA f, v : addViewerCreate(f, v, s), fan, others)
     /\ complete(s, TRUE)
     /\ pump' = Idle
     /\ UNCHANGED <<tick, deaths, losses, cellOf, events, closed, relocated, behind, torn>>

Remove ==
  LET s == pump.entity
      v == Min(pump.removes)
  IN /\ pump.at = "remove"
     /\ \/ /\ pump.removes # {}
           /\ fan' = IF v \in fan.ready THEN removeViewerDestroy(fan, v, s) ELSE Hide(fan, v, s)
           /\ pump' = [pump EXCEPT !.removes = @ \ {v}]
           /\ UNCHANGED phase
        \/ /\ pump.removes = {}
           /\ complete(s, TRUE)
           /\ pump' = Idle
           /\ UNCHANGED fan
     /\ UNCHANGED <<tick, deaths, losses, cellOf, events, closed, relocated, behind, torn>>

-----------------------------------------------------------------------------
(* Sessions come and go.                                                    *)

PrepareEnter(s, cell) ==
  /\ phase[s] = "out"
  /\ phase' = [phase EXCEPT ![s] = "staged"]
  /\ cellOf' = [cellOf EXCEPT ![s] = cell]
  /\ UNCHANGED <<tick, deaths, losses, events, closed, pump, relocated, fan, behind, torn>>

CommitEnter(s) ==
  /\ phase[s] = "staged"
  /\ phase' = [phase EXCEPT ![s] = "active"]
  /\ fan' = [fan EXCEPT !.presence[s] = Activate(s, cellOf[s])]
  /\ UNCHANGED <<tick, deaths, losses, cellOf, events, closed, pump, relocated, behind, torn>>

(* A control waits for room in the queue, for as long as the timeout or the *)
(* context of the caller lasts; once it is queued it waits for its result.  *)
submitControl(s, kind, admitted, refused) ==
  /\ \/ /\ ~closed /\ Len(events) < Capacity
        /\ Enqueue(kind, s, cellOf[s])
        /\ phase' = [phase EXCEPT ![s] = admitted]
     \/ /\ phase' = [phase EXCEPT ![s] = refused]
        /\ UNCHANGED events
  /\ UNCHANGED <<tick, deaths, losses, cellOf, closed, pump, relocated, fan, behind, torn>>

BootstrapSession(s) == phase[s] = "active" /\ submitControl(s, "bootstrap", "booting", "failed")

EndPresence(s, next) ==
  /\ phase' = [phase EXCEPT ![s] = next]
  /\ fan' = [fan EXCEPT !.presence[s] = NoPresence, !.shown[s] = {}, !.moving[s] = {}]
  /\ UNCHANGED <<tick, deaths, losses, cellOf, events, closed, pump, relocated, behind, torn>>

(* A session that failed to join leaves, and then its entity.               *)
FailEnter(s) == phase[s] = "failed" /\ EndPresence(s, "unstaged")

AbortEnter(s) ==
  /\ phase[s] = "unstaged"
  /\ phase' = [phase EXCEPT ![s] = "aborted"]
  /\ UNCHANGED <<tick, deaths, losses, cellOf, events, closed, pump, relocated, fan, behind, torn>>

ExitWorld(s) ==
  /\ phase[s] = "in"
  /\ phase' = [phase EXCEPT ![s] = "leaving"]
  /\ UNCHANGED <<tick, deaths, losses, cellOf, events, closed, pump, relocated, fan, behind, torn>>

RemovePresence(s) == phase[s] = "leaving" /\ submitControl(s, "remove", "removing", "fallback")

(* Who could not be told the orderly way is closed, and forgets.            *)
removePresenceFallback(s) ==
  /\ phase[s] = "fallback"
  /\ phase' = [phase EXCEPT ![s] = "removed"]
  /\ fan' = InOrder(LAMBDA f, v : Hide(failRecipient(f, v), v, s), ClearReady(fan, s), Viewers(fan.presence, s))
  /\ UNCHANGED <<tick, deaths, losses, cellOf, events, closed, pump, relocated, behind, torn>>

Deactivate(s) == phase[s] = "removed" /\ EndPresence(s, "gone")

-----------------------------------------------------------------------------
(* Connections, and the end of the runtime.                                 *)

Write(s) ==
  /\ s \in fan.up
  /\ \E h \in fan.moving[s] : fan' = [fan EXCEPT !.moving[s] = @ \ {h}]
  /\ UNCHANGED <<tick, deaths, losses, cellOf, phase, events, closed, pump, relocated, behind, torn>>

Lose(s) ==
  /\ s \in fan.up
  /\ losses < MaxLost
  /\ losses' = losses + 1
  /\ fan' = CloseNow(fan, s)
  /\ UNCHANGED <<tick, deaths, cellOf, phase, events, closed, pump, relocated, behind, torn>>

Close ==
  /\ ~closed
  /\ closed' = TRUE
  /\ UNCHANGED <<tick, deaths, losses, cellOf, phase, events, pump, relocated, fan, behind, torn>>

-----------------------------------------------------------------------------
Init ==
  /\ tick = 1 /\ deaths = 0 /\ losses = 0
  /\ cellOf = [e \in Sessions |-> CHOOSE c \in Cells : TRUE]
  /\ phase = [s \in Sessions |-> "out"]
  /\ events = <<>> /\ closed = FALSE /\ pump = Idle
  /\ relocated = [e \in Sessions |-> Never]
  /\ fan = [presence |-> [s \in Sessions |-> NoPresence], ready |-> {}, up |-> Sessions,
            shown |-> [s \in Sessions |-> {}], moving |-> [s \in Sessions |-> {}]]
  /\ behind = {} /\ torn = {}

loop == Take \/ Center \/ Sets \/ TellViewer \/ Bootstrap \/ notifyExistingViewers \/ Remove

Lifecycle(s) ==
  \/ CommitEnter(s) \/ BootstrapSession(s) \/ FailEnter(s) \/ AbortEnter(s)
  \/ RemovePresence(s) \/ removePresenceFallback(s) \/ Deactivate(s)

Simulation == \E e \in Sessions : EmitDeath(e) \/ \E cell \in Cells : Move(e, cell) \/ OnDeathCompleted(e, cell)

Next ==
  \/ Simulation \/ loop \/ Close
  \/ \E s \in Sessions : Lifecycle(s) \/ ExitWorld(s) \/ Write(s) \/ Lose(s) \/ \E cell \in Cells : PrepareEnter(s, cell)

(* The pump runs, and who has begun to enter or leave goes on.              *)
Spec == Init /\ [][Next]_vars /\ WF_vars(loop \/ \E s \in Sessions : Lifecycle(s))

-----------------------------------------------------------------------------
(* Properties.                                                              *)

(* What a client in the world was told is what the server believes: the     *)
(* same entities under the same handles, each handle with one entity.  And  *)
(* no movement reaches a client under a handle it was not given, or that    *)
(* was taken back, whatever was queued, retired or moved elsewhere.  Only   *)
(* to a client that died while the pump told of its own movement the own    *)
(* entity may be taken back, with a handle the server goes on using.        *)
ToldIsBelieved ==
  \A s \in fan.up : <<s, s>> \notin torn =>
    /\ s \in fan.ready =>
         /\ fan.shown[s] = {<<fan.presence[s].forward[e], e>> : e \in Visible(fan.presence[s])}
         /\ IsInjective(fan.presence[s].forward)
    /\ fan.moving[s] \subseteq {told[1] : told \in fan.shown[s]}

(* While it runs and no event is left, who is in the world sees who is      *)
(* near, and nobody else: but for entities whose last movement was dropped, *)
(* for who failed to enter, and for what a death tore.                      *)
SettledViews ==
  LET quiet == ~closed /\ events = <<>> /\ pump.at = "idle"
      joined == {e \in Sessions : phase[e] = "in"}
      elsewhere == {e \in Sessions : phase[e] \in {"removed", "gone"}}
  IN quiet => \A s \in {v \in (joined \cap fan.ready \cap fan.up) \ behind : <<v, v>> \notin torn} :
       LET near == {e \in joined : cellOf[e] \in BaseAOICells(cellOf[s])}
           unsettled == behind \cup {e \in Sessions : <<s, e>> \in torn}
       IN /\ (near \ unsettled) \cup {s} \subseteq Visible(fan.presence[s])
          /\ Visible(fan.presence[s]) \cap ((joined \ near) \cup elsewhere) \subseteq unsettled

(* The comment at fanout.go:839-843: a movement from before a relocation    *)
(* never drags the owner's center back.  It says nothing of tears.          *)
RelocationStands ==
  (~closed /\ events = <<>> /\ pump.at = "idle") =>
    \A e \in Sessions \ behind :
      phase[e] = "in" /\ relocated[e] # Never => fan.presence[e].center = cellOf[e]

(* Whoever waits for the pump is answered, also when it ends.               *)
ControlsAnswered ==
  \A s \in Sessions : phase[s] \in {"active", "booting", "failed", "unstaged", "leaving", "removing", "fallback", "removed"}
                        ~> phase[s] \in {"in", "aborted", "gone"}

=============================================================================
