------------------------------ MODULE Presence ------------------------------
(* Who is in the world and what each session has been given a handle for    *)
(* (gateway/presence.go).  A session controls one entity, which has its     *)
(* number here; who sees an entity and who subscribes to a cell are         *)
(* indexes over the same records in the code, and read off them here.       *)
EXTENDS Integers, FiniteSets, Functions

CONSTANTS
  Sessions,   \* numbers: goroutines visit them in ascending order
  Cells,      \* a row of cells, by number
  Radius,     \* AOICellRadius
  MaxNetID    \* the last handle, 2^32 - 1

ASSUME PresenceConstants ==
  /\ IsFiniteSet(Sessions) /\ Sessions \subseteq Nat
  /\ Cells \subseteq Int /\ Cells # {} /\ Radius \in Nat /\ MaxNetID \in Nat \ {0, 1}

InvalidNetID == 0

NoPresence == [active |-> FALSE, center |-> 0, forward |-> <<>>, next |-> InvalidNetID]

BaseAOICells(center) == {c \in Cells : c \in (center - Radius)..(center + Radius)}

(* The own entity has the first handle.                                     *)
Activate(sid, center) ==
  [active |-> TRUE, center |-> center, forward |-> [e \in {sid} |-> 1], next |-> 2]

UpdateCenter(p, center) == [p EXCEPT !.center = center]

Visible(p) == DOMAIN p.forward

(* A new handle, never one that was given before; none is left at the end.  *)
EnsureVisible(p, e) ==
  IF ~p.active THEN {}
  ELSE IF e \in DOMAIN p.forward THEN {p}
  ELSE IF p.next = InvalidNetID THEN {}
  ELSE {[p EXCEPT !.forward = [v \in DOMAIN @ \cup {e} |-> IF v = e THEN p.next ELSE @[v]],
                  !.next = IF @ = MaxNetID THEN InvalidNetID ELSE @ + 1]}

(* The own entity is never hidden.                                          *)
HideVisible(sid, p, e) ==
  IF ~p.active \/ e = sid THEN p
  ELSE [p EXCEPT !.forward = Restrict(@, DOMAIN @ \ {e})]

Subscribers(presence, cell) == {s \in Sessions : presence[s].active /\ cell \in BaseAOICells(presence[s].center)}

Viewers(presence, e) == {s \in Sessions : e \in Visible(presence[s])}

=============================================================================
