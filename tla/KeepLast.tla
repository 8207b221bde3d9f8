------------------------------ MODULE KeepLast ------------------------------
(* The bounded first-in first-out memories of internal/sim keep the last n  *)
(* things put in them: the recent-op cache (crosscell.go) and the position  *)
(* history (history.go).  Their rings are the modules RecentOpIDs and       *)
(* PositionHistory; the other modules use the sequence they stand for.      *)
EXTENDS Naturals, Sequences

Pushed(n, s, x) == Append(IF Len(s) = n THEN Tail(s) ELSE s, x)

Holds(s, x) == \E i \in 1..Len(s) : s[i] = x

=============================================================================
