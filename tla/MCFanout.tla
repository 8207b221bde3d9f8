------------------------------ MODULE MCFanout ------------------------------
(* A model-checking instance of Fanout: two sessions in a row of cells.     *)
EXTENDS Fanout

CONSTANT MaxIncidents

(* Cells are alike: the first session enters the world in the first one.    *)
OneStart == phase[1] = "staged" => cellOf[1] = 0

(* Bound: so many movements, deaths, losses and closures in all.            *)
FewIncidents == (tick - 1) + deaths + losses + (IF closed THEN 1 ELSE 0) =< MaxIncidents

MCNext == Next /\ OneStart' /\ FewIncidents'

MCSpec == Init /\ [][MCNext]_vars /\ WF_vars(loop \/ \E s \in Sessions : Lifecycle(s))

=============================================================================
