------------------------------ MODULE MCVitals ------------------------------
EXTENDS VitalsRuntime

(* A quick player under every enchantment, and one it wears off from.       *)
Strong == [stamina |-> 70, mysticism |-> 70, restorate |-> 99, rejuvenate |-> 99,
           focus |-> 99, invigorate |-> 99, multiplier |-> 3]

Plain == [Strong EXCEPT !.restorate = 0, !.invigorate = 0, !.multiplier = 1]

MCInputs == {Plain}
(* A vigorous player, with hardly any mana to wait for.                  *)
MCStored ==
    {[v EXCEPT !.vigor = 200, !.mana = 2, !.maxMana = 2] : v \in NewPlayerVitals(50)}

MCAmounts == {-1, 1}
MCBlows == {20}
(* One that is refused, and one above where a new player rests.          *)
MCSettings == {9, 100}
MCCosts == {0, 50}
=============================================================================
