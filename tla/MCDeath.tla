------------------------------ MODULE MCDeath ------------------------------
EXTENDS Death

MCContexts == {{}, {"token"}, {"newbieZone"}, {"arena"}}
MCCosts == {3, 50}
MCPowers == {1}
MCItems == {"sword"}
=============================================================================
