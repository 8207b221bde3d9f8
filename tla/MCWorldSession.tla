--------------------------- MODULE MCWorldSession ---------------------------
(* Model-checking instances of WorldSession: everything is one account's.  *)
EXTENDS WorldSession, TLC

OneAccount == [s \in Session |-> CHOOSE a \in Account : TRUE]
OneOwner == [c \in Character |-> CHOOSE a \in Account : TRUE]

Interchangeable == Permutations(Session) \cup Permutations(Character)
=============================================================================
