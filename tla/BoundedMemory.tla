--------------------------- MODULE BoundedMemory ---------------------------
(* A memory that keeps the last Capacity things put into it, oldest first.  *)
EXTENDS KeepLast

CONSTANTS Things, Capacity

VARIABLE kept

Empty == kept = <<>>

Put(x) == kept' = Pushed(Capacity, kept, x)

(* Any thing may come, and all of it may be forgotten at once.              *)
RepeatingSpec == Empty /\ [][(\E x \in Things : Put(x)) \/ kept' = <<>>]_kept

(* Only a thing that is not kept is put.                                    *)
DistinctSpec == Empty /\ [][\E x \in Things : ~Holds(kept, x) /\ Put(x)]_kept

=============================================================================
