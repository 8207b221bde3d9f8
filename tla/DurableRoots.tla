--------------------------- MODULE DurableRoots ---------------------------
(***************************************************************************)
(* What the snapshot saver promises about PostgreSQL, with no caller, gate *)
(* or fence in sight: one transaction commits any set of roots; it moves   *)
(* the revision of each by exactly one, and installs a snapshot captured   *)
(* after the one it replaces, so no snapshot is installed twice and none   *)
(* comes back after a newer one.                                           *)
(***************************************************************************)
EXTENDS Integers

CONSTANT Roots

VARIABLES
  rev,      \* rev[k]: the committed revision of k
  durable,  \* durable[k]: the version of its committed content
  newest    \* newest[k]: the newest version captured of k

roots == <<rev, durable, newest>>

Init ==
  /\ rev = [k \in Roots |-> 0]
  /\ durable = [k \in Roots |-> 0]
  /\ newest = [k \in Roots |-> 0]

Capture(S) ==
  /\ newest' = [k \in Roots |-> IF k \in S THEN newest[k] + 1 ELSE newest[k]]
  /\ UNCHANGED <<rev, durable>>

Commit(S) ==
  /\ rev' = [k \in Roots |-> IF k \in S THEN rev[k] + 1 ELSE rev[k]]
  /\ \E chosen \in [S -> UNION {(durable[k] + 1)..newest[k] : k \in S}] :
       /\ \A k \in S : durable[k] < chosen[k] /\ chosen[k] <= newest[k]
       /\ durable' = [k \in Roots |-> IF k \in S THEN chosen[k] ELSE durable[k]]
  /\ UNCHANGED newest

(* A transaction of another component captures and commits in one step.     *)
Elsewhere(k) ==
  /\ newest' = [newest EXCEPT ![k] = @ + 1]
  /\ rev' = [rev EXCEPT ![k] = @ + 1]
  /\ durable' = [durable EXCEPT ![k] = newest[k] + 1]

Next ==
  \/ \E S \in (SUBSET Roots) \ {{}} : Capture(S) \/ Commit(S)
  \/ \E k \in Roots : Elsewhere(k)

Spec == Init /\ [][Next]_roots

=============================================================================
