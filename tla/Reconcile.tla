----------------------------- MODULE Reconcile -----------------------------
(***************************************************************************)
(* The post-commit fence of internal/sim/reconcile.go, the commit notices  *)
(* that internal/sim/crosscell.go delivers once, and the bridge of         *)
(* internal/persist/reconcile.go that clears a stale saver entry.          *)
(*                                                                         *)
(* A critical operation commits one PostgreSQL transaction over several    *)
(* roots, then marks every live aggregate it touched, then sends each of   *)
(* them a notice with the change.  Nothing of that is atomic with the      *)
(* commit: notices are lost, repeated and reordered, their application     *)
(* fails, other writers commit, and the process restarts.                  *)
(*                                                                         *)
(* The content of a root is the sequence of the changes committed to it,   *)
(* one per revision; applied[o][r] counts how often the memory of o        *)
(* reflects the change of revision r.  A notice once sent may be delivered *)
(* at any later time and any number of times, or never.                    *)
(***************************************************************************)
EXTENDS Integers, FiniteSets, KeepLast

CONSTANTS
  Owners,       \* live aggregates, each with its root in PostgreSQL
  MaxRevision,  \* bound on the commits per root
  SeenCapacity  \* RecentOpIDCapacity

ASSUME ReconcileConstants ==
  /\ IsFiniteSet(Owners)
  /\ MaxRevision \in Nat
  /\ SeenCapacity \in Nat \ {0}

VARIABLES
  pg,       \* pg[o]: the committed revision of o's root
  applied,  \* applied[o][r]: how often memory reflects change r of o
  fence,    \* fence[o]: the ReconcileState of o
  owed,     \* commits whose mark is not yet installed
  notices,  \* commit notices sent in this process
  recent,   \* recent[o]: the recent-op cache of o
  saver,    \* saver[o]: the saver's entry for o, its known revision and block
  bridge    \* bridge[o]: where ReconcileSaver is for o

reconcileVars == <<pg, applied, fence, owed, notices, recent, saver, bridge>>

-----------------------------------------------------------------------------
(* Types *)

Revisions == 0..MaxRevision
Changes == 1..MaxRevision
Fence == [known: Revisions, pending: BOOLEAN, required: Revisions]

(* A transaction is named by the roots and revisions it produced, and so    *)
(* is its OpID; every participant gets the same one.                        *)
OpID == [Owners -> Revisions]
Notice == [owner: Owners, op: OpID, revision: Changes]

(* The memory that holds exactly the changes up to revision r.              *)
UpTo(r) == [c \in Changes |-> IF c <= r THEN 1 ELSE 0]

(* The sim goroutine commits, marks and notifies without yielding, and the  *)
(* bridge runs while its aggregate is otherwise serialized.                 *)
Serialized(o) == owed = {} /\ bridge[o] = "idle"

Higher(a, b) == IF a > b THEN a ELSE b

-----------------------------------------------------------------------------
(* The fence *)

NewReconcileState(r) == [known |-> r, pending |-> FALSE, required |-> r]

MarkCommitted(f, r) ==
  IF r <= f.known THEN f
  ELSE [f EXCEPT !.pending = TRUE, !.required = Higher(f.required, r)]

RequireReload(f) ==
  [f EXCEPT !.pending = TRUE, !.required = Higher(f.required, f.known)]

(* ApplyCommitNotice raises the requirement when it cannot apply.           *)
Refused(f, r) ==
  [f EXCEPT !.pending = TRUE, !.required = Higher(f.required, r)]

(* Mutant: one applied notice clears the fence.                             *)
AdvancedClearing(f, r) == NewReconcileState(r)

(* ... and clears the fence only once the requirement is reached.           *)
Advanced(f, r) ==
  [known |-> r, pending |-> r < f.required, required |-> Higher(f.required, r)]

-----------------------------------------------------------------------------
(* Critical operations *)

(* The transaction's compare-and-set holds for every participant.  The      *)
(* expected revision is the saver's: the fence of a participant may lag.    *)
Commit(S) ==
  LET op == [o \in Owners |-> IF o \in S THEN pg[o] + 1 ELSE 0] IN
  /\ \A o \in S : Serialized(o) /\ pg[o] < MaxRevision
  /\ pg' = [o \in Owners |-> IF o \in S THEN pg[o] + 1 ELSE pg[o]]
  /\ owed' = {[owner |-> o, op |-> op, revision |-> pg[o] + 1] : o \in S}
  /\ UNCHANGED <<applied, fence, notices, recent, saver, bridge>>

(* The marks go in one by one; the notices leave once the last is in.       *)
Mark(m) ==
  /\ fence' = [fence EXCEPT ![m.owner] = MarkCommitted(fence[m.owner], m.revision)]
  /\ owed' = owed \ {m}
  /\ notices' = notices \cup {m}
  /\ UNCHANGED <<pg, applied, recent, saver, bridge>>

(* Another writer of the root commits a change memory knows nothing of.     *)
CommitElsewhere(o) ==
  /\ pg[o] < MaxRevision
  /\ pg' = [pg EXCEPT ![o] = pg[o] + 1]
  /\ UNCHANGED <<applied, fence, owed, notices, recent, saver, bridge>>

-----------------------------------------------------------------------------
(* Delivery of a notice: the apply-once guard around ApplyCommitNotice.     *)
(* A delivery the guard answers as a duplicate changes nothing.             *)

NoticeArrives(n) ==
  /\ Serialized(n.owner)
  /\ ~Holds(recent[n.owner], n.op)

Seen(n) ==
  recent' = [recent EXCEPT ![n.owner] = Pushed(SeenCapacity, recent[n.owner], n.op)]

(* Mutant: a stale notice is applied like any other.                        *)
NoticeStaleApplied(n) ==
  /\ NoticeArrives(n)
  /\ n.revision <= fence[n.owner].known
  /\ applied' = [applied EXCEPT ![n.owner] =
                   [applied[n.owner] EXCEPT ![n.revision] = applied[n.owner][n.revision] + 1]]
  /\ Seen(n)
  /\ UNCHANGED <<pg, fence, owed, notices, saver, bridge>>

NoticeStale(n) ==
  /\ NoticeArrives(n)
  /\ n.revision <= fence[n.owner].known
  /\ Seen(n)
  /\ UNCHANGED <<pg, applied, fence, owed, notices, saver, bridge>>

(* Mutant: the operation is recorded before its apply callback answers.     *)
NoticeRefusedSeen(n) ==
  /\ NoticeArrives(n)
  /\ n.revision > fence[n.owner].known
  /\ fence' = [fence EXCEPT ![n.owner] = Refused(fence[n.owner], n.revision)]
  /\ Seen(n)
  /\ UNCHANGED <<pg, applied, owed, notices, saver, bridge>>

(* A gap, or an apply callback that fails: reload required, not seen.       *)
NoticeRefused(n) ==
  /\ NoticeArrives(n)
  /\ n.revision > fence[n.owner].known
  /\ fence' = [fence EXCEPT ![n.owner] = Refused(fence[n.owner], n.revision)]
  /\ UNCHANGED <<pg, applied, owed, notices, recent, saver, bridge>>

NoticeApplied(n) ==
  /\ NoticeArrives(n)
  /\ n.revision = fence[n.owner].known + 1
  /\ applied' = [applied EXCEPT ![n.owner] =
                   [applied[n.owner] EXCEPT ![n.revision] = applied[n.owner][n.revision] + 1]]
  /\ fence' = [fence EXCEPT ![n.owner] = Advanced(fence[n.owner], n.revision)]
  /\ Seen(n)
  /\ UNCHANGED <<pg, owed, notices, saver, bridge>>

-----------------------------------------------------------------------------
(* Reload *)

(* Mutant: any candidate is good that does not go back.                     *)
AcceptableNotOlder(f, r) == f.known <= r

(* A load returns a revision PostgreSQL had at some time: it may lag.       *)
Acceptable(f, r) == f.known <= r /\ f.required <= r

Replaced(o, r) ==
  /\ applied' = [applied EXCEPT ![o] = UpTo(r)]
  /\ fence' = [fence EXCEPT ![o] = NewReconcileState(r)]

(* A load error, a refused candidate and a failing Apply change nothing.    *)
EnsureReconciled(o) ==
  /\ Serialized(o)
  /\ fence[o].pending
  /\ \E r \in 0..pg[o] : Acceptable(fence[o], r) /\ Replaced(o, r)
  /\ UNCHANGED <<pg, owed, notices, recent, saver, bridge>>

(* The owner learns of a divergence whose revision it does not know.        *)
ForceReload(o) ==
  /\ Serialized(o)
  /\ fence' = [fence EXCEPT ![o] = RequireReload(fence[o])]
  /\ UNCHANGED <<pg, applied, owed, notices, recent, saver, bridge>>

-----------------------------------------------------------------------------
(* The saver bridge: the saver works on while it runs.                      *)

(* A snapshot's compare-and-set finds another revision: the entry blocks.   *)
SaverFindsStale(o) ==
  /\ ~saver[o].blocked
  /\ saver[o].known # pg[o]
  /\ saver' = [saver EXCEPT ![o] = [saver[o] EXCEPT !.blocked = TRUE]]
  /\ UNCHANGED <<pg, applied, fence, owed, notices, recent, bridge>>

BridgeStart(o) ==
  /\ Serialized(o)
  /\ saver[o].blocked
  /\ fence' = [fence EXCEPT ![o] = RequireReload(fence[o])]
  /\ bridge' = [bridge EXCEPT ![o] = "reload"]
  /\ UNCHANGED <<pg, applied, owed, notices, recent, saver>>

BridgeReloaded(o) ==
  /\ bridge[o] = "reload"
  /\ \E r \in 0..pg[o] : Acceptable(fence[o], r) /\ Replaced(o, r)
  /\ bridge' = [bridge EXCEPT ![o] = "resolve"]
  /\ UNCHANGED <<pg, owed, notices, recent, saver>>

BridgeReloadFails(o) ==
  /\ bridge[o] = "reload"
  /\ bridge' = [bridge EXCEPT ![o] = "idle"]
  /\ UNCHANGED <<pg, applied, fence, owed, notices, recent, saver>>

(* ResolveReconciled refuses a revision below the one the saver knows.      *)
BridgeResolved(o) ==
  /\ bridge[o] = "resolve"
  /\ saver[o].known <= fence[o].known
  /\ saver' = [saver EXCEPT ![o] = [known |-> fence[o].known, blocked |-> FALSE]]
  /\ bridge' = [bridge EXCEPT ![o] = "idle"]
  /\ UNCHANGED <<pg, applied, fence, owed, notices, recent>>

(* Mutant: a failing resolve does not fence the aggregate again.            *)
BridgeResolveFailsOpen(o) ==
  /\ bridge[o] = "resolve"
  /\ bridge' = [bridge EXCEPT ![o] = "idle"]
  /\ UNCHANGED <<pg, applied, fence, owed, notices, recent, saver>>

BridgeResolveFails(o) ==
  /\ bridge[o] = "resolve"
  /\ fence' = [fence EXCEPT ![o] = RequireReload(fence[o])]
  /\ bridge' = [bridge EXCEPT ![o] = "idle"]
  /\ UNCHANGED <<pg, applied, owed, notices, recent, saver>>

-----------------------------------------------------------------------------
(* A crash loses fences, caches and notices; the aggregates are loaded      *)
(* again from PostgreSQL, whatever the coordinator still owed them.         *)
Restart ==
  /\ applied' = [o \in Owners |-> UpTo(pg[o])]
  /\ fence' = [o \in Owners |-> NewReconcileState(pg[o])]
  /\ owed' = {}
  /\ notices' = {}
  /\ recent' = [o \in Owners |-> <<>>]
  /\ saver' = [o \in Owners |-> [known |-> pg[o], blocked |-> FALSE]]
  /\ bridge' = [o \in Owners |-> "idle"]
  /\ UNCHANGED pg

ReconcileInit ==
  /\ pg = [o \in Owners |-> 0]
  /\ applied = [o \in Owners |-> UpTo(0)]
  /\ fence = [o \in Owners |-> NewReconcileState(0)]
  /\ owed = {}
  /\ notices = {}
  /\ recent = [o \in Owners |-> <<>>]
  /\ saver = [o \in Owners |-> [known |-> 0, blocked |-> FALSE]]
  /\ bridge = [o \in Owners |-> "idle"]

NoticeStep(n) == NoticeStale(n) \/ NoticeRefused(n) \/ NoticeApplied(n)

BridgeStep(o) ==
  \/ BridgeStart(o)
  \/ BridgeReloaded(o)
  \/ BridgeReloadFails(o)
  \/ BridgeResolved(o)
  \/ BridgeResolveFails(o)

ReconcileNext ==
  \/ \E S \in (SUBSET Owners) \ {{}} : Commit(S)
  \/ \E m \in owed : Mark(m)
  \/ \E n \in notices : NoticeStep(n)
  \/ \E o \in Owners : CommitElsewhere(o) \/ SaverFindsStale(o)
  \/ \E o \in Owners : EnsureReconciled(o) \/ ForceReload(o) \/ BridgeStep(o)
  \/ Restart

ReconcileSpec == ReconcileInit /\ [][ReconcileNext]_reconcileVars

-----------------------------------------------------------------------------
(* Properties *)

(* The known revision says exactly what memory holds: every change up to it *)
(* once and none after it, however notices and reloads alternate            *)
(* (reconcile.go, knownRevision); and memory never claims, or waits for, a  *)
(* revision PostgreSQL does not have.                                       *)
MemoryIsPrefix ==
  \A o \in Owners :
    /\ applied[o] = UpTo(fence[o].known)
    /\ fence[o].known <= fence[o].required
    /\ fence[o].required <= pg[o]
    /\ ~fence[o].pending => fence[o].known = fence[o].required

(* Every variable has its type.                                             *)
ReconcileTypeOK ==
  /\ pg \in [Owners -> Revisions]
  /\ applied \in [Owners -> [Changes -> Nat]]
  /\ fence \in [Owners -> Fence]
  /\ owed \subseteq Notice
  /\ notices \subseteq Notice
  /\ recent \in [Owners -> Seq(OpID)]
  /\ saver \in [Owners -> [known: Revisions, blocked: BOOLEAN]]
  /\ bridge \in [Owners -> {"idle", "reload", "resolve"}]

(* A commit whose notices went out is reflected in memory or blocks the     *)
(* next mutation of each participant until it is (EnsureReconciled), and an *)
(* operation the cache answers as a duplicate is in memory: a failed or     *)
(* refused delivery leaves it out of the cache (deliverCrossCellOp).        *)
NoCommitSlipsBy ==
  /\ ReconcileTypeOK
  /\ \A n \in notices :
       LET f == fence[n.owner] IN
       /\ n.revision <= f.known \/ (f.pending /\ n.revision <= f.required)
       /\ Holds(recent[n.owner], n.op) => n.revision <= f.known

(* ReconcileSaver returns with both layers clear at the same revision, or   *)
(* with both closed: never with only one of them cleared.                   *)
BridgeReturnsWhole ==
  [][\A o \in Owners : bridge[o] # "idle" /\ bridge'[o] = "idle" =>
       IF saver'[o].blocked THEN fence'[o].pending
       ELSE ~fence'[o].pending /\ saver'[o].known = fence'[o].known]_reconcileVars

=============================================================================
