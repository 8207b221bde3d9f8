----------------------------- MODULE DeathStore -----------------------------
(***************************************************************************)
(* The database side of a death: the three transactions that change a     *)
(* character and its pending death together, the reads recovery and entry  *)
(* make, and the proofs by which an executor decides, from what it reads,  *)
(* that a transaction whose answer was lost did commit.                    *)
(* store/death_entry.go, portal_of_life.go, death_penalties.go,            *)
(* death_recovery.go, player_bootstrap.go and the proofs of persist/.      *)
(*                                                                         *)
(* A database is [row, debt, corpses]: a revisioned row for the character  *)
(* and for each item, the pending death of the character, and the number   *)
(* of corpses inserted so far.  A transaction is the set of databases it   *)
(* may commit: none where it is refused.                                   *)
(***************************************************************************)
EXTENDS DeathRules, FiniteSets

CONSTANTS Character, Items

ASSUME RootsAreDistinct == Character \notin Items

Roots == Items \cup {Character}

(* What a character row says, as far as deaths go: how many it has been    *)
(* through that are or were to be paid for, how many were free, how many   *)
(* penalties it has suffered, and how far it has played.                   *)
NewCharacter == [deaths |-> 0, free |-> 0, losses |-> 0, progress |-> 0]

(* What an item row says: that the character carries it, or the death it   *)
(* was lost in.                                                             *)
Carried == 0

NothingPending == [phase |-> "none", cost |-> 0, time |-> 0, corpse |-> 0, used |-> FALSE]
NoCorpse == 0

EmptyDatabase ==
    [row |-> [k \in Roots |-> [rev |-> 1, is |-> IF k = Character THEN NewCharacter ELSE Carried]],
     debt |-> NothingPending, corpses |-> 0]

-----------------------------------------------------------------------------
(* Requests.  A death writes the roots in content, a portal and penalties  *)
(* the character alone.                                                     *)

validateDeathEntryRequest(req) ==
    /\ req.cost \in PendingCosts
    /\ req.time >= 0
    /\ req.home => req.cost = 0

validatePortalOfLifeRequest(req) == req.corpse # NoCorpse /\ req.proposed \in 5 .. 80

validateDeathPenaltiesRequest(req) == req.cost \in PendingCosts

(* Compare-and-set: every root must be at the revision expected of it.      *)
Current(db, content, expected) == \A k \in DOMAIN content : db.row[k].rev = expected[k]

Written(db, content) ==
    [k \in Roots |-> IF k \in DOMAIN content
                     THEN [rev |-> db.row[k].rev + 1, is |-> content[k]]
                     ELSE db.row[k]]

-----------------------------------------------------------------------------
(* Mutant: an earlier death that is still to be paid for is overwritten.    *)
CommitOverPending(db, req, expected) ==
    IF Current(db, req.content, expected)
    THEN {[row |-> Written(db, req.content), corpses |-> db.corpses + 1,
           debt |-> IF req.home THEN NothingPending
                    ELSE [phase |-> "pending", cost |-> req.cost, time |-> req.time,
                          corpse |-> db.corpses + 1, used |-> FALSE]]}
    ELSE {}

(* One corpse, the items around it, and the debt; refused while an earlier  *)
(* death is still to be paid for.                                           *)
CommitDeathEntry(db, req, expected) ==
    IF /\ validateDeathEntryRequest(req)
       /\ Current(db, req.content, expected)
       /\ db.debt.phase = "none"
    THEN {[row |-> Written(db, req.content), corpses |-> db.corpses + 1,
           debt |-> IF req.home THEN NothingPending
                    ELSE [phase |-> "pending", cost |-> req.cost, time |-> req.time,
                          corpse |-> db.corpses + 1, used |-> FALSE]]}
    ELSE {}

(* Mutant: the portal sets the cost it proposes.                            *)
CommitProposed(db, req, expected) ==
    IF /\ Current(db, req.content, expected)
       /\ db.debt.phase = "pending"
       /\ db.debt.corpse = req.corpse
       /\ ~db.debt.used
    THEN {[db EXCEPT !.row = Written(db, req.content), !.debt.cost = req.proposed, !.debt.used = TRUE]}
    ELSE {}

(* The portal lowers the cost of the debt at this corpse, once.             *)
CommitPortalOfLife(db, req, expected) ==
    IF /\ validatePortalOfLifeRequest(req)
       /\ Current(db, req.content, expected)
       /\ db.debt.phase = "pending"
       /\ db.debt.corpse = req.corpse
       /\ ~db.debt.used
    THEN {[db EXCEPT !.row = Written(db, req.content),
                     !.debt.cost = IF req.proposed < db.debt.cost THEN req.proposed ELSE db.debt.cost,
                     !.debt.used = TRUE]}
    ELSE {}

(* The penalties pay the debt, at the cost they were planned for.           *)
CommitDeathPenalties(db, req, expected) ==
    IF /\ validateDeathPenaltiesRequest(req)
       /\ Current(db, req.content, expected)
       /\ db.debt.phase = "pending"
       /\ db.debt.cost = req.cost
    THEN {[db EXCEPT !.row = Written(db, req.content), !.debt = NothingPending]}
    ELSE {}

(* A snapshot save of one root.                                             *)
SaveRoot(db, k, content, expected) ==
    IF db.row[k].rev = expected THEN {[db EXCEPT !.row = Written(db, [r \in {k} |-> content])]} ELSE {}

(* A corpse decays; the debt stays, without its corpse.                     *)
DeleteCorpse(db) == [db EXCEPT !.debt.corpse = NoCorpse]

-----------------------------------------------------------------------------
(* What recovery reads: one root, and with the character its debt.          *)

LoadDeathCharacterRecovery(db) == [rev |-> db.row[Character].rev, is |-> db.row[Character].is,
                                   debt |-> db.debt]

LoadDeathItemRecovery(db, k) == db.row[k]

(* What entering the world reads, in one transaction.                       *)
LoadPlayerBootstrapRecovery(db) ==
    [is |-> db.row[Character].is,
     items |-> {k \in Items : db.row[k].is = Carried},
     debt |-> db.debt]

-----------------------------------------------------------------------------
(* The proofs.  read[k] is what recovery read of root k.                    *)

EqualContent(content, expected, read) ==
    \A k \in DOMAIN content : read[k].rev = expected[k] + 1 /\ read[k].is = content[k]

equalDeathPendingShape(req, debt) ==
    IF req.home THEN debt.phase = "none"
    ELSE /\ debt.phase = "pending"
         /\ debt.cost = req.cost
         /\ debt.time = req.time
         /\ ~debt.used

(* Mutant: a death is proved by what is pending alone.                      *)
ProvedByPending(req, expected, read) == equalDeathPendingShape(req, read[Character].debt)

proveDeathCommit(req, expected, read) ==
    /\ EqualContent(req.content, expected, read)
    /\ equalDeathPendingShape(req, read[Character].debt)

provePenaltyCommit(req, expected, read) ==
    /\ EqualContent(req.content, expected, read)
    /\ read[Character].debt.phase = "none"

provePortalCommit(req, expected, read) ==
    LET debt == read[Character].debt
    IN /\ EqualContent(req.content, expected, read)
       /\ debt.phase = "pending"
       /\ debt.time = req.before.time
       /\ debt.cost = req.effective
       /\ debt.used
       /\ debt.corpse \in {NoCorpse, req.corpse}

(* The pending death a lost answer left behind is the one in the database; *)
(* an answer that arrived leaves the one that was asked for.                *)
completionWithRecoveredPending(read) == read[Character].debt

completionWithNormalPending(req, corpse) ==
    IF req.home THEN NothingPending
    ELSE [phase |-> "pending", cost |-> req.cost, time |-> req.time, corpse |-> corpse, used |-> FALSE]

normalPortalCompletion(req, cost) == [req.before EXCEPT !.cost = cost, !.used = TRUE]

recoveredPortalCompletion(read) == read[Character].debt

=============================================================================
