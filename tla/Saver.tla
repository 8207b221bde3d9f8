------------------------------- MODULE Saver -------------------------------
(***************************************************************************)
(* The snapshot saver of internal/sim: saver.go, saver_critical.go and     *)
(* saver_critical_reservation.go.                                          *)
(*                                                                         *)
(* One entry per durable aggregate root holds the revision the saver       *)
(* believes PostgreSQL has (known), at most one pending snapshot, and the  *)
(* gate that gives one caller at a time the right to write the root.       *)
(* Callers (the periodic flush, write-throughs, critical sets,             *)
(* reservations, reconciliations) are goroutines; the entry table is       *)
(* guarded by a mutex that is never held while a gate is awaited or a      *)
(* write runs, so every critical section of the mutex is one action.       *)
(*                                                                         *)
(* Data is abstracted to versions: every snapshot captured for a key gets  *)
(* the next number, so "older" and "newer" content are comparable.  The    *)
(* gate of a key belongs to one registration of it (Track allocates a new  *)
(* one): a gate is identified by the key and the registration number.      *)
(***************************************************************************)
EXTENDS Integers, FiniteSets

CONSTANTS
  Keys,        \* aggregate roots, numbered in the order of AggregateKey.Less
  Callers,     \* goroutines that call the saver
  MaxRev,      \* math.MaxInt64: a known revision that cannot advance
  MaxGen,      \* math.MaxUint64: a dirty generation that cannot advance
  MaxVersion,  \* bound on the snapshots captured per key
  MaxInc,      \* bound on the registrations per key
  MaxFaults,   \* bound on store errors and lost acknowledgements
  OwnersWait   \* does an aggregate's owner wait for its synchronous calls?

ASSUME SaverConstants ==
  /\ Keys \subseteq Nat
  /\ MaxRev \in Nat
  /\ MaxGen \in Nat
  /\ MaxVersion \in Nat
  /\ MaxInc \in Nat
  /\ MaxFaults \in Nat
  /\ OwnersWait \in BOOLEAN

VARIABLES
  entry,     \* entry[k]: the saver's entry for k
  call,      \* call[p]: what caller p is doing
  pg,        \* pg[k]: the committed row, its revision and content version
  captured,  \* captured[k]: the newest snapshot version taken of k
  accepted,  \* accepted[k]: the newest version the saver answers for
  faults     \* store faults so far

vars == <<entry, call, pg, captured, accepted, faults>>

-----------------------------------------------------------------------------
(* Types and null values *)

Job == [gen: Nat, ver: Nat]
NoJob == [gen |-> 0, ver |-> 0]

Entry == [tracked: BOOLEAN, inc: Nat, known: Nat, blocked: BOOLEAN,
          pending: Job, inflight: BOOLEAN, seq: Nat, reserved: BOOLEAN]

PCs == {"idle", "flush", "gate", "owned", "reserved", "write", "acked", "unlock"}
Ops == {"none", "save", "through", "critical", "reserve", "resolve"}
Results == {"none", "ok", "err", "stale", "odd"}

Call == [pc: PCs, op: Ops, todo: SUBSET Keys, part: SUBSET Keys,
         held: SUBSET Keys, saw: [Keys -> Nat], job: [Keys -> Job],
         expected: [Keys -> Nat], res: Results]

NoCall == [pc |-> "idle", op |-> "none", todo |-> {}, part |-> {}, held |-> {},
           saw |-> [k \in Keys |-> 0], job |-> [k \in Keys |-> NoJob],
           expected |-> [k \in Keys |-> 0], res |-> "none"]

NoEntry(i) == [tracked |-> FALSE, inc |-> i, known |-> 0, blocked |-> FALSE,
               pending |-> NoJob, inflight |-> FALSE, seq |-> 0,
               reserved |-> FALSE]

Pending(k) == entry[k].pending.gen # 0

(* The gate of registration i of k is held by the one caller that took it.  *)
GateFree(k, i) == \A q \in Callers : k \notin call[q].held \/ call[q].saw[k] # i

(* The entry p looked up is still the one in the table.                     *)
SameEntry(p, k) == entry[k].tracked /\ entry[k].inc = call[p].saw[k]

(* Owner discipline.  An aggregate has one owner, and the calls that hand   *)
(* over its state block their caller: with OwnersWait the owner captures no *)
(* further snapshot of k while such a call for k has not returned.          *)
OwnerFree(k) ==
  OwnersWait => \A q \in Callers :
    ~(call[q].op \in {"through", "critical", "resolve"} /\ k \in call[q].part)

Larger(a, b) == IF a < b THEN b ELSE a

-----------------------------------------------------------------------------
(* Registration and dirty marks: one critical section of the mutex each     *)

(* Track: the known revision is one that was loaded from PostgreSQL, not    *)
(* necessarily the current one: another writer may commit after the load.   *)
Track(k) ==
  /\ ~entry[k].tracked
  /\ entry[k].inc < MaxInc
  /\ \E r \in 0..pg[k].rev :
       entry' = [entry EXCEPT ![k] = [NoEntry(entry[k].inc + 1) EXCEPT
                                        !.tracked = TRUE, !.known = r]]
  /\ accepted' = [accepted EXCEPT ![k] = pg[k].ver]
  /\ UNCHANGED <<call, pg, captured, faults>>

(* Mutant: Untrack forgets the write in flight.                             *)
UntrackInFlight(k) ==
  /\ entry[k].tracked /\ ~entry[k].blocked /\ ~Pending(k) /\ ~entry[k].reserved
  /\ entry' = [entry EXCEPT ![k] = NoEntry(entry[k].inc)]
  /\ UNCHANGED <<call, pg, captured, accepted, faults>>

(* Mutant: Untrack forgets the reservation.                                 *)
UntrackReserved(k) ==
  /\ entry[k].tracked /\ ~entry[k].blocked /\ ~Pending(k) /\ ~entry[k].inflight
  /\ entry' = [entry EXCEPT ![k] = NoEntry(entry[k].inc)]
  /\ UNCHANGED <<call, pg, captured, accepted, faults>>

Untrack(k) ==
  /\ entry[k].tracked
  /\ ~entry[k].blocked
  /\ ~Pending(k)
  /\ ~entry[k].inflight
  /\ ~entry[k].reserved
  /\ entry' = [entry EXCEPT ![k] = NoEntry(entry[k].inc)]
  /\ UNCHANGED <<call, pg, captured, accepted, faults>>

MarkDirty(k) ==
  LET v == captured[k] + 1 IN
  /\ OwnerFree(k)
  /\ entry[k].tracked
  /\ ~entry[k].blocked
  /\ entry[k].seq < MaxGen
  /\ v <= MaxVersion
  /\ entry' = [entry EXCEPT ![k] = [@ EXCEPT
                !.seq = entry[k].seq + 1, !.pending = [gen |-> entry[k].seq + 1, ver |-> v]]]
  /\ captured' = [captured EXCEPT ![k] = v]
  /\ accepted' = [accepted EXCEPT ![k] = v]
  /\ UNCHANGED <<call, pg, faults>>

-----------------------------------------------------------------------------
(* Callers: the start of each operation, up to the wait for its gates       *)

(* flushPass captures the keys that are dirty or blocked.                   *)
StartFlush(p) ==
  LET todo == {k \in Keys : entry[k].tracked /\ (Pending(k) \/ entry[k].blocked)} IN
  /\ call[p].pc = "idle"
  /\ todo # {}
  /\ call' = [call EXCEPT ![p] = [NoCall EXCEPT !.pc = "flush", !.todo = todo]]
  /\ UNCHANGED <<entry, pg, captured, accepted, faults>>

(* The pass takes its keys in canonical order; saveOne looks the entry up   *)
(* (a key no longer tracked only adds an error) and goes for its gate.      *)
FlushNext(p) ==
  /\ call[p].pc = "flush"
  /\ \E k \in call[p].todo :
       /\ \A j \in call[p].todo : k <= j
       /\ IF entry[k].tracked
          THEN call' = [call EXCEPT ![p] = [NoCall EXCEPT
                          !.pc = "gate", !.op = "save", !.todo = call[p].todo \ {k},
                          !.part = {k}, !.saw[k] = entry[k].inc]]
          ELSE call' = [call EXCEPT ![p].todo = @ \ {k}]
  /\ UNCHANGED <<entry, pg, captured, accepted, faults>>

FlushDone(p) ==
  /\ call[p].pc = "flush"
  /\ call[p].todo = {}
  /\ call' = [call EXCEPT ![p] = NoCall]
  /\ UNCHANGED <<entry, pg, captured, accepted, faults>>

(* WriteThrough allocates the generation of its snapshot before it waits.   *)
StartWriteThrough(p, k) ==
  LET v == captured[k] + 1
      g == entry[k].seq + 1 IN
  /\ call[p].pc = "idle"
  /\ OwnerFree(k)
  /\ entry[k].tracked
  /\ ~entry[k].blocked
  /\ entry[k].seq < MaxGen
  /\ v <= MaxVersion
  /\ entry' = [entry EXCEPT ![k].seq = g]
  /\ captured' = [captured EXCEPT ![k] = v]
  /\ call' = [call EXCEPT ![p] = [NoCall EXCEPT
                !.pc = "gate", !.op = "through", !.part = {k},
                !.saw[k] = entry[k].inc, !.job[k] = [gen |-> g, ver |-> v]]]
  /\ UNCHANGED <<pg, accepted, faults>>

(* WriteCriticalSet resolves its entries; the content it will write is      *)
(* fixed here, its generations only once it owns every gate.                *)
StartCriticalSet(p, S) ==
  /\ call[p].pc = "idle"
  /\ \A k \in S : OwnerFree(k) /\ entry[k].tracked /\ captured[k] < MaxVersion
  /\ captured' = [k \in Keys |-> IF k \in S THEN captured[k] + 1 ELSE captured[k]]
  /\ call' = [call EXCEPT ![p] = [NoCall EXCEPT
                !.pc = "gate", !.op = "critical", !.part = S,
                !.saw = [k \in Keys |-> IF k \in S THEN entry[k].inc ELSE 0],
                !.job = [k \in Keys |-> IF k \in S
                                        THEN [gen |-> 0, ver |-> captured[k] + 1]
                                        ELSE NoJob]]]
  /\ UNCHANGED <<entry, pg, accepted, faults>>

(* A blocked key is reconciled: its owner has loaded the committed row and  *)
(* replaced its memory, then calls ResolveReconciled with that revision.    *)
StartResolve(p, k) ==
  /\ call[p].pc = "idle"
  /\ OwnerFree(k)
  /\ entry[k].tracked
  /\ entry[k].blocked
  /\ call' = [call EXCEPT ![p] = [NoCall EXCEPT
                !.pc = "gate", !.op = "resolve", !.part = {k},
                !.saw[k] = entry[k].inc,
                !.job[k] = [gen |-> 0, ver |-> pg[k].ver],
                !.expected[k] = pg[k].rev]]
  /\ UNCHANGED <<entry, pg, captured, accepted, faults>>

-----------------------------------------------------------------------------
(* Gates *)

(* Mutant: the gates are taken in any order.                                *)
AcquireUnordered(p) ==
  /\ call[p].pc = "gate"
  /\ \E k \in call[p].part \ call[p].held :
       /\ GateFree(k, call[p].saw[k])
       /\ call' = [call EXCEPT ![p] = [@ EXCEPT
                     !.held = call[p].held \cup {k},
                     !.pc = IF call[p].part = call[p].held \cup {k}
                            THEN "owned" ELSE "gate"]]
  /\ UNCHANGED <<entry, pg, captured, accepted, faults>>

(* Mutant: the gate of a replaced registration is never granted again.      *)
AcquireCurrent(p) ==
  /\ call[p].pc = "gate"
  /\ \E k \in call[p].part \ call[p].held :
       /\ \A j \in call[p].part \ call[p].held : k <= j
       /\ SameEntry(p, k) /\ GateFree(k, call[p].saw[k])
       /\ call' = [call EXCEPT ![p] = [@ EXCEPT
                     !.held = call[p].held \cup {k},
                     !.pc = IF call[p].part = call[p].held \cup {k}
                            THEN "owned" ELSE "gate"]]
  /\ UNCHANGED <<entry, pg, captured, accepted, faults>>

(* acquire takes the participants' gates one at a time in canonical order.  *)
Acquire(p) ==
  /\ call[p].pc = "gate"
  /\ \E k \in call[p].part \ call[p].held :
       /\ \A j \in call[p].part \ call[p].held : k <= j
       /\ GateFree(k, call[p].saw[k])
       /\ call' = [call EXCEPT ![p] = [@ EXCEPT
                     !.held = call[p].held \cup {k},
                     !.pc = IF call[p].part = call[p].held \cup {k}
                            THEN "owned" ELSE "gate"]]
  /\ UNCHANGED <<entry, pg, captured, accepted, faults>>

(* A context cancelled during the wait, or found cancelled right after it,  *)
(* gives every gate back; a cancelled flush pass starts no further key.     *)
Cancelled(p) ==
  /\ \/ call[p].pc \in {"gate", "owned"}
     \/ call[p].pc = "flush" /\ call[p].todo # {}
  /\ call' = [call EXCEPT ![p] = NoCall]
  /\ UNCHANGED <<entry, pg, captured, accepted, faults>>

(* The deferred release; a flush pass goes on with its remaining keys.      *)
Release(p) ==
  /\ call[p].pc = "unlock"
  /\ call' = [call EXCEPT ![p] = IF call[p].op = "save"
                                 THEN [NoCall EXCEPT !.pc = "flush", !.todo = call[p].todo]
                                 ELSE NoCall]
  /\ UNCHANGED <<entry, pg, captured, accepted, faults>>

-----------------------------------------------------------------------------
(* The critical section after the gates are owned *)

GiveUp(p) == call' = [call EXCEPT ![p].pc = "unlock"]

(* The set of participants whose revision cannot advance any more.          *)
Maxed(S) == {k \in S : entry[k].known = MaxRev}

Fence(S) == entry' = [k \in Keys |-> IF k \in S THEN [entry[k] EXCEPT !.blocked = TRUE]
                                                 ELSE entry[k]]

(* Mutant: an exhausted revision is an ordinary error, with no fence.       *)
EnterSaveUnfenced(p) ==
  /\ call[p].pc = "owned"
  /\ call[p].op = "save"
  /\ \E k \in call[p].part :
       \/ /\ \/ ~SameEntry(p, k) \/ entry[k].blocked \/ ~Pending(k)
             \/ entry[k].known = MaxRev
          /\ GiveUp(p)
          /\ UNCHANGED entry
       \/ /\ SameEntry(p, k) /\ ~entry[k].blocked /\ Pending(k)
          /\ entry[k].known # MaxRev
          /\ entry' = [entry EXCEPT ![k] = [@ EXCEPT !.pending = NoJob, !.inflight = TRUE]]
          /\ call' = [call EXCEPT ![p] = [@ EXCEPT
                        !.pc = "write",
                        !.job = [call[p].job EXCEPT ![k] = entry[k].pending],
                        !.expected = [call[p].expected EXCEPT ![k] = entry[k].known]]]
  /\ UNCHANGED <<pg, captured, accepted, faults>>

(* saveOne: nothing to do, refused, exhausted, or the pending snapshot is   *)
(* taken out of the entry and goes in flight.                               *)
EnterSave(p) ==
  /\ call[p].pc = "owned"
  /\ call[p].op = "save"
  /\ \E k \in call[p].part :
       \/ /\ ~SameEntry(p, k) \/ entry[k].blocked \/ ~Pending(k)
          /\ GiveUp(p)
          /\ UNCHANGED entry
       \/ /\ SameEntry(p, k) /\ ~entry[k].blocked /\ Pending(k)
          /\ entry[k].known = MaxRev
          /\ GiveUp(p)
          /\ Fence({k})
       \/ /\ SameEntry(p, k) /\ ~entry[k].blocked /\ Pending(k)
          /\ entry[k].known # MaxRev
          /\ entry' = [entry EXCEPT ![k] = [@ EXCEPT !.pending = NoJob, !.inflight = TRUE]]
          /\ call' = [call EXCEPT ![p] = [@ EXCEPT
                        !.pc = "write",
                        !.job = [call[p].job EXCEPT ![k] = entry[k].pending],
                        !.expected = [call[p].expected EXCEPT ![k] = entry[k].known]]]
  /\ UNCHANGED <<pg, captured, accepted, faults>>

(* Mutant: the fence is not looked at again once the gate is owned.         *)
EnterWriteThroughFenced(p) ==
  /\ call[p].pc = "owned"
  /\ call[p].op = "through"
  /\ \E k \in call[p].part :
       \/ ~SameEntry(p, k) /\ GiveUp(p) /\ UNCHANGED entry
       \/ /\ SameEntry(p, k)
          /\ entry[k].known # MaxRev
          /\ entry' = [entry EXCEPT ![k].inflight = TRUE]
          /\ call' = [call EXCEPT ![p] = [@ EXCEPT
                        !.pc = "write",
                        !.expected = [call[p].expected EXCEPT ![k] = entry[k].known]]]
  /\ UNCHANGED <<pg, captured, accepted, faults>>

EnterWriteThrough(p) ==
  /\ call[p].pc = "owned"
  /\ call[p].op = "through"
  /\ \E k \in call[p].part :
       \/ /\ ~SameEntry(p, k) \/ entry[k].blocked
          /\ GiveUp(p)
          /\ UNCHANGED entry
       \/ /\ SameEntry(p, k) /\ ~entry[k].blocked
          /\ entry[k].known = MaxRev
          /\ GiveUp(p)
          /\ Fence({k})
       \/ /\ SameEntry(p, k) /\ ~entry[k].blocked
          /\ entry[k].known # MaxRev
          /\ entry' = [entry EXCEPT ![k].inflight = TRUE]
          /\ call' = [call EXCEPT ![p] = [@ EXCEPT
                        !.pc = "write",
                        !.expected = [call[p].expected EXCEPT ![k] = entry[k].known]]]
  /\ UNCHANGED <<pg, captured, accepted, faults>>

(* WriteCriticalSet validates the whole set before it allocates anything.   *)
EnterCriticalSet(p) ==
  LET S == call[p].part
      refused == \E k \in S : ~SameEntry(p, k) \/ entry[k].blocked
                              \/ entry[k].seq = MaxGen
  IN
  /\ call[p].pc = "owned"
  /\ call[p].op = "critical"
  /\ \/ /\ refused
        /\ GiveUp(p)
        /\ UNCHANGED entry
     \/ /\ ~refused
        /\ Maxed(S) # {}
        /\ GiveUp(p)
        /\ Fence(Maxed(S))
     \/ /\ ~refused
        /\ Maxed(S) = {}
        /\ entry' = [k \in Keys |-> IF k \in S
                       THEN [entry[k] EXCEPT !.seq = entry[k].seq + 1, !.inflight = TRUE]
                       ELSE entry[k]]
        /\ call' = [call EXCEPT ![p] = [@ EXCEPT
                      !.pc = "write",
                      !.job = [k \in Keys |-> IF k \in S
                                 THEN [gen |-> entry[k].seq + 1, ver |-> call[p].job[k].ver]
                                 ELSE NoJob],
                      !.expected = [k \in Keys |-> IF k \in S THEN entry[k].known ELSE 0]]]
  /\ UNCHANGED <<pg, captured, accepted, faults>>

(* ResolveReconciled: never a revision below the known one; pending work    *)
(* describes the memory that was just replaced and is dropped.              *)
ApplyResolve(p) ==
  /\ call[p].pc = "owned"
  /\ call[p].op = "resolve"
  /\ GiveUp(p)
  /\ \E k \in call[p].part :
       \/ /\ ~SameEntry(p, k) \/ call[p].expected[k] < entry[k].known
          /\ UNCHANGED <<entry, accepted>>
       \/ /\ SameEntry(p, k)
          /\ call[p].expected[k] >= entry[k].known
          /\ entry' = [entry EXCEPT ![k] = [@ EXCEPT
                          !.known = call[p].expected[k], !.blocked = FALSE, !.pending = NoJob]]
          /\ accepted' = [accepted EXCEPT ![k] = call[p].job[k].ver]
  /\ UNCHANGED <<pg, captured, faults>>

-----------------------------------------------------------------------------
(* The write itself: one PostgreSQL transaction over all participants       *)

(* The compare-and-set commits when every root has the expected revision.   *)
(* The answer may be lost after the commit, the transaction may fail before *)
(* it, and a broken writer may report success with a wrong revision.        *)
StoreWrite(p) ==
  LET S == call[p].part
      current == \A k \in S : pg[k].rev = call[p].expected[k]
      Answer(r) == call' = [call EXCEPT ![p] = [@ EXCEPT !.pc = "acked", !.res = r]]
      Fault == faults < MaxFaults /\ faults' = faults + 1
      Commit == pg' = [k \in Keys |-> IF k \in S
                         THEN [rev |-> pg[k].rev + 1, ver |-> call[p].job[k].ver]
                         ELSE pg[k]]
  IN
  /\ call[p].pc = "write"
  /\ \/ current /\ Commit /\ Answer("ok") /\ UNCHANGED faults
     \/ current /\ Commit /\ Fault /\ \E r \in {"err", "odd"} : Answer(r)
     \/ ~current /\ Answer("stale") /\ UNCHANGED <<pg, faults>>
     \/ Fault /\ (\E r \in {"err", "odd"} : Answer(r)) /\ UNCHANGED pg
  /\ UNCHANGED <<entry, captured, accepted>>

-----------------------------------------------------------------------------
(* The outcome, applied in one critical section *)

(* Mutant: a failed snapshot replaces the newer one that is pending.        *)
FinishSaveOverNewer(p) ==
  /\ call[p].pc = "acked"
  /\ call[p].op = "save"
  /\ \E k \in call[p].part :
       entry' = [entry EXCEPT ![k] =
         CASE call[p].res = "ok" ->
                [@ EXCEPT !.inflight = FALSE, !.known = call[p].expected[k] + 1]
           [] call[p].res = "stale" ->
                [@ EXCEPT !.inflight = FALSE, !.blocked = TRUE]
           [] OTHER ->
                [@ EXCEPT !.inflight = FALSE, !.pending = call[p].job[k]]]
  /\ GiveUp(p)
  /\ UNCHANGED <<pg, captured, accepted, faults>>

(* saveOne: a failed snapshot goes back to pending unless a newer one is    *)
(* already there.                                                           *)
FinishSave(p) ==
  /\ call[p].pc = "acked"
  /\ call[p].op = "save"
  /\ \E k \in call[p].part :
       LET requeued == IF Pending(k) THEN entry[k].pending ELSE call[p].job[k] IN
       entry' = [entry EXCEPT ![k] =
         CASE call[p].res = "ok" ->
                [@ EXCEPT !.inflight = FALSE, !.known = call[p].expected[k] + 1]
           [] call[p].res = "err" ->
                [@ EXCEPT !.inflight = FALSE, !.pending = requeued]
           [] call[p].res = "stale" ->
                [@ EXCEPT !.inflight = FALSE, !.blocked = TRUE]
           [] OTHER ->
                [@ EXCEPT !.inflight = FALSE, !.blocked = TRUE, !.pending = requeued]]
  /\ GiveUp(p)
  /\ UNCHANGED <<pg, captured, accepted, faults>>

(* Mutant: a write-through does not supersede what was pending before it.   *)
FinishWriteThroughKeeping(p) ==
  /\ call[p].pc = "acked"
  /\ call[p].op = "through"
  /\ \E k \in call[p].part :
       /\ entry' = [entry EXCEPT ![k] =
            CASE call[p].res = "ok" ->
                   [@ EXCEPT !.inflight = FALSE, !.known = call[p].expected[k] + 1]
              [] call[p].res = "err" ->
                   [@ EXCEPT !.inflight = FALSE, !.pending = call[p].job[k]]
              [] OTHER ->
                   [@ EXCEPT !.inflight = FALSE, !.blocked = TRUE]]
       /\ accepted' = [accepted EXCEPT ![k] = IF call[p].res \in {"ok", "err"}
                                              THEN Larger(accepted[k], call[p].job[k].ver)
                                              ELSE accepted[k]]
  /\ GiveUp(p)
  /\ UNCHANGED <<pg, captured, faults>>

(* WriteThrough supersedes pending snapshots up to its own generation; a    *)
(* transient failure puts its snapshot back unless a newer one is pending.  *)
FinishWriteThrough(p) ==
  /\ call[p].pc = "acked"
  /\ call[p].op = "through"
  /\ \E k \in call[p].part :
       LET job == call[p].job[k]
           older == entry[k].pending.gen <= job.gen
       IN
       /\ entry' = [entry EXCEPT ![k] =
            CASE call[p].res = "ok" ->
                   [@ EXCEPT !.inflight = FALSE, !.known = call[p].expected[k] + 1,
                             !.pending = IF older THEN NoJob ELSE entry[k].pending]
              [] call[p].res = "err" ->
                   [@ EXCEPT !.inflight = FALSE, !.pending = IF older THEN job ELSE entry[k].pending]
              [] OTHER ->
                   [@ EXCEPT !.inflight = FALSE, !.blocked = TRUE]]
       /\ accepted' = [accepted EXCEPT ![k] = IF call[p].res \in {"ok", "err"}
                                              THEN Larger(accepted[k], job.ver) ELSE accepted[k]]
  /\ GiveUp(p)
  /\ UNCHANGED <<pg, captured, faults>>

(* Mutant: a critical set does not supersede what was pending before it.    *)
FinishCriticalSetKeeping(p) ==
  LET S == call[p].part
      ok == call[p].res = "ok"
  IN
  /\ call[p].pc = "acked"
  /\ call[p].op \in {"critical", "reserve"}
  /\ entry' = [k \in Keys |->
       IF k \notin S THEN entry[k]
       ELSE IF ok THEN [entry[k] EXCEPT
                          !.inflight = FALSE, !.known = call[p].expected[k] + 1]
       ELSE [entry[k] EXCEPT !.inflight = FALSE, !.blocked = TRUE]]
  /\ accepted' = [k \in Keys |-> IF k \in S /\ ok
                                 THEN Larger(accepted[k], call[p].job[k].ver)
                                 ELSE accepted[k]]
  /\ GiveUp(p)
  /\ UNCHANGED <<pg, captured, faults>>

(* Critical sets, reserved or not: every participant advances together, or  *)
(* any error at all fences every participant.                               *)
FinishCriticalSet(p) ==
  LET S == call[p].part
      Advanced(k) == [entry[k] EXCEPT
                        !.inflight = FALSE, !.known = call[p].expected[k] + 1,
                        !.pending = IF entry[k].pending.gen <= call[p].job[k].gen
                                    THEN NoJob ELSE entry[k].pending]
      Fenced(k) == [entry[k] EXCEPT !.inflight = FALSE, !.blocked = TRUE]
      ok == call[p].res = "ok"
  IN
  /\ call[p].pc = "acked"
  /\ call[p].op \in {"critical", "reserve"}
  /\ entry' = [k \in Keys |-> IF k \notin S THEN entry[k]
                              ELSE IF ok THEN Advanced(k) ELSE Fenced(k)]
  /\ accepted' = [k \in Keys |-> IF k \in S /\ ok
                                 THEN Larger(accepted[k], call[p].job[k].ver)
                                 ELSE accepted[k]]
  /\ GiveUp(p)
  /\ UNCHANGED <<pg, captured, faults>>

-----------------------------------------------------------------------------
(* Reservations *)

(* ReserveCriticalSet never waits: all gates now, or none (busy).  It holds *)
(* the mutex throughout, so it is one step; its generations are allocated   *)
(* here, so a later MarkDirty is newer than the reserved content.           *)
Reserve(p, S) ==
  LET free == \A k \in S : /\ OwnerFree(k)
                           /\ entry[k].tracked
                           /\ GateFree(k, entry[k].inc)
                           /\ ~entry[k].blocked
                           /\ entry[k].seq < MaxGen
                           /\ captured[k] < MaxVersion
  IN
  /\ call[p].pc = "idle"
  /\ free
  /\ \/ /\ Maxed(S) # {}
        /\ Fence(Maxed(S))
        /\ UNCHANGED <<call, captured>>
     \/ /\ Maxed(S) = {}
        /\ entry' = [k \in Keys |-> IF k \in S
                       THEN [entry[k] EXCEPT !.seq = entry[k].seq + 1, !.reserved = TRUE]
                       ELSE entry[k]]
        /\ captured' = [k \in Keys |-> IF k \in S THEN captured[k] + 1 ELSE captured[k]]
        /\ call' = [call EXCEPT ![p] = [NoCall EXCEPT
                      !.pc = "reserved", !.op = "reserve", !.part = S, !.held = S,
                      !.saw = [k \in Keys |-> IF k \in S THEN entry[k].inc ELSE 0],
                      !.expected = [k \in Keys |-> IF k \in S THEN entry[k].known ELSE 0],
                      !.job = [k \in Keys |-> IF k \in S
                                 THEN [gen |-> entry[k].seq + 1, ver |-> captured[k] + 1]
                                 ELSE NoJob]]]
  /\ UNCHANGED <<pg, accepted, faults>>

Unreserve(S) == entry' = [k \in Keys |-> IF k \in S THEN [entry[k] EXCEPT !.reserved = FALSE]
                                                    ELSE entry[k]]

(* Cancel, or an Execute whose context is already cancelled.                *)
CancelReservation(p) ==
  /\ call[p].pc = "reserved"
  /\ Unreserve(call[p].part)
  /\ GiveUp(p)
  /\ UNCHANGED <<pg, captured, accepted, faults>>

(* Execute re-validates, captures the expected revisions now, and writes.   *)
ExecuteReservation(p) ==
  LET S == call[p].part
      refused == \E k \in S : ~SameEntry(p, k) \/ entry[k].blocked
                              \/ entry[k].known = MaxRev
  IN
  /\ call[p].pc = "reserved"
  /\ ~refused
  /\ entry' = [k \in Keys |-> IF k \in S
                 THEN [entry[k] EXCEPT !.reserved = FALSE, !.inflight = TRUE]
                 ELSE entry[k]]
  /\ call' = [call EXCEPT ![p] = [@ EXCEPT
                !.pc = "write",
                !.expected = [k \in Keys |-> IF k \in S THEN entry[k].known ELSE 0]]]
  /\ UNCHANGED <<pg, captured, accepted, faults>>

-----------------------------------------------------------------------------
(* The environment *)

(* A transaction that does not go through this saver moves a root.          *)
ExternalCommit(k) ==
  /\ pg[k].rev < MaxRev
  /\ captured[k] < MaxVersion
  /\ captured' = [captured EXCEPT ![k] = @ + 1]
  /\ pg' = [pg EXCEPT ![k] = [rev |-> pg[k].rev + 1, ver |-> captured[k] + 1]]
  /\ UNCHANGED <<entry, call, accepted, faults>>

(* The process dies: only PostgreSQL survives.                              *)
Crash ==
  /\ \E k \in Keys : entry[k].tracked /\ entry[k].inc < MaxInc
  /\ entry' = [k \in Keys |-> NoEntry(entry[k].inc)]
  /\ call' = [p \in Callers |-> NoCall]
  /\ UNCHANGED <<pg, captured, accepted, faults>>

-----------------------------------------------------------------------------

Init ==
  /\ entry = [k \in Keys |-> NoEntry(0)]
  /\ call = [p \in Callers |-> NoCall]
  /\ pg = [k \in Keys |-> [rev |-> 0, ver |-> 0]]
  /\ captured = [k \in Keys |-> 0]
  /\ accepted = [k \in Keys |-> 0]
  /\ faults = 0

(* The steps a caller owes once it has begun: a granted gate, a transaction *)
(* answered, an outcome applied, a reservation executed or cancelled.       *)
CallerStep(p) ==
  \/ FlushNext(p) \/ FlushDone(p) \/ Release(p)
  \/ EnterSave(p) \/ EnterWriteThrough(p) \/ EnterCriticalSet(p) \/ ApplyResolve(p)
  \/ StoreWrite(p) \/ FinishSave(p) \/ FinishWriteThrough(p) \/ FinishCriticalSet(p)
  \/ CancelReservation(p) \/ ExecuteReservation(p)

Uncancelled ==
  \/ \E k \in Keys : Track(k) \/ Untrack(k) \/ MarkDirty(k) \/ ExternalCommit(k)
  \/ \E p \in Callers :
       \/ StartFlush(p)
       \/ \E k \in Keys : StartWriteThrough(p, k) \/ StartResolve(p, k)
       \/ \E S \in (SUBSET Keys) \ {{}} : StartCriticalSet(p, S) \/ Reserve(p, S)
       \/ Acquire(p)
       \/ CallerStep(p)
  \/ Crash

Next == Uncancelled \/ \E p \in Callers : Cancelled(p)

Spec == Init /\ [][Next]_vars

(* Every transaction is answered and every reservation ended (weak fairness *)
(* of a caller's own steps).  A gate is a Go channel, whose blocked         *)
(* receivers are served in the order they came: a caller for whom the gate  *)
(* is free again and again gets it (strong fairness).                       *)
GatesAreFair ==
  \A p \in Callers : WF_vars(CallerStep(p)) /\ SF_vars(Acquire(p))

(* Run while its context lives: no caller is cancelled, and its goroutine   *)
(* starts a flush pass at every tick, whatever the other callers are doing. *)
RunSpec ==
  /\ Init
  /\ [][Uncancelled]_vars
  /\ GatesAreFair
  /\ SF_vars(\E p \in Callers : StartFlush(p))

-----------------------------------------------------------------------------
(* Properties *)

(* Every variable has its type.                                             *)
TypeOK ==
  /\ entry \in [Keys -> Entry]
  /\ call \in [Callers -> Call]
  /\ pg \in [Keys -> [rev: Nat, ver: Nat]]
  /\ captured \in [Keys -> Nat]
  /\ accepted \in [Keys -> Nat]
  /\ faults \in Nat

Writing(p, k) == call[p].pc \in {"write", "acked"} /\ k \in call[p].part

(* No two callers ever run a write for the same aggregate, not even across  *)
(* an Untrack and a new Track that replaced the gate (spec 8.3.5).          *)
OneWriter ==
  \A k \in Keys : \A p, q \in Callers : Writing(p, k) /\ Writing(q, k) => p = q

(* The saver never believes a revision PostgreSQL has not committed, so it  *)
(* never skips a compare-and-set it should have lost (spec 8.3.7).          *)
KnownIsCommitted ==
  \A k \in Keys : entry[k].tracked => entry[k].known <= pg[k].rev

(* A fenced aggregate is at rest: while it is blocked nobody is writing it, *)
(* so a reconciliation reads a row this saver is not about to replace.      *)
FencedIsAtRest ==
  \A k \in Keys : entry[k].blocked => \A p \in Callers : ~Writing(p, k)

(* What the comment of Execute claims: while a reservation is live its      *)
(* participants stay tracked and unfenced, and the revision that Execute    *)
(* will expect is the one known when the reservation was made.              *)
ReservationPinsRevision ==
  \A p \in Callers : call[p].pc = "reserved" =>
    \A k \in call[p].part : /\ SameEntry(p, k)
                            /\ ~entry[k].blocked
                            /\ entry[k].known = call[p].expected[k]
                            /\ entry[k].known # MaxRev

(* A caller waiting for a gate holds only gates that come before it in      *)
(* canonical order, so overlapping critical sets cannot wait in a circle.   *)
HoldsOnlyEarlierGates ==
  \A p \in Callers : call[p].pc = "gate" =>
    \A h \in call[p].held : \A w \in call[p].part \ call[p].held : h < w

(* A clean, unfenced aggregate whose revision is current is really saved:   *)
(* PostgreSQL holds the newest snapshot the saver answered for.             *)
CleanIsDurable ==
  \A k \in Keys :
    /\ entry[k].tracked /\ ~entry[k].blocked
    /\ ~Pending(k) /\ ~entry[k].inflight
    /\ entry[k].known = pg[k].rev
    => pg[k].ver >= accepted[k]

(* A committed snapshot is never replaced by an older one: a newer snapshot *)
(* survives the writes that were under way or waiting when it arrived.      *)
NewerSnapshotSurvives ==
  [][\A k \in Keys : pg'[k].ver >= pg[k].ver]_vars

(* The saver implements what it promises about PostgreSQL.                  *)
Durable == INSTANCE DurableRoots WITH
  Roots <- Keys, rev <- [k \in Keys |-> pg[k].rev],
  durable <- [k \in Keys |-> pg[k].ver], newest <- captured

(* Commits are atomic over their set, advance each revision by one and      *)
(* install strictly newer snapshots: retries after a lost acknowledgement,  *)
(* overlapping sets and restarts never install one twice (spec 8.3.7-9).    *)
ImplementsDurableRoots == Durable!Spec

(* Nobody waits for a gate for ever, whatever sets overlap and whoever      *)
(* fails, is cancelled or holds a reservation in between.                   *)
GateWaitEnds ==
  \A p \in Callers : call[p].pc = "gate" ~> call[p].pc # "gate"

(* A dirty aggregate does not stay dirty: while the flush loop runs and the *)
(* store fails finitely often, its snapshot is written, superseded, or the  *)
(* aggregate is fenced and reported (spec 8.3.6, 8.3.7).                    *)
DirtySettles ==
  \A k \in Keys : Pending(k) ~> (~Pending(k) \/ entry[k].blocked)

=============================================================================
