---------------------------- MODULE SaverProofs ----------------------------
(***************************************************************************)
(* Theorems of Saver.tla, for every set of keys and callers and every      *)
(* bound: types, the exclusion of writers per aggregate, the order of the  *)
(* gates and, with owners that wait for their synchronous calls, what the  *)
(* rows hold: what is clean is saved, nothing newer is replaced by         *)
(* something older, and the saver implements DurableRoots.                 *)
(***************************************************************************)
EXTENDS Saver, TLAPS

-----------------------------------------------------------------------------
(* Types of the records the actions build *)

LEMMA NoCallType == NoCall \in Call
  BY DEF NoCall, Call, NoJob, Job, PCs, Ops, Results

LEMMA JobType == /\ NoJob \in Job
                 /\ \A g, v \in Nat : [gen |-> g, ver |-> v] \in Job
  BY DEF NoJob, Job

LEMMA NoEntryType == \A i \in Nat : NoEntry(i) \in Entry
  BY JobType DEF NoEntry, Entry

(* What TypeOK says of the fields of one entry and one row.                 *)
LEMMA EntryFields ==
  ASSUME TypeOK, NEW k \in Keys
  PROVE  /\ entry[k] \in Entry
         /\ entry[k].inc \in Nat /\ entry[k].known \in Nat /\ entry[k].seq \in Nat
         /\ entry[k].pending \in Job /\ entry[k].pending.gen \in Nat
         /\ pg[k].rev \in Nat /\ pg[k].ver \in Nat
         /\ captured[k] \in Nat /\ accepted[k] \in Nat
  BY DEF TypeOK, Entry, Job

(* What TypeOK says of the fields of one call.                              *)
LEMMA CallFields ==
  ASSUME TypeOK, NEW p \in Callers
  PROVE  /\ call[p] \in Call
         /\ call[p].pc \in PCs /\ call[p].op \in Ops /\ call[p].res \in Results
         /\ call[p].todo \in SUBSET Keys /\ call[p].part \in SUBSET Keys
         /\ call[p].held \in SUBSET Keys
         /\ call[p].saw \in [Keys -> Nat] /\ call[p].expected \in [Keys -> Nat]
         /\ call[p].job \in [Keys -> Job]
         /\ \A k \in Keys : call[p].job[k].gen \in Nat /\ call[p].job[k].ver \in Nat
  BY DEF TypeOK, Call, Job

(* An entry with some of its fields replaced is an entry.                   *)
LEMMA EntryUpdates ==
  ASSUME NEW e \in Entry
  PROVE  /\ [e EXCEPT !.blocked = TRUE] \in Entry
         /\ \A b \in BOOLEAN : [e EXCEPT !.inflight = b] \in Entry
         /\ [e EXCEPT !.reserved = FALSE] \in Entry
         /\ [e EXCEPT !.inflight = FALSE, !.blocked = TRUE] \in Entry
         /\ [e EXCEPT !.reserved = FALSE, !.inflight = TRUE] \in Entry
         /\ \A n \in Nat : /\ [e EXCEPT !.seq = n] \in Entry
                           /\ [e EXCEPT !.seq = n, !.inflight = TRUE] \in Entry
                           /\ [e EXCEPT !.seq = n, !.reserved = TRUE] \in Entry
                           /\ [e EXCEPT !.inflight = FALSE, !.known = n] \in Entry
         /\ \A j \in Job : /\ [e EXCEPT !.pending = j, !.inflight = TRUE] \in Entry
                           /\ [e EXCEPT !.inflight = FALSE, !.pending = j] \in Entry
                           /\ [e EXCEPT !.inflight = FALSE, !.blocked = TRUE, !.pending = j] \in Entry
  BY DEF Entry

LEMMA EntryUpdates2 ==
  ASSUME NEW e \in Entry, NEW n \in Nat, NEW j \in Job
  PROVE  /\ [e EXCEPT !.seq = n, !.pending = j] \in Entry
         /\ [e EXCEPT !.inflight = FALSE, !.known = n, !.pending = j] \in Entry
         /\ [e EXCEPT !.known = n, !.blocked = FALSE, !.pending = j] \in Entry
         /\ [e EXCEPT !.tracked = TRUE, !.known = n] \in Entry
  BY DEF Entry

(* A call that moves on in its protocol is a call.                          *)
LEMMA CallUpdates ==
  ASSUME NEW c \in Call
  PROVE  /\ [c EXCEPT !.pc = "unlock"] \in Call
         /\ \A S \in SUBSET Keys : /\ [c EXCEPT !.todo = S] \in Call
                                   /\ [c EXCEPT !.held = S, !.pc = "owned"] \in Call
                                   /\ [c EXCEPT !.held = S, !.pc = "gate"] \in Call
         /\ \A r \in Results : [c EXCEPT !.pc = "acked", !.res = r] \in Call
         /\ \A f \in [Keys -> Nat] : [c EXCEPT !.pc = "write", !.expected = f] \in Call
         /\ \A g \in [Keys -> Job], f \in [Keys -> Nat] :
              [c EXCEPT !.pc = "write", !.job = g, !.expected = f] \in Call
  BY DEF Call, PCs

(* The calls an idle caller or a flush pass begins.                         *)
LEMMA CallStarts ==
  ASSUME NEW S \in SUBSET Keys, NEW k \in Keys, NEW n \in Nat, NEW j \in Job, NEW r \in Nat
  PROVE  /\ [NoCall EXCEPT !.pc = "gate", !.op = "save", !.todo = S, !.part = {k},
                           !.saw[k] = n] \in Call
         /\ [NoCall EXCEPT !.pc = "gate", !.op = "through", !.part = {k}, !.saw[k] = n,
                           !.job[k] = j] \in Call
         /\ [NoCall EXCEPT !.pc = "gate", !.op = "resolve", !.part = {k}, !.saw[k] = n,
                           !.job[k] = j, !.expected[k] = r] \in Call
  BY DEF NoCall, Call, PCs, Ops, Results, NoJob, Job

LEMMA FlushStart ==
  ASSUME NEW S \in SUBSET Keys
  PROVE  [NoCall EXCEPT !.pc = "flush", !.todo = S] \in Call
  BY DEF NoCall, Call, PCs, Ops, Results, NoJob, Job

LEMMA SetCallStarts ==
  ASSUME NEW S \in SUBSET Keys, NEW f \in [Keys -> Nat],
         NEW g \in [Keys -> Job], NEW x \in [Keys -> Nat]
  PROVE  /\ [NoCall EXCEPT !.pc = "gate", !.op = "critical", !.part = S, !.saw = f, !.job = g] \in Call
         /\ [NoCall EXCEPT !.pc = "reserved", !.op = "reserve", !.part = S, !.held = S, !.saw = f,
                           !.expected = x, !.job = g] \in Call
  BY DEF NoCall, Call, PCs, Ops, Results, NoJob, Job

-----------------------------------------------------------------------------
(* Every step keeps the types *)

LEMMA TypeInit == Init => TypeOK
  BY NoCallType, NoEntryType DEF Init, TypeOK

LEMMA GiveUpType ==
  ASSUME TypeOK, NEW p \in Callers, GiveUp(p)
  PROVE  call' \in [Callers -> Call]
<1>1. [call[p] EXCEPT !.pc = "unlock"] \in Call
  BY CallFields, CallUpdates
<1> QED
  BY <1>1 DEF GiveUp, TypeOK

LEMMA FenceType ==
  ASSUME TypeOK, NEW S \in SUBSET Keys, Fence(S)
  PROVE  entry' \in [Keys -> Entry]
<1>1. \A k \in Keys : [entry[k] EXCEPT !.blocked = TRUE] \in Entry
  BY EntryFields, EntryUpdates
<1> QED
  BY <1>1 DEF Fence, TypeOK

LEMMA TypeTable ==
  ASSUME TypeOK, NEW k \in Keys,
         Track(k) \/ Untrack(k) \/ MarkDirty(k) \/ ExternalCommit(k)
  PROVE  TypeOK'
<1>1. CASE Track(k)
  <2>1. PICK r \in 0..pg[k].rev :
          entry' = [entry EXCEPT ![k] = [NoEntry(entry[k].inc + 1) EXCEPT
                                           !.tracked = TRUE, !.known = r]]
    BY <1>1 DEF Track
  <2>2. r \in Nat /\ NoEntry(entry[k].inc + 1) \in Entry
    BY EntryFields, NoEntryType
  <2>3. [NoEntry(entry[k].inc + 1) EXCEPT !.tracked = TRUE, !.known = r] \in Entry
    BY <2>2, JobType, EntryUpdates2
  <2> QED
    BY <1>1, <2>1, <2>3, EntryFields DEF Track, TypeOK
<1>2. CASE Untrack(k)
  BY <1>2, EntryFields, NoEntryType DEF Untrack, TypeOK
<1>3. CASE MarkDirty(k)
  <2>1. /\ entry[k].seq + 1 \in Nat /\ captured[k] + 1 \in Nat
        /\ [gen |-> entry[k].seq + 1, ver |-> captured[k] + 1] \in Job
    BY EntryFields, JobType
  <2>2. [entry[k] EXCEPT !.seq = entry[k].seq + 1,
           !.pending = [gen |-> entry[k].seq + 1, ver |-> captured[k] + 1]] \in Entry
    BY <2>1, EntryFields, EntryUpdates2
  <2>3. entry' \in [Keys -> Entry]
    <3>1. entry' = [entry EXCEPT ![k] = [entry[k] EXCEPT !.seq = entry[k].seq + 1,
                      !.pending = [gen |-> entry[k].seq + 1, ver |-> captured[k] + 1]]]
      BY <1>3 DEF MarkDirty
    <3> QED
      BY <2>2, <3>1 DEF TypeOK
  <2> QED
    BY <1>3, <2>1, <2>3 DEF MarkDirty, TypeOK
<1>4. CASE ExternalCommit(k)
  BY <1>4, EntryFields DEF ExternalCommit, TypeOK
<1> QED
  BY <1>1, <1>2, <1>3, <1>4

LEMMA TypeStart ==
  ASSUME TypeOK, NEW p \in Callers, NEW k \in Keys, NEW S \in SUBSET Keys,
         \/ StartFlush(p) \/ StartWriteThrough(p, k) \/ StartResolve(p, k)
         \/ StartCriticalSet(p, S) \/ Reserve(p, S)
  PROVE  TypeOK'
<1>1. CASE StartFlush(p)
  BY <1>1, FlushStart DEF StartFlush, TypeOK
<1>2. CASE StartWriteThrough(p, k)
  <2>1. /\ entry[k].seq + 1 \in Nat /\ captured[k] + 1 \in Nat /\ entry[k].inc \in Nat
        /\ [gen |-> entry[k].seq + 1, ver |-> captured[k] + 1] \in Job
    BY EntryFields, JobType
  <2>2. [entry[k] EXCEPT !.seq = entry[k].seq + 1] \in Entry
    BY <2>1, EntryFields, EntryUpdates
  <2>3. [NoCall EXCEPT !.pc = "gate", !.op = "through", !.part = {k}, !.saw[k] = entry[k].inc,
           !.job[k] = [gen |-> entry[k].seq + 1, ver |-> captured[k] + 1]] \in Call
    BY <2>1, CallStarts
  <2> QED
    BY <1>2, <2>1, <2>2, <2>3 DEF StartWriteThrough, TypeOK
<1>3. CASE StartResolve(p, k)
  <2>1. /\ entry[k].inc \in Nat /\ pg[k].rev \in Nat
        /\ [gen |-> 0, ver |-> pg[k].ver] \in Job
    BY EntryFields, JobType
  <2>2. [NoCall EXCEPT !.pc = "gate", !.op = "resolve", !.part = {k}, !.saw[k] = entry[k].inc,
           !.job[k] = [gen |-> 0, ver |-> pg[k].ver], !.expected[k] = pg[k].rev] \in Call
    BY <2>1, CallStarts
  <2> QED
    BY <1>3, <2>2 DEF StartResolve, TypeOK
<1>4. CASE StartCriticalSet(p, S)
  <2> DEFINE f == [x \in Keys |-> IF x \in S THEN entry[x].inc ELSE 0]
             g == [x \in Keys |-> IF x \in S THEN [gen |-> 0, ver |-> captured[x] + 1] ELSE NoJob]
  <2>1. f \in [Keys -> Nat] /\ g \in [Keys -> Job]
    BY EntryFields, JobType
  <2>2. [NoCall EXCEPT !.pc = "gate", !.op = "critical", !.part = S, !.saw = f, !.job = g] \in Call
    BY <2>1, SetCallStarts
  <2>3. call' \in [Callers -> Call]
    BY <1>4, <2>2 DEF StartCriticalSet, TypeOK
  <2> QED
    BY <1>4, <2>3 DEF StartCriticalSet, TypeOK
<1>5. CASE Reserve(p, S)
  <2> DEFINE f == [x \in Keys |-> IF x \in S THEN entry[x].inc ELSE 0]
             e == [x \in Keys |-> IF x \in S THEN entry[x].known ELSE 0]
             g == [x \in Keys |-> IF x \in S
                     THEN [gen |-> entry[x].seq + 1, ver |-> captured[x] + 1] ELSE NoJob]
  <2>1. f \in [Keys -> Nat] /\ e \in [Keys -> Nat] /\ g \in [Keys -> Job]
    BY EntryFields, JobType
  <2>2. [NoCall EXCEPT !.pc = "reserved", !.op = "reserve", !.part = S, !.held = S, !.saw = f,
           !.expected = e, !.job = g] \in Call
    BY <2>1, SetCallStarts
  <2>3. \A x \in Keys : [entry[x] EXCEPT !.seq = entry[x].seq + 1, !.reserved = TRUE] \in Entry
    <3> SUFFICES ASSUME NEW x \in Keys
                 PROVE  [entry[x] EXCEPT !.seq = entry[x].seq + 1, !.reserved = TRUE] \in Entry
      OBVIOUS
    <3>1. entry[x] \in Entry /\ entry[x].seq + 1 \in Nat
      BY EntryFields
    <3> QED
      BY <3>1, EntryUpdates
  <2>4. CASE Maxed(S) # {}
    <3>1. Maxed(S) \in SUBSET Keys
      BY DEF Maxed
    <3> QED
      BY <1>5, <2>4, <3>1, FenceType DEF Reserve, TypeOK
  <2>5. CASE Maxed(S) = {}
    <3>1. call' \in [Callers -> Call]
      BY <1>5, <2>5, <2>2 DEF Reserve, TypeOK
    <3>2. entry' \in [Keys -> Entry]
      BY <1>5, <2>5, <2>3 DEF Reserve, TypeOK
    <3>3. captured' = [x \in Keys |-> IF x \in S THEN captured[x] + 1 ELSE captured[x]]
      BY <1>5, <2>5 DEF Reserve
    <3>4. captured' \in [Keys -> Nat]
      BY <3>3 DEF TypeOK
    <3> QED
      BY <1>5, <2>5, <3>1, <3>2, <3>4 DEF Reserve, TypeOK
  <2> QED
    BY <2>4, <2>5
<1> QED
  BY <1>1, <1>2, <1>3, <1>4, <1>5

LEMMA TypeGate ==
  ASSUME TypeOK, NEW p \in Callers,
         FlushNext(p) \/ FlushDone(p) \/ Acquire(p) \/ Cancelled(p) \/ Release(p)
  PROVE  TypeOK'
<1>1. CASE FlushNext(p)
  <2>1. PICK k \in call[p].todo :
          IF entry[k].tracked
          THEN call' = [call EXCEPT ![p] = [NoCall EXCEPT
                          !.pc = "gate", !.op = "save", !.todo = call[p].todo \ {k},
                          !.part = {k}, !.saw[k] = entry[k].inc]]
          ELSE call' = [call EXCEPT ![p] = [call[p] EXCEPT !.todo = call[p].todo \ {k}]]
    BY <1>1 DEF FlushNext
  <2>2. k \in Keys /\ call[p].todo \ {k} \in SUBSET Keys /\ call[p] \in Call
    BY CallFields
  <2>3. [NoCall EXCEPT !.pc = "gate", !.op = "save", !.todo = call[p].todo \ {k},
           !.part = {k}, !.saw[k] = entry[k].inc] \in Call
    BY <2>2, EntryFields, CallStarts, JobType
  <2>4. [call[p] EXCEPT !.todo = call[p].todo \ {k}] \in Call
    BY <2>2, CallUpdates
  <2>5. call' \in [Callers -> Call]
    BY <2>1, <2>3, <2>4 DEF TypeOK
  <2> QED
    BY <1>1, <2>5 DEF FlushNext, TypeOK
<1>2. CASE FlushDone(p)
  BY <1>2, NoCallType DEF FlushDone, TypeOK
<1>3. CASE Acquire(p)
  <2>1. PICK k \in call[p].part :
          call' = [call EXCEPT ![p] = [@ EXCEPT
                     !.held = call[p].held \cup {k},
                     !.pc = IF call[p].part = call[p].held \cup {k} THEN "owned" ELSE "gate"]]
    BY <1>3 DEF Acquire
  <2>2. call[p].held \cup {k} \in SUBSET Keys /\ call[p] \in Call
    BY CallFields
  <2>3. [call[p] EXCEPT !.held = call[p].held \cup {k},
           !.pc = IF call[p].part = call[p].held \cup {k} THEN "owned" ELSE "gate"] \in Call
    BY <2>2, CallUpdates
  <2>4. call' \in [Callers -> Call]
    BY <2>1, <2>3 DEF TypeOK
  <2> QED
    BY <1>3, <2>4 DEF Acquire, TypeOK
<1>4. CASE Cancelled(p)
  BY <1>4, NoCallType DEF Cancelled, TypeOK
<1>5. CASE Release(p)
  <2>0. call[p].todo \in SUBSET Keys
    BY CallFields
  <2>1. [NoCall EXCEPT !.pc = "flush", !.todo = call[p].todo] \in Call
    BY <2>0, FlushStart
  <2>2. call' \in [Callers -> Call]
    BY <1>5, <2>1, NoCallType DEF Release, TypeOK
  <2> QED
    BY <1>5, <2>2 DEF Release, TypeOK
<1> QED
  BY <1>1, <1>2, <1>3, <1>4, <1>5

LEMMA TypeEnter ==
  ASSUME TypeOK, NEW p \in Callers,
         EnterSave(p) \/ EnterWriteThrough(p) \/ EnterCriticalSet(p) \/ ApplyResolve(p)
  PROVE  TypeOK'
<1>1. CASE EnterSave(p)
  <2>1. PICK k \in call[p].part :
          \/ GiveUp(p) /\ UNCHANGED entry
          \/ GiveUp(p) /\ Fence({k})
          \/ /\ entry' = [entry EXCEPT ![k] = [@ EXCEPT !.pending = NoJob, !.inflight = TRUE]]
             /\ call' = [call EXCEPT ![p] = [@ EXCEPT
                           !.pc = "write",
                           !.job = [call[p].job EXCEPT ![k] = entry[k].pending],
                           !.expected = [call[p].expected EXCEPT ![k] = entry[k].known]]]
    BY <1>1 DEF EnterSave
  <2>2. k \in Keys
    BY CallFields
  <2> DEFINE g == [call[p].job EXCEPT ![k] = entry[k].pending]
             f == [call[p].expected EXCEPT ![k] = entry[k].known]
  <2>3. g \in [Keys -> Job] /\ f \in [Keys -> Nat]
    BY <2>2, CallFields, EntryFields
  <2>4. [call[p] EXCEPT !.pc = "write", !.job = g, !.expected = f] \in Call
    BY <2>3, CallFields, CallUpdates
  <2>5. [entry[k] EXCEPT !.pending = NoJob, !.inflight = TRUE] \in Entry
    BY <2>2, EntryFields, EntryUpdates, JobType
  <2>6. call' \in [Callers -> Call]
    BY <2>1, <2>4, GiveUpType DEF TypeOK
  <2>7. entry' \in [Keys -> Entry]
    <3>1. {k} \in SUBSET Keys
      BY <2>2
    <3> QED
      BY <2>1, <2>5, <3>1, FenceType DEF TypeOK
  <2> QED
    BY <1>1, <2>6, <2>7 DEF EnterSave, TypeOK
<1>2. CASE EnterWriteThrough(p)
  <2>1. PICK k \in call[p].part :
          \/ GiveUp(p) /\ UNCHANGED entry
          \/ GiveUp(p) /\ Fence({k})
          \/ /\ entry' = [entry EXCEPT ![k] = [entry[k] EXCEPT !.inflight = TRUE]]
             /\ call' = [call EXCEPT ![p] = [@ EXCEPT
                           !.pc = "write",
                           !.expected = [call[p].expected EXCEPT ![k] = entry[k].known]]]
    BY <1>2 DEF EnterWriteThrough
  <2>2. k \in Keys
    BY CallFields
  <2> DEFINE f == [call[p].expected EXCEPT ![k] = entry[k].known]
  <2>3. f \in [Keys -> Nat]
    BY <2>2, CallFields, EntryFields
  <2>4. [call[p] EXCEPT !.pc = "write", !.expected = f] \in Call
    BY <2>3, CallFields, CallUpdates
  <2>5. [entry[k] EXCEPT !.inflight = TRUE] \in Entry
    BY <2>2, EntryFields, EntryUpdates
  <2>6. call' \in [Callers -> Call]
    BY <2>1, <2>4, GiveUpType DEF TypeOK
  <2>7. entry' \in [Keys -> Entry]
    <3>1. {k} \in SUBSET Keys
      BY <2>2
    <3> QED
      BY <2>1, <2>5, <3>1, FenceType DEF TypeOK
  <2> QED
    BY <1>2, <2>6, <2>7 DEF EnterWriteThrough, TypeOK
<1>3. CASE EnterCriticalSet(p)
  <2> DEFINE S == call[p].part
             g == [k \in Keys |-> IF k \in S
                     THEN [gen |-> entry[k].seq + 1, ver |-> call[p].job[k].ver] ELSE NoJob]
             f == [k \in Keys |-> IF k \in S THEN entry[k].known ELSE 0]
  <2>1. g \in [Keys -> Job] /\ f \in [Keys -> Nat]
    BY EntryFields, CallFields, JobType
  <2>2. [call[p] EXCEPT !.pc = "write", !.job = g, !.expected = f] \in Call
    BY <2>1, CallFields, CallUpdates
  <2>3. \A k \in Keys : [entry[k] EXCEPT !.seq = entry[k].seq + 1, !.inflight = TRUE] \in Entry
    <3> SUFFICES ASSUME NEW k \in Keys
                 PROVE  [entry[k] EXCEPT !.seq = entry[k].seq + 1, !.inflight = TRUE] \in Entry
      OBVIOUS
    <3>1. entry[k] \in Entry /\ entry[k].seq + 1 \in Nat
      BY EntryFields
    <3> QED
      BY <3>1, EntryUpdates
  <2>4. Maxed(S) \in SUBSET Keys
    BY CallFields DEF Maxed
  <2>5. call' \in [Callers -> Call]
    BY <1>3, <2>2, GiveUpType DEF EnterCriticalSet, TypeOK
  <2>6. entry' \in [Keys -> Entry]
    <3>1. \/ UNCHANGED entry
          \/ Fence(Maxed(S))
          \/ entry' = [k \in Keys |-> IF k \in S
                          THEN [entry[k] EXCEPT !.seq = entry[k].seq + 1, !.inflight = TRUE]
                          ELSE entry[k]]
      BY <1>3 DEF EnterCriticalSet
    <3> QED
      BY <3>1, <2>3, <2>4, FenceType DEF TypeOK
  <2> QED
    BY <1>3, <2>5, <2>6 DEF EnterCriticalSet, TypeOK
<1>4. CASE ApplyResolve(p)
  <2>1. PICK k \in call[p].part :
          \/ UNCHANGED <<entry, accepted>>
          \/ /\ entry' = [entry EXCEPT ![k] = [entry[k] EXCEPT
                            !.known = call[p].expected[k], !.blocked = FALSE, !.pending = NoJob]]
             /\ accepted' = [accepted EXCEPT ![k] = call[p].job[k].ver]
    BY <1>4 DEF ApplyResolve
  <2>2. k \in Keys /\ call[p].expected[k] \in Nat /\ call[p].job[k].ver \in Nat
    BY CallFields
  <2>3. [entry[k] EXCEPT !.known = call[p].expected[k], !.blocked = FALSE,
                         !.pending = NoJob] \in Entry
    BY <2>2, EntryFields, EntryUpdates2, JobType
  <2>4. call' \in [Callers -> Call]
    BY <1>4, GiveUpType DEF ApplyResolve
  <2>5. entry' \in [Keys -> Entry] /\ accepted' \in [Keys -> Nat]
    BY <2>1, <2>2, <2>3 DEF TypeOK
  <2> QED
    BY <1>4, <2>4, <2>5 DEF ApplyResolve, TypeOK
<1> QED
  BY <1>1, <1>2, <1>3, <1>4

LEMMA TypeStore ==
  ASSUME TypeOK, NEW p \in Callers, StoreWrite(p)
  PROVE  TypeOK'
<1>1. \A r \in Results : [call[p] EXCEPT !.pc = "acked", !.res = r] \in Call
  BY CallFields, CallUpdates
<1>2. PICK r \in Results : call' = [call EXCEPT ![p] = [@ EXCEPT !.pc = "acked", !.res = r]]
  BY DEF StoreWrite, Results
<1>3. call' \in [Callers -> Call]
  BY <1>1, <1>2 DEF TypeOK
<1>4. \A k \in Keys : [rev |-> pg[k].rev + 1, ver |-> call[p].job[k].ver] \in [rev: Nat, ver: Nat]
  BY EntryFields, CallFields
<1>5. pg' \in [Keys -> [rev: Nat, ver: Nat]]
  BY <1>4 DEF StoreWrite, TypeOK
<1>6. faults' \in Nat
  BY DEF StoreWrite, TypeOK
<1> QED
  BY <1>3, <1>5, <1>6 DEF StoreWrite, TypeOK

LEMMA TypeFinish ==
  ASSUME TypeOK, NEW p \in Callers,
         FinishSave(p) \/ FinishWriteThrough(p) \/ FinishCriticalSet(p)
  PROVE  TypeOK'
<1>1. call' \in [Callers -> Call]
  BY GiveUpType DEF FinishSave, FinishWriteThrough, FinishCriticalSet
<1>2. CASE FinishSave(p)
  <2> DEFINE requeued(k) == IF Pending(k) THEN entry[k].pending ELSE call[p].job[k]
  <2>1. PICK k \in call[p].part : \E e \in
          { [entry[k] EXCEPT !.inflight = FALSE, !.known = call[p].expected[k] + 1],
            [entry[k] EXCEPT !.inflight = FALSE, !.pending = requeued(k)],
            [entry[k] EXCEPT !.inflight = FALSE, !.blocked = TRUE],
            [entry[k] EXCEPT !.inflight = FALSE, !.blocked = TRUE, !.pending = requeued(k)] } :
          entry' = [entry EXCEPT ![k] = e]
    BY <1>2 DEF FinishSave
  <2>2. /\ k \in Keys /\ entry[k] \in Entry /\ requeued(k) \in Job
        /\ call[p].expected[k] + 1 \in Nat
    BY EntryFields, CallFields
  <2>3. /\ [entry[k] EXCEPT !.inflight = FALSE, !.known = call[p].expected[k] + 1] \in Entry
        /\ [entry[k] EXCEPT !.inflight = FALSE, !.pending = requeued(k)] \in Entry
        /\ [entry[k] EXCEPT !.inflight = FALSE, !.blocked = TRUE] \in Entry
        /\ [entry[k] EXCEPT !.inflight = FALSE, !.blocked = TRUE, !.pending = requeued(k)] \in Entry
    BY <2>2, EntryUpdates
  <2>4. entry' \in [Keys -> Entry]
    BY <2>1, <2>3 DEF TypeOK
  <2> QED
    BY <1>1, <1>2, <2>4 DEF FinishSave, TypeOK
<1>3. CASE FinishWriteThrough(p)
  <2> DEFINE kept(k, j) == IF entry[k].pending.gen <= call[p].job[k].gen
                           THEN j ELSE entry[k].pending
  <2>1. PICK k \in call[p].part :
          /\ \E e \in
               { [entry[k] EXCEPT !.inflight = FALSE, !.known = call[p].expected[k] + 1,
                                  !.pending = kept(k, NoJob)],
                 [entry[k] EXCEPT !.inflight = FALSE, !.pending = kept(k, call[p].job[k])],
                 [entry[k] EXCEPT !.inflight = FALSE, !.blocked = TRUE] } :
               entry' = [entry EXCEPT ![k] = e]
          /\ \E v \in {accepted[k], Larger(accepted[k], call[p].job[k].ver)} :
               accepted' = [accepted EXCEPT ![k] = v]
    BY <1>3 DEF FinishWriteThrough
  <2>2. /\ k \in Keys /\ entry[k] \in Entry /\ call[p].expected[k] + 1 \in Nat
        /\ kept(k, NoJob) \in Job /\ kept(k, call[p].job[k]) \in Job
        /\ accepted[k] \in Nat /\ Larger(accepted[k], call[p].job[k].ver) \in Nat
    BY EntryFields, CallFields, JobType DEF Larger
  <2>3. /\ [entry[k] EXCEPT !.inflight = FALSE, !.known = call[p].expected[k] + 1,
                            !.pending = kept(k, NoJob)] \in Entry
        /\ [entry[k] EXCEPT !.inflight = FALSE, !.pending = kept(k, call[p].job[k])] \in Entry
        /\ [entry[k] EXCEPT !.inflight = FALSE, !.blocked = TRUE] \in Entry
    BY <2>2, EntryUpdates, EntryUpdates2
  <2>4. entry' \in [Keys -> Entry] /\ accepted' \in [Keys -> Nat]
    BY <2>1, <2>2, <2>3 DEF TypeOK
  <2> QED
    BY <1>1, <1>3, <2>4 DEF FinishWriteThrough, TypeOK
<1>4. CASE FinishCriticalSet(p)
  <2> DEFINE kept(k) == IF entry[k].pending.gen <= call[p].job[k].gen
                        THEN NoJob ELSE entry[k].pending
             advanced(k) == [entry[k] EXCEPT !.inflight = FALSE,
                               !.known = call[p].expected[k] + 1, !.pending = kept(k)]
             fenced(k) == [entry[k] EXCEPT !.inflight = FALSE, !.blocked = TRUE]
  <2>1. ASSUME NEW k \in Keys
        PROVE  /\ advanced(k) \in Entry /\ fenced(k) \in Entry
               /\ Larger(accepted[k], call[p].job[k].ver) \in Nat
    <3>1. /\ entry[k] \in Entry /\ call[p].expected[k] + 1 \in Nat /\ kept(k) \in Job
          /\ accepted[k] \in Nat /\ call[p].job[k].ver \in Nat
      BY EntryFields, CallFields, JobType
    <3> QED
      BY <3>1, EntryUpdates, EntryUpdates2 DEF Larger
  <2>2. entry' = [k \in Keys |-> IF k \notin call[p].part THEN entry[k]
                                 ELSE IF call[p].res = "ok" THEN advanced(k) ELSE fenced(k)]
    BY <1>4 DEF FinishCriticalSet
  <2>3. entry' \in [Keys -> Entry]
    <3> HIDE DEF advanced, fenced
    <3> QED
      BY <2>1, <2>2 DEF TypeOK
  <2>4. accepted' \in [Keys -> Nat]
    BY <1>4, <2>1 DEF FinishCriticalSet, TypeOK
  <2> QED
    BY <1>1, <1>4, <2>3, <2>4 DEF FinishCriticalSet, TypeOK
<1> QED
  BY <1>2, <1>3, <1>4

LEMMA TypeReserved ==
  ASSUME TypeOK, NEW p \in Callers,
         CancelReservation(p) \/ ExecuteReservation(p)
  PROVE  TypeOK'
<1>1. CASE CancelReservation(p)
  <2>1. \A k \in Keys : [entry[k] EXCEPT !.reserved = FALSE] \in Entry
    BY EntryFields, EntryUpdates
  <2>2. entry' \in [Keys -> Entry]
    BY <1>1, <2>1 DEF CancelReservation, Unreserve, TypeOK
  <2>3. call' \in [Callers -> Call]
    BY <1>1, GiveUpType DEF CancelReservation
  <2> QED
    BY <1>1, <2>2, <2>3 DEF CancelReservation, TypeOK
<1>2. CASE ExecuteReservation(p)
  <2> DEFINE f == [k \in Keys |-> IF k \in call[p].part THEN entry[k].known ELSE 0]
  <2>1. f \in [Keys -> Nat]
    BY EntryFields
  <2>2. [call[p] EXCEPT !.pc = "write", !.expected = f] \in Call
    BY <2>1, CallFields, CallUpdates
  <2>3. call' \in [Callers -> Call]
    BY <1>2, <2>2 DEF ExecuteReservation, TypeOK
  <2>4. \A k \in Keys : [entry[k] EXCEPT !.reserved = FALSE, !.inflight = TRUE] \in Entry
    BY EntryFields, EntryUpdates
  <2>5. entry' \in [Keys -> Entry]
    BY <1>2, <2>4 DEF ExecuteReservation, TypeOK
  <2> QED
    BY <1>2, <2>3, <2>5 DEF ExecuteReservation, TypeOK
<1> QED
  BY <1>1, <1>2

LEMMA TypeNext == TypeOK /\ [Next]_vars => TypeOK'
<1> SUFFICES ASSUME TypeOK, [Next]_vars PROVE TypeOK'
  OBVIOUS
<1>1. ASSUME NEW k \in Keys, Track(k) \/ Untrack(k) \/ MarkDirty(k) \/ ExternalCommit(k)
      PROVE  TypeOK'
  BY <1>1, TypeTable
<1>2. ASSUME NEW p \in Callers, StartFlush(p)
      PROVE  TypeOK'
  BY <1>2, FlushStart DEF StartFlush, TypeOK
<1>3. ASSUME NEW p \in Callers, NEW k \in Keys, StartWriteThrough(p, k) \/ StartResolve(p, k)
      PROVE  TypeOK'
  BY <1>3, TypeStart
<1>4. ASSUME NEW p \in Callers, NEW S \in SUBSET Keys, S # {},
             StartCriticalSet(p, S) \/ Reserve(p, S)
      PROVE  TypeOK'
  BY <1>4, TypeStart
<1>5. ASSUME NEW p \in Callers, Acquire(p) \/ CallerStep(p) \/ Cancelled(p)
      PROVE  TypeOK'
  BY <1>5, TypeGate, TypeEnter, TypeStore, TypeFinish, TypeReserved DEF CallerStep
<1>6. ASSUME Crash
      PROVE  TypeOK'
  BY <1>6, EntryFields, NoEntryType, NoCallType DEF Crash, TypeOK
<1>7. CASE UNCHANGED vars
  BY <1>7 DEF vars, TypeOK
<1> QED
  BY <1>1, <1>2, <1>3, <1>4, <1>5, <1>6, <1>7 DEF Next, Uncancelled

(* Every variable keeps its type, for every number of keys and callers.     *)
THEOREM TypeCorrect == Spec => []TypeOK
  BY TypeInit, TypeNext, PTL DEF Spec

-----------------------------------------------------------------------------
(* Writers exclude each other.  No invariant of Saver is inductive on its   *)
(* own: that two callers never write one aggregate rests on the gates being *)
(* exclusive per registration and on a writer's registration still being    *)
(* the one in the table, which rests on Untrack refusing aggregates that    *)
(* are in flight or reserved, and so on.  The conjunction below is.         *)

(* What a caller holds at each point of its protocol.                       *)
ShapeOf(p) ==
  /\ call[p].pc \in {"idle", "flush"} => call[p].part = {} /\ call[p].held = {}
  /\ call[p].pc = "gate" => call[p].held \subseteq call[p].part
  /\ call[p].pc \notin {"idle", "flush", "gate"} => call[p].held = call[p].part
  /\ call[p].pc = "reserved" => call[p].op = "reserve"
  /\ call[p].op \in {"save", "through", "resolve"} => \E k \in Keys : call[p].part = {k}

(* The gate of one registration is held by one caller.                      *)
Excludes(p, q) ==
  \A k \in call[p].held \cap call[q].held : call[p].saw[k] # call[q].saw[k]

(* A writer's registration is the current one, and it expects what is known.*)
WriterCurrent(p) ==
  \A k \in Keys : Writing(p, k) =>
    /\ SameEntry(p, k)
    /\ entry[k].inflight
    /\ ~entry[k].blocked
    /\ call[p].expected[k] = entry[k].known

(* The same for a reservation, which Execute turns into a writer.           *)
ReservedCurrent(p) ==
  call[p].pc = "reserved" => \A k \in call[p].part :
    /\ SameEntry(p, k)
    /\ entry[k].reserved
    /\ ~entry[k].blocked
    /\ entry[k].known = call[p].expected[k]
    /\ entry[k].known # MaxRev

(* The revisions a caller is about to record are committed ones.            *)
AnswersCommitted(p) ==
  /\ call[p].pc = "acked" /\ call[p].res = "ok" =>
       \A k \in call[p].part : call[p].expected[k] + 1 <= pg[k].rev
  /\ call[p].op = "resolve" => \A k \in call[p].part : call[p].expected[k] <= pg[k].rev

CallerInv(p) == ShapeOf(p) /\ WriterCurrent(p) /\ ReservedCurrent(p) /\ AnswersCommitted(p)

WriteInv ==
  /\ TypeOK
  /\ \A p \in Callers : CallerInv(p)
  /\ \A p, q \in Callers : p # q => Excludes(p, q)
  /\ KnownIsCommitted

LEMMA WriteInit == Init => WriteInv
<1> SUFFICES ASSUME Init PROVE WriteInv
  OBVIOUS
<1>1. \A p \in Callers : CallerInv(p)
  BY DEF Init, NoCall, CallerInv, ShapeOf, WriterCurrent, ReservedCurrent, AnswersCommitted, Writing
<1>2. \A p, q \in Callers : p # q => Excludes(p, q)
  BY DEF Init, NoCall, Excludes
<1>3. KnownIsCommitted
  BY DEF Init, NoEntry, KnownIsCommitted
<1> QED
  BY <1>1, <1>2, <1>3, TypeInit DEF WriteInv

(* What a writer or a reservation relies on is left alone.                  *)
Unmoved(k) ==
  /\ entry'[k].tracked = entry[k].tracked
  /\ entry'[k].inc = entry[k].inc
  /\ entry'[k].known = entry[k].known
  /\ entry'[k].blocked = entry[k].blocked
  /\ entry[k].inflight => entry'[k].inflight
  /\ entry[k].reserved => entry'[k].reserved

Relies(q, k) ==
  /\ k \in call[q].held
  /\ SameEntry(q, k)
  /\ entry[k].inflight \/ entry[k].reserved

(* Nobody but p holds the gate of the current registration of k.            *)
Alone(p, k) ==
  \A q \in Callers \ {p} : k \in call[q].held => call[q].saw[k] # entry[k].inc

(* A step that leaves q's call and what it relies on alone keeps what the   *)
(* invariant says of q.                                                     *)
LEMMA OthersKeep ==
  ASSUME WriteInv, TypeOK', NEW q \in Callers,
         call'[q] = call[q],
         \A k \in Keys : pg[k].rev <= pg'[k].rev,
         \A k \in Keys : Unmoved(k) \/ ~Relies(q, k)
  PROVE  CallerInv(q)'
<1>1. ShapeOf(q)'
  BY DEF WriteInv, CallerInv, ShapeOf
<1>2. ASSUME NEW k \in Keys, call[q].held = call[q].part, k \in call[q].part, SameEntry(q, k),
             entry[k].inflight \/ entry[k].reserved
      PROVE  Unmoved(k)
  BY <1>2 DEF Relies
<1>3. WriterCurrent(q)'
  <2> SUFFICES ASSUME NEW k \in Keys, Writing(q, k)'
               PROVE  /\ SameEntry(q, k)'
                      /\ entry'[k].inflight
                      /\ ~entry'[k].blocked
                      /\ call'[q].expected[k] = entry'[k].known
    BY DEF WriterCurrent
  <2>1. Writing(q, k)
    BY DEF Writing
  <2>2. /\ SameEntry(q, k) /\ entry[k].inflight /\ ~entry[k].blocked
        /\ call[q].expected[k] = entry[k].known
    BY <2>1 DEF WriteInv, CallerInv, WriterCurrent
  <2>3. Unmoved(k)
    BY <2>1, <2>2, <1>2 DEF WriteInv, CallerInv, ShapeOf, Writing
  <2> QED
    BY <2>2, <2>3 DEF SameEntry, Unmoved
<1>4. ReservedCurrent(q)'
  <2> SUFFICES ASSUME call'[q].pc = "reserved", NEW k \in call'[q].part
               PROVE  /\ SameEntry(q, k)'
                      /\ entry'[k].reserved
                      /\ ~entry'[k].blocked
                      /\ entry'[k].known = call'[q].expected[k]
                      /\ entry'[k].known # MaxRev
    BY DEF ReservedCurrent
  <2>1. k \in Keys
    BY CallFields DEF WriteInv
  <2>2. /\ SameEntry(q, k) /\ entry[k].reserved /\ ~entry[k].blocked
        /\ call[q].expected[k] = entry[k].known /\ entry[k].known # MaxRev
    BY DEF WriteInv, CallerInv, ReservedCurrent
  <2>3. Unmoved(k)
    BY <2>1, <2>2, <1>2 DEF WriteInv, CallerInv, ShapeOf
  <2> QED
    BY <2>2, <2>3 DEF SameEntry, Unmoved
<1>5. AnswersCommitted(q)'
  <2>1. \A k \in call[q].part : k \in Keys /\ call[q].expected[k] \in Nat
                                /\ pg[k].rev \in Nat /\ pg'[k].rev \in Nat
    BY CallFields, EntryFields DEF WriteInv, TypeOK
  <2> QED
    BY <2>1 DEF WriteInv, CallerInv, AnswersCommitted
<1> QED
  BY <1>1, <1>3, <1>4, <1>5 DEF CallerInv

(* So a step of p keeps the invariant when it keeps p's own part of it and  *)
(* takes no gate that another caller has.                                   *)
LEMMA OwnStep ==
  ASSUME WriteInv, TypeOK', NEW p \in Callers,
         \A q \in Callers \ {p} : call'[q] = call[q],
         \A k \in Keys : pg[k].rev <= pg'[k].rev,
         \A k \in Keys : Unmoved(k) \/ Alone(p, k),
         CallerInv(p)',
         \A k \in call'[p].held : \/ k \in call[p].held /\ call'[p].saw[k] = call[p].saw[k]
                                  \/ GateFree(k, call'[p].saw[k]),
         KnownIsCommitted'
  PROVE  WriteInv'
<1>1. ASSUME NEW q \in Callers PROVE CallerInv(q)'
  <2>1. CASE q # p
    <3>1. \A k \in Keys : Unmoved(k) \/ ~Relies(q, k)
      BY <2>1 DEF Alone, Relies, SameEntry
    <3> QED
      BY <2>1, <3>1, OthersKeep
  <2> QED
    BY <2>1
<1>2. \A q, r \in Callers : q # r => Excludes(q, r)'
  <2>1. ASSUME NEW q \in Callers, q # p PROVE Excludes(p, q)' /\ Excludes(q, p)'
    <3>1. call'[q] = call[q] /\ Excludes(p, q)
      BY <2>1 DEF WriteInv
    <3>2. ASSUME NEW k \in call'[p].held \cap call'[q].held
          PROVE  call'[p].saw[k] # call'[q].saw[k]
      BY <3>1, <3>2 DEF Excludes, GateFree
    <3> QED
      BY <3>2 DEF Excludes
  <2>2. ASSUME NEW q \in Callers, NEW r \in Callers, q # p, r # p, q # r
        PROVE  Excludes(q, r)'
    BY <2>2 DEF WriteInv, Excludes
  <2> QED
    BY <2>1, <2>2
<1> QED
  BY <1>1, <1>2 DEF WriteInv

LEMMA CommittedBound ==
  ASSUME WriteInv, NEW k \in Keys, entry[k].tracked
  PROVE  entry[k].known <= pg[k].rev
  BY DEF WriteInv, KnownIsCommitted

(* Steps of the table and of the environment move no call.                  *)
LEMMA WriteTable ==
  ASSUME WriteInv, TypeOK', NEW k \in Keys,
         Track(k) \/ Untrack(k) \/ MarkDirty(k) \/ ExternalCommit(k)
  PROVE  WriteInv'
<1>1. call' = call
  BY DEF Track, Untrack, MarkDirty, ExternalCommit
<1>2. \A j \in Keys : pg[j].rev <= pg'[j].rev
  <2>1. \A j \in Keys : pg[j].rev \in Nat
    BY EntryFields DEF WriteInv
  <2>2. CASE ExternalCommit(k)
    <3>1. \A j \in Keys : pg'[j] = IF j = k THEN [rev |-> pg[k].rev + 1, ver |-> captured[k] + 1]
                                    ELSE pg[j]
      BY <2>2 DEF ExternalCommit, WriteInv, TypeOK
    <3> QED
      BY <2>1, <3>1
  <2>3. CASE ~ExternalCommit(k)
    <3>1. pg' = pg
      BY <2>3 DEF Track, Untrack, MarkDirty
    <3> QED
      BY <2>1, <3>1
  <2> QED
    BY <2>2, <2>3
<1>3. \A q \in Callers : \A j \in Keys : Unmoved(j) \/ ~Relies(q, j)
  <2>1. CASE Track(k) \/ Untrack(k)
    BY <2>1 DEF Track, Untrack, Unmoved, Relies, SameEntry, WriteInv, TypeOK
  <2>2. CASE MarkDirty(k)
    BY <2>2 DEF MarkDirty, Unmoved, WriteInv, TypeOK, Entry
  <2>3. CASE ExternalCommit(k)
    BY <2>3 DEF ExternalCommit, Unmoved
  <2> QED
    BY <2>1, <2>2, <2>3
<1>4. \A q \in Callers : CallerInv(q)'
  BY <1>1, <1>2, <1>3, OthersKeep
<1>5. \A p, q \in Callers : p # q => Excludes(p, q)'
  BY <1>1 DEF WriteInv, Excludes
<1>6. KnownIsCommitted'
  <2> SUFFICES ASSUME NEW j \in Keys, entry'[j].tracked
               PROVE  entry'[j].known <= pg'[j].rev
    BY DEF KnownIsCommitted
  <2>1. /\ pg[j].rev \in Nat /\ pg'[j].rev \in Nat /\ pg[j].rev <= pg'[j].rev
        /\ entry[j].known \in Nat
    BY <1>2, EntryFields DEF WriteInv, TypeOK
  <2>2. CASE j = k /\ Track(k)
    <3>1. PICK n \in 0..pg[j].rev :
            entry' = [entry EXCEPT ![j] = [NoEntry(entry[j].inc + 1) EXCEPT
                                             !.tracked = TRUE, !.known = n]]
      BY <2>2 DEF Track
    <3>2. entry'[j].known = n
      BY <3>1 DEF NoEntry, WriteInv, TypeOK
    <3> QED
      BY <2>1, <3>1, <3>2
  <2>3. CASE ~(j = k /\ Track(k))
    <3>1. entry'[j].known = entry[j].known /\ entry[j].tracked
      <4>1. CASE Track(k)
        BY <2>3, <4>1 DEF Track, WriteInv, TypeOK
      <4>2. CASE Untrack(k)
        BY <4>2 DEF Untrack, NoEntry, WriteInv, TypeOK
      <4>3. CASE MarkDirty(k)
        BY <4>3 DEF MarkDirty, WriteInv, TypeOK, Entry
      <4>4. CASE ExternalCommit(k)
        BY <4>4 DEF ExternalCommit
      <4> QED
        BY <4>1, <4>2, <4>3, <4>4
    <3> QED
      BY <2>1, <3>1, CommittedBound
  <2> QED
    BY <2>2, <2>3
<1> QED
  BY <1>4, <1>5, <1>6 DEF WriteInv

LEMMA WriteCrash ==
  ASSUME WriteInv, TypeOK', Crash
  PROVE  WriteInv'
<1>1. \A p \in Callers : CallerInv(p)'
  BY DEF Crash, NoCall, CallerInv, ShapeOf, WriterCurrent, ReservedCurrent, AnswersCommitted, Writing
<1>2. \A p, q \in Callers : p # q => Excludes(p, q)'
  BY DEF Crash, NoCall, Excludes
<1>3. KnownIsCommitted'
  BY DEF Crash, NoEntry, KnownIsCommitted
<1> QED
  BY <1>1, <1>2, <1>3 DEF WriteInv

(* Steps that begin an operation, wait for a gate or end one move no entry  *)
(* but for a generation.                                                    *)
LEMMA StartKeeps ==
  ASSUME WriteInv, TypeOK', NEW p \in Callers,
         \A q \in Callers \ {p} : call'[q] = call[q],
         pg' = pg,
         \A k \in Keys : entry'[k] = entry[k] \/ entry'[k] = [entry[k] EXCEPT !.seq = entry[k].seq + 1],
         ShapeOf(p)',
         call'[p].pc \notin {"write", "acked", "reserved"},
         \A k \in call'[p].held : \/ k \in call[p].held /\ call'[p].saw[k] = call[p].saw[k]
                                  \/ GateFree(k, call'[p].saw[k]),
         call'[p].op = "resolve" => \A k \in call'[p].part : call'[p].expected[k] <= pg[k].rev
  PROVE  WriteInv'
<1>1. \A k \in Keys : pg[k].rev <= pg'[k].rev
  BY EntryFields DEF WriteInv
<1>2. \A k \in Keys : Unmoved(k) /\ entry'[k].known = entry[k].known
  <2> SUFFICES ASSUME NEW k \in Keys PROVE Unmoved(k) /\ entry'[k].known = entry[k].known
    OBVIOUS
  <2>1. entry[k] \in Entry
    BY EntryFields DEF WriteInv
  <2>2. /\ [entry[k] EXCEPT !.seq = entry[k].seq + 1].tracked = entry[k].tracked
        /\ [entry[k] EXCEPT !.seq = entry[k].seq + 1].inc = entry[k].inc
        /\ [entry[k] EXCEPT !.seq = entry[k].seq + 1].known = entry[k].known
        /\ [entry[k] EXCEPT !.seq = entry[k].seq + 1].blocked = entry[k].blocked
        /\ [entry[k] EXCEPT !.seq = entry[k].seq + 1].inflight = entry[k].inflight
        /\ [entry[k] EXCEPT !.seq = entry[k].seq + 1].reserved = entry[k].reserved
    BY <2>1 DEF Entry
  <2> QED
    BY <2>2 DEF Unmoved
<1>3. CallerInv(p)'
  BY DEF CallerInv, WriterCurrent, ReservedCurrent, AnswersCommitted, Writing
<1>4. KnownIsCommitted'
  BY <1>2 DEF KnownIsCommitted, WriteInv, Unmoved
<1> QED
  BY <1>1, <1>2, <1>3, <1>4, OwnStep

LEMMA WriteStart ==
  ASSUME WriteInv, TypeOK', NEW p \in Callers, NEW k \in Keys, NEW S \in SUBSET Keys,
         \/ StartFlush(p) \/ StartWriteThrough(p, k) \/ StartResolve(p, k)
         \/ StartCriticalSet(p, S)
  PROVE  WriteInv'
<1>1. CASE StartFlush(p)
  <2>1. \A q \in Callers \ {p} : call'[q] = call[q]
    BY <1>1 DEF StartFlush
  <2>2. call'[p].pc = "flush" /\ call'[p].part = {} /\ call'[p].held = {} /\ call'[p].op = "none"
    BY <1>1 DEF StartFlush, NoCall, WriteInv, TypeOK
  <2> QED
    BY <1>1, <2>1, <2>2, StartKeeps DEF StartFlush, ShapeOf
<1>2. CASE StartWriteThrough(p, k)
  <2>1. \A q \in Callers \ {p} : call'[q] = call[q]
    BY <1>2 DEF StartWriteThrough
  <2>2. /\ call'[p].pc = "gate" /\ call'[p].part = {k} /\ call'[p].held = {}
        /\ call'[p].op = "through"
    BY <1>2 DEF StartWriteThrough, NoCall, WriteInv, TypeOK
  <2>3. \A j \in Keys : \/ entry'[j] = entry[j]
                        \/ entry'[j] = [entry[j] EXCEPT !.seq = entry[j].seq + 1]
    BY <1>2 DEF StartWriteThrough, WriteInv, TypeOK
  <2> QED
    BY <1>2, <2>1, <2>2, <2>3, StartKeeps DEF StartWriteThrough, ShapeOf
<1>3. CASE StartResolve(p, k)
  <2>1. \A q \in Callers \ {p} : call'[q] = call[q]
    BY <1>3 DEF StartResolve
  <2>2. /\ call'[p].pc = "gate" /\ call'[p].part = {k} /\ call'[p].held = {}
        /\ call'[p].expected[k] = pg[k].rev
    BY <1>3 DEF StartResolve, NoCall, WriteInv, TypeOK
  <2>3. pg[k].rev \in Nat
    BY EntryFields DEF WriteInv
  <2> QED
    BY <1>3, <2>1, <2>2, <2>3, StartKeeps DEF StartResolve, ShapeOf
<1>4. CASE StartCriticalSet(p, S)
  <2>1. \A q \in Callers \ {p} : call'[q] = call[q]
    BY <1>4 DEF StartCriticalSet
  <2>2. /\ call'[p].pc = "gate" /\ call'[p].part = S /\ call'[p].held = {}
        /\ call'[p].op = "critical"
    BY <1>4 DEF StartCriticalSet, NoCall, WriteInv, TypeOK
  <2> QED
    BY <1>4, <2>1, <2>2, StartKeeps DEF StartCriticalSet, ShapeOf
<1> QED
  BY <1>1, <1>2, <1>3, <1>4

LEMMA WriteGate ==
  ASSUME WriteInv, TypeOK', NEW p \in Callers,
         FlushNext(p) \/ FlushDone(p) \/ Acquire(p) \/ Cancelled(p) \/ Release(p)
  PROVE  WriteInv'
<1> entry' = entry /\ pg' = pg
  BY DEF FlushNext, FlushDone, Acquire, Cancelled, Release
<1>1. \A q \in Callers \ {p} : call'[q] = call[q]
  <2>1. \E c : call' = [call EXCEPT ![p] = c]
    BY DEF FlushNext, FlushDone, Acquire, Cancelled, Release
  <2> QED
    BY <2>1
<1>2. CASE FlushNext(p)
  <2>1. PICK k \in call[p].todo :
          IF entry[k].tracked
          THEN call' = [call EXCEPT ![p] = [NoCall EXCEPT
                          !.pc = "gate", !.op = "save", !.todo = call[p].todo \ {k},
                          !.part = {k}, !.saw[k] = entry[k].inc]]
          ELSE call' = [call EXCEPT ![p].todo = @ \ {k}]
    BY <1>2 DEF FlushNext
  <2>2. k \in Keys
    BY CallFields DEF WriteInv
  <2>3. CASE entry[k].tracked
    <3>0. call'[p] = [NoCall EXCEPT !.pc = "gate", !.op = "save", !.todo = call[p].todo \ {k},
                                     !.part = {k}, !.saw[k] = entry[k].inc]
      BY <2>1, <2>3 DEF WriteInv, TypeOK
    <3>1. /\ call'[p].pc = "gate" /\ call'[p].part = {k} /\ call'[p].held = {}
          /\ call'[p].op = "save"
      BY <3>0 DEF NoCall
    <3> QED
      BY <2>2, <1>1, <3>1, StartKeeps DEF ShapeOf
  <2>4. CASE ~entry[k].tracked
    <3>0. call[p] \in Call /\ call'[p] = [call[p] EXCEPT !.todo = call[p].todo \ {k}]
      BY <2>1, <2>4 DEF WriteInv, TypeOK
    <3>3. /\ call'[p].pc = call[p].pc /\ call'[p].part = call[p].part
          /\ call'[p].held = call[p].held /\ call'[p].op = call[p].op
      BY <3>0 DEF Call
    <3>1. /\ call'[p].pc = "flush" /\ call'[p].part = {} /\ call'[p].held = {}
          /\ call'[p].op = call[p].op
      BY <3>3, <1>2 DEF FlushNext, WriteInv, CallerInv, ShapeOf
    <3>2. call[p].op \notin {"save", "through", "resolve"}
      BY <1>2 DEF FlushNext, WriteInv, CallerInv, ShapeOf
    <3> QED
      BY <1>1, <3>1, <3>2, StartKeeps DEF ShapeOf
  <2> QED
    BY <2>3, <2>4
<1>3. CASE FlushDone(p) \/ Cancelled(p) \/ Release(p)
  <2>0. \/ call'[p] = NoCall
        \/ call'[p] = [NoCall EXCEPT !.pc = "flush", !.todo = call[p].todo]
    BY <1>3 DEF FlushDone, Cancelled, Release, WriteInv, TypeOK
  <2>1. /\ call'[p].pc \in {"idle", "flush"} /\ call'[p].part = {} /\ call'[p].held = {}
        /\ call'[p].op = "none"
    <3>1. CASE call'[p] = NoCall
      BY <3>1 DEF NoCall
    <3>2. CASE call'[p] = [NoCall EXCEPT !.pc = "flush", !.todo = call[p].todo]
      BY <3>2 DEF NoCall
    <3> QED
      BY <2>0, <3>1, <3>2
  <2> QED
    BY <1>1, <2>1, StartKeeps DEF ShapeOf
<1>4. CASE Acquire(p)
  <2>1. PICK k \in call[p].part \ call[p].held :
          /\ GateFree(k, call[p].saw[k])
          /\ call' = [call EXCEPT ![p] = [@ EXCEPT
                        !.held = call[p].held \cup {k},
                        !.pc = IF call[p].part = call[p].held \cup {k} THEN "owned" ELSE "gate"]]
    BY <1>4 DEF Acquire
  <2>0. /\ call[p] \in Call
        /\ call'[p] = [call[p] EXCEPT
             !.held = call[p].held \cup {k},
             !.pc = IF call[p].part = call[p].held \cup {k} THEN "owned" ELSE "gate"]
    BY <2>1 DEF WriteInv, TypeOK
  <2>2. /\ call'[p].held = call[p].held \cup {k} /\ call'[p].part = call[p].part
        /\ call'[p].saw = call[p].saw /\ call'[p].op = call[p].op
        /\ call'[p].expected = call[p].expected
        /\ call'[p].pc = IF call[p].part = call[p].held \cup {k} THEN "owned" ELSE "gate"
    BY <2>0 DEF Call
  <2>3. ShapeOf(p) /\ call[p].pc = "gate" /\ AnswersCommitted(p)
    BY <1>4 DEF Acquire, WriteInv, CallerInv
  <2>4. ShapeOf(p)'
    BY <2>1, <2>2, <2>3 DEF ShapeOf
  <2>5. call'[p].op = "resolve" => \A j \in call'[p].part : call'[p].expected[j] <= pg[j].rev
    BY <2>2, <2>3 DEF AnswersCommitted
  <2>6. \A j \in call'[p].held : \/ j \in call[p].held /\ call'[p].saw[j] = call[p].saw[j]
                                 \/ GateFree(j, call'[p].saw[j])
    BY <2>1, <2>2
  <2>7. call'[p].pc \notin {"write", "acked", "reserved"}
    BY <2>2
  <2> QED
    BY <1>1, <2>4, <2>5, <2>6, <2>7, StartKeeps
<1> QED
  BY <1>2, <1>3, <1>4

(* The owner of the current gate is the only one to rely on the entry.      *)
LEMMA OwnerAlone ==
  ASSUME WriteInv, NEW p \in Callers, NEW k \in call[p].held, SameEntry(p, k)
  PROVE  Alone(p, k)
  BY DEF Alone, WriteInv, Excludes, SameEntry

(* A caller that owns all its gates goes on to its next step.               *)
LEMMA MoveOn ==
  ASSUME WriteInv, TypeOK', NEW p \in Callers,
         \A q \in Callers \ {p} : call'[q] = call[q],
         call[p].pc \notin {"idle", "flush", "gate"},
         call'[p].pc \notin {"idle", "flush", "gate", "reserved"},
         /\ call'[p].part = call[p].part /\ call'[p].held = call[p].held
         /\ call'[p].saw = call[p].saw /\ call'[p].op = call[p].op,
         \A k \in Keys : pg[k].rev <= pg'[k].rev,
         \A k \in Keys : Unmoved(k) \/ Alone(p, k),
         WriterCurrent(p)', AnswersCommitted(p)', KnownIsCommitted'
  PROVE  WriteInv'
<1>1. ShapeOf(p)'
  BY DEF WriteInv, CallerInv, ShapeOf
<1>2. ReservedCurrent(p)'
  BY DEF ReservedCurrent
<1>3. CallerInv(p)'
  BY <1>1, <1>2 DEF CallerInv
<1> QED
  BY <1>3, OwnStep

(* GiveUp changes only where the caller is.                                 *)
LEMMA GiveUpCall ==
  ASSUME TypeOK, NEW p \in Callers, GiveUp(p)
  PROVE  /\ \A q \in Callers \ {p} : call'[q] = call[q]
         /\ call'[p].pc = "unlock" /\ call'[p].part = call[p].part
         /\ call'[p].held = call[p].held /\ call'[p].saw = call[p].saw
         /\ call'[p].op = call[p].op /\ call'[p].expected = call[p].expected
<1>1. call[p] \in Call /\ call'[p] = [call[p] EXCEPT !.pc = "unlock"]
  BY DEF GiveUp, TypeOK
<1> QED
  BY <1>1 DEF GiveUp, TypeOK, Call

LEMMA GiveUpKeeps ==
  ASSUME WriteInv, TypeOK', NEW p \in Callers, GiveUp(p),
         call[p].pc \notin {"idle", "flush", "gate"},
         pg' = pg,
         \A k \in Keys : Unmoved(k) \/ Alone(p, k),
         KnownIsCommitted'
  PROVE  WriteInv'
<1>1. TypeOK /\ AnswersCommitted(p)
  BY DEF WriteInv, CallerInv
<1>2. WriterCurrent(p)' /\ AnswersCommitted(p)'
  BY <1>1, GiveUpCall DEF WriterCurrent, Writing, AnswersCommitted
<1>3. \A k \in Keys : pg[k].rev <= pg'[k].rev
  BY <1>1, EntryFields
<1> QED
  BY <1>1, <1>2, <1>3, GiveUpCall, MoveOn

(* Fencing moves nothing but the fence.                                     *)
LEMMA FenceFields ==
  ASSUME TypeOK, NEW S \in SUBSET Keys, Fence(S), NEW k \in Keys
  PROVE  /\ entry'[k].tracked = entry[k].tracked /\ entry'[k].known = entry[k].known
         /\ k \notin S => Unmoved(k)
<1>1. CASE k \in S
  <2>1. entry[k] \in Entry /\ entry'[k] = [entry[k] EXCEPT !.blocked = TRUE]
    BY <1>1 DEF Fence, TypeOK
  <2> QED
    BY <1>1, <2>1 DEF Entry
<1>2. CASE k \notin S
  BY <1>2 DEF Fence, Unmoved
<1> QED
  BY <1>1, <1>2

LEMMA FenceKeeps ==
  ASSUME WriteInv, TypeOK', NEW p \in Callers, NEW S \in SUBSET Keys, GiveUp(p), Fence(S),
         call[p].pc \notin {"idle", "flush", "gate"},
         \A k \in S : k \in call[p].held /\ SameEntry(p, k),
         pg' = pg
  PROVE  WriteInv'
<1>1. \A k \in Keys : Unmoved(k) \/ Alone(p, k)
  BY FenceFields, OwnerAlone DEF WriteInv
<1>2. KnownIsCommitted'
  BY FenceFields DEF WriteInv, KnownIsCommitted
<1> QED
  BY <1>1, <1>2, GiveUpKeeps

LEMMA SameKeeps ==
  ASSUME WriteInv, TypeOK', NEW p \in Callers, GiveUp(p), entry' = entry, pg' = pg,
         call[p].pc \notin {"idle", "flush", "gate"}
  PROVE  WriteInv'
<1>1. KnownIsCommitted'
  BY DEF WriteInv, KnownIsCommitted
<1> QED
  BY <1>1, GiveUpKeeps DEF Unmoved

(* A caller becomes a writer of its participants.                           *)
LEMMA BeginWrite ==
  ASSUME WriteInv, TypeOK', NEW p \in Callers,
         \A q \in Callers \ {p} : call'[q] = call[q],
         call[p].pc \in {"owned", "reserved"}, call[p].op # "resolve",
         /\ call'[p].pc = "write"
         /\ call'[p].part = call[p].part /\ call'[p].held = call[p].held
         /\ call'[p].saw = call[p].saw /\ call'[p].op = call[p].op,
         pg' = pg,
         \A k \in Keys \ call[p].part : entry'[k] = entry[k],
         \A k \in call[p].part :
           /\ SameEntry(p, k) /\ ~entry[k].blocked
           /\ entry'[k].tracked = entry[k].tracked /\ entry'[k].inc = entry[k].inc
           /\ entry'[k].known = entry[k].known /\ entry'[k].blocked = entry[k].blocked
           /\ entry'[k].inflight
           /\ call'[p].expected[k] = entry[k].known
  PROVE  WriteInv'
<1>1. call[p].held = call[p].part
  BY DEF WriteInv, CallerInv, ShapeOf
<1>2. \A k \in Keys : Unmoved(k) \/ Alone(p, k)
  BY <1>1, OwnerAlone DEF Unmoved
<1>3. WriterCurrent(p)' /\ AnswersCommitted(p)'
  BY DEF WriterCurrent, Writing, SameEntry, AnswersCommitted
<1>4. KnownIsCommitted'
  BY DEF WriteInv, KnownIsCommitted
<1>5. \A k \in Keys : pg[k].rev <= pg'[k].rev
  BY EntryFields DEF WriteInv
<1> QED
  BY <1>2, <1>3, <1>4, <1>5, MoveOn

(* The fields of a call that becomes a writer.                              *)
LEMMA WriteCall ==
  ASSUME TypeOK, NEW p \in Callers, NEW f, NEW g,
         \/ call' = [call EXCEPT ![p] = [@ EXCEPT !.pc = "write", !.expected = f]]
         \/ call' = [call EXCEPT ![p] = [@ EXCEPT !.pc = "write", !.job = g, !.expected = f]]
  PROVE  /\ \A q \in Callers \ {p} : call'[q] = call[q]
         /\ call'[p].pc = "write" /\ call'[p].part = call[p].part
         /\ call'[p].held = call[p].held /\ call'[p].saw = call[p].saw
         /\ call'[p].op = call[p].op /\ call'[p].expected = f
<1>1. /\ call[p] \in Call
      /\ \/ call'[p] = [call[p] EXCEPT !.pc = "write", !.expected = f]
         \/ call'[p] = [call[p] EXCEPT !.pc = "write", !.job = g, !.expected = f]
      /\ \A q \in Callers \ {p} : call'[q] = call[q]
  BY DEF TypeOK
<1> QED
  BY <1>1 DEF Call

LEMMA WriteEnterOne ==
  ASSUME WriteInv, TypeOK', NEW p \in Callers, EnterSave(p) \/ EnterWriteThrough(p)
  PROVE  WriteInv'
<1> DEFINE f(k) == [call[p].expected EXCEPT ![k] = entry[k].known]
           g(k) == [call[p].job EXCEPT ![k] = entry[k].pending]
<1>1. PICK k \in call[p].part :
        \/ GiveUp(p) /\ UNCHANGED entry
        \/ GiveUp(p) /\ Fence({k}) /\ SameEntry(p, k)
        \/ /\ SameEntry(p, k) /\ ~entry[k].blocked
           /\ \/ entry' = [entry EXCEPT ![k] = [@ EXCEPT !.pending = NoJob, !.inflight = TRUE]]
              \/ entry' = [entry EXCEPT ![k].inflight = TRUE]
           /\ \/ call' = [call EXCEPT ![p] = [@ EXCEPT !.pc = "write", !.expected = f(k)]]
              \/ call' = [call EXCEPT ![p] = [@ EXCEPT !.pc = "write", !.job = g(k),
                                                       !.expected = f(k)]]
  <2>1. CASE EnterSave(p)
    BY <2>1 DEF EnterSave
  <2>2. CASE EnterWriteThrough(p)
    BY <2>2 DEF EnterWriteThrough
  <2> QED
    BY <2>1, <2>2
<1>2. /\ call[p].pc = "owned" /\ call[p].op \in {"save", "through"} /\ pg' = pg
      /\ k \in Keys /\ TypeOK
  BY CallFields DEF EnterSave, EnterWriteThrough, WriteInv
<1>3. call[p].part = {k} /\ call[p].held = {k}
  BY <1>2 DEF WriteInv, CallerInv, ShapeOf
<1>4. CASE GiveUp(p) /\ UNCHANGED entry
  BY <1>2, <1>4, SameKeeps
<1>5. CASE GiveUp(p) /\ Fence({k}) /\ SameEntry(p, k)
  BY <1>2, <1>3, <1>5, FenceKeeps
<1>6. CASE /\ SameEntry(p, k) /\ ~entry[k].blocked
           /\ \/ entry' = [entry EXCEPT ![k] = [@ EXCEPT !.pending = NoJob, !.inflight = TRUE]]
              \/ entry' = [entry EXCEPT ![k].inflight = TRUE]
           /\ \/ call' = [call EXCEPT ![p] = [@ EXCEPT !.pc = "write", !.expected = f(k)]]
              \/ call' = [call EXCEPT ![p] = [@ EXCEPT !.pc = "write", !.job = g(k),
                                                       !.expected = f(k)]]
  <2>1. /\ entry[k] \in Entry
        /\ \/ entry'[k] = [entry[k] EXCEPT !.pending = NoJob, !.inflight = TRUE]
           \/ entry'[k] = [entry[k] EXCEPT !.inflight = TRUE]
        /\ \A j \in Keys \ {k} : entry'[j] = entry[j]
    BY <1>2, <1>6 DEF TypeOK
  <2>2. /\ entry'[k].tracked = entry[k].tracked /\ entry'[k].inc = entry[k].inc
        /\ entry'[k].known = entry[k].known /\ entry'[k].blocked = entry[k].blocked
        /\ entry'[k].inflight
    BY <2>1 DEF Entry
  <2>3. f(k)[k] = entry[k].known
    BY <1>2, CallFields
  <2>4. /\ \A q \in Callers \ {p} : call'[q] = call[q]
        /\ call'[p].pc = "write" /\ call'[p].part = call[p].part
        /\ call'[p].held = call[p].held /\ call'[p].saw = call[p].saw
        /\ call'[p].op = call[p].op /\ call'[p].expected = f(k)
    <3>1. PICK F, G : /\ F = f(k)
                      /\ \/ call' = [call EXCEPT ![p] = [@ EXCEPT !.pc = "write", !.expected = F]]
                         \/ call' = [call EXCEPT ![p] = [@ EXCEPT !.pc = "write", !.job = G,
                                                                  !.expected = F]]
      BY <1>6
    <3> HIDE DEF f, g
    <3>2. CASE call' = [call EXCEPT ![p] = [@ EXCEPT !.pc = "write", !.expected = F]]
      BY <1>2, <3>1, <3>2, WriteCall
    <3>3. CASE call' = [call EXCEPT ![p] = [@ EXCEPT !.pc = "write", !.job = G, !.expected = F]]
      BY <1>2, <3>1, <3>3, WriteCall
    <3> QED
      BY <3>1, <3>2, <3>3
  <2>5. \A j \in Keys \ call[p].part : entry'[j] = entry[j]
    BY <1>3, <2>1
  <2>6. \A j \in call[p].part :
          /\ SameEntry(p, j) /\ ~entry[j].blocked
          /\ entry'[j].tracked = entry[j].tracked /\ entry'[j].inc = entry[j].inc
          /\ entry'[j].known = entry[j].known /\ entry'[j].blocked = entry[j].blocked
          /\ entry'[j].inflight
          /\ call'[p].expected[j] = entry[j].known
    BY <1>3, <1>6, <2>2, <2>3, <2>4
  <2> HIDE DEF f, g
  <2> QED
    BY <1>2, <2>4, <2>5, <2>6, BeginWrite
<1> QED
  BY <1>1, <1>4, <1>5, <1>6

LEMMA WriteEnterSet ==
  ASSUME WriteInv, TypeOK', NEW p \in Callers, EnterCriticalSet(p)
  PROVE  WriteInv'
<1> DEFINE S == call[p].part
           f == [k \in Keys |-> IF k \in S THEN entry[k].known ELSE 0]
           g == [k \in Keys |-> IF k \in S
                   THEN [gen |-> entry[k].seq + 1, ver |-> call[p].job[k].ver] ELSE NoJob]
           refused == \E k \in S : ~SameEntry(p, k) \/ entry[k].blocked \/ entry[k].seq = MaxGen
<1>1. /\ call[p].pc = "owned" /\ call[p].op = "critical" /\ pg' = pg /\ TypeOK
      /\ S \in SUBSET Keys /\ call[p].held = S
  BY CallFields DEF EnterCriticalSet, WriteInv, CallerInv, ShapeOf
<1>2. CASE GiveUp(p) /\ UNCHANGED entry
  BY <1>1, <1>2, SameKeeps
<1>3. CASE ~refused /\ GiveUp(p) /\ Fence(Maxed(S))
  <2>1. Maxed(S) \in SUBSET Keys /\ \A k \in Maxed(S) : k \in call[p].held /\ SameEntry(p, k)
    BY <1>1, <1>3 DEF Maxed
  <2> QED
    BY <1>1, <1>3, <2>1, FenceKeeps
<1>4. CASE /\ ~refused
           /\ entry' = [k \in Keys |-> IF k \in S
                          THEN [entry[k] EXCEPT !.seq = entry[k].seq + 1, !.inflight = TRUE]
                          ELSE entry[k]]
           /\ call' = [call EXCEPT ![p] = [@ EXCEPT !.pc = "write", !.job = g, !.expected = f]]
  <2>1. \A k \in Keys \ S : entry'[k] = entry[k]
    BY <1>4
  <2>2. ASSUME NEW k \in S
        PROVE  /\ SameEntry(p, k) /\ ~entry[k].blocked
               /\ entry'[k].tracked = entry[k].tracked /\ entry'[k].inc = entry[k].inc
               /\ entry'[k].known = entry[k].known /\ entry'[k].blocked = entry[k].blocked
               /\ entry'[k].inflight
               /\ f[k] = entry[k].known
    <3>1. k \in Keys /\ entry[k] \in Entry
      BY <1>1, EntryFields
    <3>2. entry'[k] = [entry[k] EXCEPT !.seq = entry[k].seq + 1, !.inflight = TRUE]
      BY <1>4, <3>1
    <3> QED
      BY <1>4, <3>1, <3>2 DEF Entry
  <2>3. /\ \A q \in Callers \ {p} : call'[q] = call[q]
        /\ call'[p].pc = "write" /\ call'[p].part = call[p].part
        /\ call'[p].held = call[p].held /\ call'[p].saw = call[p].saw
        /\ call'[p].op = call[p].op /\ call'[p].expected = f
    <3> HIDE DEF f, g
    <3> QED
      BY <1>1, <1>4, WriteCall
  <2> QED
    BY <1>1, <2>1, <2>2, <2>3, BeginWrite
<1> QED
  BY <1>2, <1>3, <1>4 DEF EnterCriticalSet

LEMMA WriteResolve ==
  ASSUME WriteInv, TypeOK', NEW p \in Callers, ApplyResolve(p)
  PROVE  WriteInv'
<1>1. PICK k \in call[p].part :
        \/ UNCHANGED entry
        \/ /\ SameEntry(p, k)
           /\ entry' = [entry EXCEPT ![k] = [@ EXCEPT
                          !.known = call[p].expected[k], !.blocked = FALSE, !.pending = NoJob]]
  BY DEF ApplyResolve
<1>2. /\ call[p].pc = "owned" /\ call[p].op = "resolve" /\ pg' = pg /\ GiveUp(p)
      /\ TypeOK /\ k \in Keys /\ k \in call[p].held
  BY CallFields DEF ApplyResolve, WriteInv, CallerInv, ShapeOf
<1>3. CASE UNCHANGED entry
  BY <1>2, <1>3, SameKeeps
<1>4. CASE /\ SameEntry(p, k)
           /\ entry' = [entry EXCEPT ![k] = [@ EXCEPT
                          !.known = call[p].expected[k], !.blocked = FALSE, !.pending = NoJob]]
  <2>1. \A j \in Keys \ {k} : entry'[j] = entry[j]
    BY <1>4
  <2>2. entry'[k].known = call[p].expected[k]
    <3>1. /\ entry[k] \in Entry
          /\ entry'[k] = [entry[k] EXCEPT
               !.known = call[p].expected[k], !.blocked = FALSE, !.pending = NoJob]
      BY <1>2, <1>4 DEF TypeOK
    <3> QED
      BY <3>1 DEF Entry
  <2>3. \A j \in Keys : Unmoved(j) \/ Alone(p, j)
    BY <1>2, <1>4, <2>1, OwnerAlone DEF Unmoved
  <2>4. KnownIsCommitted'
    BY <1>2, <2>1, <2>2 DEF KnownIsCommitted, WriteInv, CallerInv, AnswersCommitted
  <2> QED
    BY <1>2, <2>3, <2>4, GiveUpKeeps
<1> QED
  BY <1>1, <1>3, <1>4

LEMMA WriteStore ==
  ASSUME WriteInv, TypeOK', NEW p \in Callers, StoreWrite(p)
  PROVE  WriteInv'
<1> DEFINE S == call[p].part
           committed == [k \in Keys |-> IF k \in S
                           THEN [rev |-> pg[k].rev + 1, ver |-> call[p].job[k].ver] ELSE pg[k]]
<1>1. PICK r \in Results :
        /\ call' = [call EXCEPT ![p] = [@ EXCEPT !.pc = "acked", !.res = r]]
        /\ r = "ok" => (\A k \in S : pg[k].rev = call[p].expected[k]) /\ pg' = committed
        /\ pg' \in {pg, committed}
  BY DEF StoreWrite, Results
<1>2. /\ call[p].pc = "write" /\ entry' = entry /\ TypeOK /\ S \in SUBSET Keys
  BY CallFields DEF StoreWrite, WriteInv
<1>3. /\ \A q \in Callers \ {p} : call'[q] = call[q]
      /\ call'[p].pc = "acked" /\ call'[p].part = S /\ call'[p].held = call[p].held
      /\ call'[p].saw = call[p].saw /\ call'[p].op = call[p].op
      /\ call'[p].expected = call[p].expected /\ call'[p].res = r
  <2>1. call[p] \in Call /\ call'[p] = [call[p] EXCEPT !.pc = "acked", !.res = r]
    BY <1>1, <1>2 DEF TypeOK
  <2> QED
    BY <1>1, <1>2, <2>1 DEF Call, TypeOK
<1>4. \A k \in Keys : pg[k].rev \in Nat /\ pg'[k].rev \in Nat /\ pg[k].rev <= pg'[k].rev
  <2>1. \A k \in Keys : pg[k].rev \in Nat
    BY <1>2, EntryFields
  <2>2. \A k \in Keys : pg'[k].rev = pg[k].rev \/ pg'[k].rev = pg[k].rev + 1
    BY <1>1
  <2> QED
    BY <2>1, <2>2
<1>5. WriterCurrent(p)'
  BY <1>2, <1>3 DEF WriterCurrent, Writing, SameEntry, WriteInv, CallerInv
<1>6. AnswersCommitted(p)'
  <2>1. call'[p].res = "ok" => \A k \in S : call[p].expected[k] + 1 <= pg'[k].rev
    BY <1>1, <1>2, <1>3, <1>4
  <2>2. call[p].op = "resolve" => \A k \in S : call[p].expected[k] <= pg'[k].rev
    <3>1. \A k \in S : call[p].expected[k] \in Nat
      BY <1>2, CallFields
    <3> QED
      BY <1>2, <1>4, <3>1 DEF WriteInv, CallerInv, AnswersCommitted
  <2> QED
    BY <1>3, <2>1, <2>2 DEF AnswersCommitted
<1>7. KnownIsCommitted'
  BY <1>2, <1>4, EntryFields DEF KnownIsCommitted, WriteInv
<1>8. \A k \in Keys : Unmoved(k)
  BY <1>2 DEF Unmoved
<1> QED
  BY <1>2, <1>3, <1>4, <1>5, <1>6, <1>7, <1>8, MoveOn

LEMMA WriteFinish ==
  ASSUME WriteInv, TypeOK', NEW p \in Callers,
         FinishSave(p) \/ FinishWriteThrough(p) \/ FinishCriticalSet(p)
  PROVE  WriteInv'
<1> DEFINE S == call[p].part
<1>1. /\ call[p].pc = "acked" /\ GiveUp(p) /\ pg' = pg /\ TypeOK /\ S \in SUBSET Keys
      /\ call[p].held = S
  BY CallFields DEF FinishSave, FinishWriteThrough, FinishCriticalSet, WriteInv, CallerInv, ShapeOf
<1>2. \A k \in S : SameEntry(p, k) /\ call[p].expected[k] = entry[k].known
  BY <1>1 DEF WriteInv, CallerInv, WriterCurrent, Writing
<1>3. \A k \in Keys \ S : entry'[k] = entry[k]
  BY <1>1 DEF FinishSave, FinishWriteThrough, FinishCriticalSet, TypeOK
<1>4. ASSUME NEW k \in S
      PROVE  /\ entry'[k].tracked = entry[k].tracked
             /\ \/ entry'[k].known = entry[k].known
                \/ call[p].res = "ok" /\ entry'[k].known = call[p].expected[k] + 1
  <2>1. k \in Keys /\ entry[k] \in Entry
    BY <1>1, EntryFields
  <2>2. \E j, n :
          \/ entry'[k] = [entry[k] EXCEPT !.inflight = FALSE, !.pending = j]
          \/ entry'[k] = [entry[k] EXCEPT !.inflight = FALSE, !.blocked = TRUE]
          \/ entry'[k] = [entry[k] EXCEPT !.inflight = FALSE, !.blocked = TRUE, !.pending = j]
          \/ /\ call[p].res = "ok" /\ n = call[p].expected[k] + 1
             /\ \/ entry'[k] = [entry[k] EXCEPT !.inflight = FALSE, !.known = n]
                \/ entry'[k] = [entry[k] EXCEPT !.inflight = FALSE, !.known = n, !.pending = j]
    <3>1. CASE FinishSave(p)
      <4>1. S = {k}
        BY <1>1, <3>1 DEF FinishSave, WriteInv, CallerInv, ShapeOf
      <4> DEFINE requeued == IF Pending(k) THEN entry[k].pending ELSE call[p].job[k]
      <4>2. entry' = [entry EXCEPT ![k] =
              CASE call[p].res = "ok" ->
                     [@ EXCEPT !.inflight = FALSE, !.known = call[p].expected[k] + 1]
                [] call[p].res = "err" ->
                     [@ EXCEPT !.inflight = FALSE, !.pending = requeued]
                [] call[p].res = "stale" ->
                     [@ EXCEPT !.inflight = FALSE, !.blocked = TRUE]
                [] OTHER ->
                     [@ EXCEPT !.inflight = FALSE, !.blocked = TRUE, !.pending = requeued]]
        BY <3>1, <4>1 DEF FinishSave
      <4> QED
        BY <1>1, <2>1, <4>2 DEF TypeOK
    <3>2. CASE FinishWriteThrough(p)
      <4>1. S = {k}
        BY <1>1, <3>2 DEF FinishWriteThrough, WriteInv, CallerInv, ShapeOf
      <4> DEFINE older == entry[k].pending.gen <= call[p].job[k].gen
      <4>2. entry' = [entry EXCEPT ![k] =
              CASE call[p].res = "ok" ->
                     [@ EXCEPT !.inflight = FALSE, !.known = call[p].expected[k] + 1,
                               !.pending = IF older THEN NoJob ELSE entry[k].pending]
                [] call[p].res = "err" ->
                     [@ EXCEPT !.inflight = FALSE,
                               !.pending = IF older THEN call[p].job[k] ELSE entry[k].pending]
                [] OTHER ->
                     [@ EXCEPT !.inflight = FALSE, !.blocked = TRUE]]
        BY <3>2, <4>1 DEF FinishWriteThrough
      <4> QED
        BY <1>1, <2>1, <4>2 DEF TypeOK
    <3>3. CASE FinishCriticalSet(p)
      BY <2>1, <3>3 DEF FinishCriticalSet
    <3> QED
      BY <3>1, <3>2, <3>3
  <2> QED
    BY <2>1, <2>2 DEF Entry
<1>5. \A k \in Keys : Unmoved(k) \/ Alone(p, k)
  BY <1>1, <1>2, <1>3, OwnerAlone DEF Unmoved
<1>6. KnownIsCommitted'
  BY <1>1, <1>3, <1>4 DEF KnownIsCommitted, WriteInv, CallerInv, AnswersCommitted
<1> QED
  BY <1>1, <1>5, <1>6, GiveUpKeeps

LEMMA WriteReserve ==
  ASSUME WriteInv, TypeOK', NEW p \in Callers, NEW S \in SUBSET Keys, Reserve(p, S)
  PROVE  WriteInv'
<1>1. /\ TypeOK /\ pg' = pg /\ call[p].pc = "idle"
      /\ \A k \in S : entry[k].tracked /\ GateFree(k, entry[k].inc) /\ ~entry[k].blocked
  BY DEF Reserve, WriteInv
<1>2. CASE Fence(Maxed(S)) /\ call' = call
  <2>1. Maxed(S) \in SUBSET Keys
    BY DEF Maxed
  <2>2. \A q \in Callers : \A k \in Keys : Unmoved(k) \/ ~Relies(q, k)
    BY <1>1, <1>2, <2>1, FenceFields DEF Relies, SameEntry, GateFree, Maxed
  <2>3. \A k \in Keys : pg[k].rev <= pg'[k].rev
    BY <1>1, EntryFields
  <2>4. \A q \in Callers : CallerInv(q)'
    BY <1>2, <2>2, <2>3, OthersKeep
  <2>5. \A q, r \in Callers : q # r => Excludes(q, r)'
    BY <1>2 DEF WriteInv, Excludes
  <2>6. KnownIsCommitted'
    BY <1>1, <1>2, <2>1, FenceFields DEF WriteInv, KnownIsCommitted
  <2> QED
    BY <2>4, <2>5, <2>6 DEF WriteInv
<1>3. CASE Maxed(S) = {}
  <2> DEFINE f == [k \in Keys |-> IF k \in S THEN entry[k].inc ELSE 0]
             e == [k \in Keys |-> IF k \in S THEN entry[k].known ELSE 0]
             g == [k \in Keys |-> IF k \in S
                     THEN [gen |-> entry[k].seq + 1, ver |-> captured[k] + 1] ELSE NoJob]
  <2>1. /\ call' = [call EXCEPT ![p] = [NoCall EXCEPT
                      !.pc = "reserved", !.op = "reserve", !.part = S, !.held = S,
                      !.saw = f, !.expected = e, !.job = g]]
        /\ entry' = [k \in Keys |-> IF k \in S
                       THEN [entry[k] EXCEPT !.seq = entry[k].seq + 1, !.reserved = TRUE]
                       ELSE entry[k]]
    BY <1>3 DEF Reserve
  <2>2. /\ \A q \in Callers \ {p} : call'[q] = call[q]
        /\ call'[p].pc = "reserved" /\ call'[p].op = "reserve" /\ call'[p].part = S
        /\ call'[p].held = S /\ call'[p].saw = f /\ call'[p].expected = e
    <3> HIDE DEF f, e, g
    <3>1. call'[p] = [NoCall EXCEPT !.pc = "reserved", !.op = "reserve", !.part = S, !.held = S,
                                     !.saw = f, !.expected = e, !.job = g]
      BY <1>1, <2>1 DEF TypeOK
    <3>2. \A q \in Callers \ {p} : call'[q] = call[q]
      <4>1. PICK c : call' = [call EXCEPT ![p] = c]
        BY <2>1
      <4> QED
        BY <4>1
    <3>3. /\ call'[p].pc = "reserved" /\ call'[p].op = "reserve" /\ call'[p].part = S
          /\ call'[p].held = S /\ call'[p].saw = f /\ call'[p].expected = e
      BY <3>1 DEF NoCall
    <3> QED
      BY <3>2, <3>3
  <2>3. \A k \in Keys \ S : entry'[k] = entry[k]
    BY <2>1
  <2>4. ASSUME NEW k \in S
        PROVE  /\ entry'[k].tracked = entry[k].tracked /\ entry'[k].inc = entry[k].inc
               /\ entry'[k].known = entry[k].known /\ entry'[k].blocked = entry[k].blocked
               /\ entry'[k].inflight = entry[k].inflight /\ entry'[k].reserved
    <3>1. /\ entry[k] \in Entry
          /\ entry'[k] = [entry[k] EXCEPT !.seq = entry[k].seq + 1, !.reserved = TRUE]
      BY <1>1, <2>1, EntryFields
    <3> QED
      BY <3>1 DEF Entry
  <2>5. \A k \in Keys : Unmoved(k)
    BY <2>3, <2>4 DEF Unmoved
  <2>6. CallerInv(p)'
    <3>1. ShapeOf(p)' /\ WriterCurrent(p)' /\ AnswersCommitted(p)'
      BY <2>2 DEF ShapeOf, WriterCurrent, Writing, AnswersCommitted
    <3>2. ReservedCurrent(p)'
      BY <1>1, <1>3, <2>2, <2>4 DEF ReservedCurrent, SameEntry, Maxed
    <3> QED
      BY <3>1, <3>2 DEF CallerInv
  <2>7. \A k \in call'[p].held : GateFree(k, call'[p].saw[k])
    BY <1>1, <2>2
  <2>8. KnownIsCommitted'
    BY <1>1, <2>5 DEF KnownIsCommitted, WriteInv, Unmoved
  <2>9. \A k \in Keys : pg[k].rev <= pg'[k].rev
    BY <1>1, EntryFields
  <2> QED
    BY <2>2, <2>5, <2>6, <2>7, <2>8, <2>9, OwnStep
<1> QED
  BY <1>2, <1>3 DEF Reserve

LEMMA WriteReserved ==
  ASSUME WriteInv, TypeOK', NEW p \in Callers, CancelReservation(p) \/ ExecuteReservation(p)
  PROVE  WriteInv'
<1>1. /\ TypeOK /\ pg' = pg /\ call[p].pc = "reserved" /\ call[p].op = "reserve"
      /\ call[p].part \in SUBSET Keys /\ call[p].held = call[p].part
      /\ \A k \in call[p].part : SameEntry(p, k) /\ ~entry[k].blocked
  BY CallFields DEF CancelReservation, ExecuteReservation, WriteInv, CallerInv, ShapeOf, ReservedCurrent
<1>2. \A k \in Keys \ call[p].part : entry'[k] = entry[k]
  BY DEF CancelReservation, Unreserve, ExecuteReservation
<1>3. ASSUME NEW k \in call[p].part
      PROVE  /\ entry'[k].tracked = entry[k].tracked /\ entry'[k].inc = entry[k].inc
             /\ entry'[k].known = entry[k].known /\ entry'[k].blocked = entry[k].blocked
             /\ ExecuteReservation(p) => entry'[k].inflight
  <2>1. /\ entry[k] \in Entry
        /\ \/ CancelReservation(p) /\ entry'[k] = [entry[k] EXCEPT !.reserved = FALSE]
           \/ entry'[k] = [entry[k] EXCEPT !.reserved = FALSE, !.inflight = TRUE]
    BY <1>1, EntryFields DEF CancelReservation, Unreserve, ExecuteReservation
  <2>2. ExecuteReservation(p) => entry'[k] = [entry[k] EXCEPT !.reserved = FALSE, !.inflight = TRUE]
    BY <1>1 DEF ExecuteReservation
  <2> QED
    BY <2>1, <2>2 DEF Entry
<1>4. CASE CancelReservation(p)
  <2>1. GiveUp(p)
    BY <1>4 DEF CancelReservation
  <2>2. \A k \in Keys : Unmoved(k) \/ Alone(p, k)
    BY <1>1, <1>2, OwnerAlone DEF Unmoved
  <2>3. KnownIsCommitted'
    BY <1>1, <1>2, <1>3 DEF KnownIsCommitted, WriteInv
  <2> QED
    BY <1>1, <2>1, <2>2, <2>3, GiveUpKeeps
<1>5. CASE ExecuteReservation(p)
  <2> DEFINE f == [k \in Keys |-> IF k \in call[p].part THEN entry[k].known ELSE 0]
  <2>1. call' = [call EXCEPT ![p] = [@ EXCEPT !.pc = "write", !.expected = f]]
    BY <1>5 DEF ExecuteReservation
  <2>2. /\ \A q \in Callers \ {p} : call'[q] = call[q]
        /\ call'[p].pc = "write" /\ call'[p].part = call[p].part
        /\ call'[p].held = call[p].held /\ call'[p].saw = call[p].saw
        /\ call'[p].op = call[p].op /\ call'[p].expected = f
    <3> HIDE DEF f
    <3> QED
      BY <1>1, <2>1, WriteCall
  <2>3. \A k \in call[p].part :
          /\ SameEntry(p, k) /\ ~entry[k].blocked
          /\ entry'[k].tracked = entry[k].tracked /\ entry'[k].inc = entry[k].inc
          /\ entry'[k].known = entry[k].known /\ entry'[k].blocked = entry[k].blocked
          /\ entry'[k].inflight
          /\ call'[p].expected[k] = entry[k].known
    BY <1>1, <1>3, <1>5, <2>2
  <2> QED
    BY <1>1, <1>2, <2>2, <2>3, BeginWrite
<1> QED
  BY <1>4, <1>5

LEMMA WriteNext == WriteInv /\ [Next]_vars => WriteInv'
<1> SUFFICES ASSUME WriteInv, [Next]_vars PROVE WriteInv'
  OBVIOUS
<1>1. TypeOK'
  BY TypeNext DEF WriteInv
<1>2. ASSUME NEW k \in Keys, Track(k) \/ Untrack(k) \/ MarkDirty(k) \/ ExternalCommit(k)
      PROVE  WriteInv'
  BY <1>1, <1>2, WriteTable
<1>3. ASSUME NEW p \in Callers, StartFlush(p)
      PROVE  WriteInv'
  BY <1>1, <1>3, WriteStart DEF StartFlush
<1>4. ASSUME NEW p \in Callers, NEW k \in Keys, StartWriteThrough(p, k) \/ StartResolve(p, k)
      PROVE  WriteInv'
  BY <1>1, <1>4, WriteStart
<1>5. ASSUME NEW p \in Callers, NEW S \in SUBSET Keys, S # {}, StartCriticalSet(p, S)
      PROVE  WriteInv'
  BY <1>1, <1>5, WriteStart
<1>6. ASSUME NEW p \in Callers, NEW S \in SUBSET Keys, Reserve(p, S)
      PROVE  WriteInv'
  BY <1>1, <1>6, WriteReserve
<1>7. ASSUME NEW p \in Callers, Acquire(p) \/ CallerStep(p) \/ Cancelled(p)
      PROVE  WriteInv'
  BY <1>1, <1>7, WriteGate, WriteEnterOne, WriteEnterSet, WriteResolve, WriteStore, WriteFinish,
     WriteReserved DEF CallerStep
<1>8. ASSUME Crash
      PROVE  WriteInv'
  BY <1>1, <1>8, WriteCrash
<1>9. CASE UNCHANGED vars
  BY <1>1, <1>9 DEF vars, WriteInv, CallerInv, ShapeOf, WriterCurrent, ReservedCurrent,
     AnswersCommitted, Writing, SameEntry, Excludes, KnownIsCommitted
<1> QED
  BY <1>2, <1>3, <1>4, <1>5, <1>6, <1>7, <1>8, <1>9 DEF Next, Uncancelled

LEMMA WriteInvariant == Spec => []WriteInv
  BY WriteInit, WriteNext, PTL DEF Spec

(* No two callers ever run a write for the same aggregate: not saveOne, a   *)
(* write-through, a critical set or a reservation, not across Untrack and   *)
(* a new Track, and not after a restart.                                    *)
THEOREM WritersExclude == Spec => []OneWriter
<1>1. WriteInv => OneWriter
  BY DEF WriteInv, CallerInv, ShapeOf, WriterCurrent, Excludes, SameEntry, Writing, OneWriter
<1> QED
  BY <1>1, WriteInvariant, PTL

(* The saver never believes a revision PostgreSQL has not committed, with   *)
(* lost answers, wrong answers and writers outside the saver.               *)
THEOREM KnownStaysCommitted == Spec => []KnownIsCommitted
<1>1. WriteInv => KnownIsCommitted
  BY DEF WriteInv
<1> QED
  BY <1>1, WriteInvariant, PTL

(* Nobody writes a fenced aggregate, so the reconciliation that reads its   *)
(* row does not race a write of this saver.                                 *)
THEOREM FencedStaysAtRest == Spec => []FencedIsAtRest
<1>1. WriteInv => FencedIsAtRest
  BY DEF WriteInv, CallerInv, WriterCurrent, FencedIsAtRest
<1> QED
  BY <1>1, WriteInvariant, PTL

(* Whatever happens while a reservation is held, Execute finds it valid and *)
(* expects the revision that was known when it was made.                    *)
THEOREM ReservationStaysPinned == Spec => []ReservationPinsRevision
<1>1. WriteInv => ReservationPinsRevision
  BY DEF WriteInv, CallerInv, ReservedCurrent, ReservationPinsRevision
<1> QED
  BY <1>1, WriteInvariant, PTL

-----------------------------------------------------------------------------
(* The canonical order of the gates *)

LEMMA AcquireOrdered ==
  ASSUME TypeOK, HoldsOnlyEarlierGates, NEW p \in Callers, Acquire(p)
  PROVE  HoldsOnlyEarlierGates'
<1>1. PICK k \in call[p].part \ call[p].held :
        /\ \A j \in call[p].part \ call[p].held : k <= j
        /\ call' = [call EXCEPT ![p] = [@ EXCEPT
                      !.held = call[p].held \cup {k},
                      !.pc = IF call[p].part = call[p].held \cup {k} THEN "owned" ELSE "gate"]]
  BY DEF Acquire
<1>2. /\ call[p] \in Call
      /\ call'[p] = [call[p] EXCEPT
           !.held = call[p].held \cup {k},
           !.pc = IF call[p].part = call[p].held \cup {k} THEN "owned" ELSE "gate"]
      /\ \A q \in Callers \ {p} : call'[q] = call[q]
  BY <1>1 DEF TypeOK
<1>3. call'[p].held = call[p].held \cup {k} /\ call'[p].part = call[p].part
  BY <1>2 DEF Call
<1>4. call[p].pc = "gate" /\ call[p].part \in SUBSET Nat
  BY CallFields, SaverConstants DEF Acquire
<1>5. \A h \in call'[p].held : \A w \in call'[p].part \ call'[p].held : h < w
  <2> SUFFICES ASSUME NEW h \in call'[p].held, NEW w \in call'[p].part \ call'[p].held
               PROVE  h < w
    OBVIOUS
  <2>1. w \in call[p].part \ call[p].held /\ w # k
    BY <1>3
  <2>2. CASE h = k
    BY <1>1, <1>4, <2>1, <2>2
  <2>3. CASE h \in call[p].held
    BY <1>4, <2>1, <2>3 DEF HoldsOnlyEarlierGates
  <2> QED
    BY <1>3, <2>2, <2>3
<1> QED
  BY <1>2, <1>5 DEF HoldsOnlyEarlierGates

(* Every other step of a caller leaves it without gates or without a wait.  *)
LEMMA OthersOrdered ==
  ASSUME TypeOK, HoldsOnlyEarlierGates,
         \A p \in Callers : call'[p] = call[p] \/ call'[p].held = {} \/ call'[p].pc # "gate"
  PROVE  HoldsOnlyEarlierGates'
  BY DEF HoldsOnlyEarlierGates

LEMMA StepOrdered ==
  ASSUME TypeOK, HoldsOnlyEarlierGates, NEW p \in Callers, NEW c,
         call' = [call EXCEPT ![p] = c],
         c.held = {} \/ c.pc # "gate"
  PROVE  HoldsOnlyEarlierGates'
<1>1. \A q \in Callers : call'[q] = call[q] \/ call'[q] = c
  BY DEF TypeOK
<1> QED
  BY <1>1, OthersOrdered

LEMMA FreshOrdered ==
  ASSUME TypeOK, HoldsOnlyEarlierGates, NEW p \in Callers, NEW k \in Keys, NEW S \in SUBSET Keys,
         \/ StartWriteThrough(p, k) \/ StartResolve(p, k)
         \/ StartCriticalSet(p, S) \/ Reserve(p, S)
  PROVE  HoldsOnlyEarlierGates'
<1>2. CASE StartWriteThrough(p, k)
  BY <1>2, StepOrdered DEF StartWriteThrough, NoCall
<1>3. CASE StartResolve(p, k)
  BY <1>3, StepOrdered DEF StartResolve, NoCall
<1>4. CASE StartCriticalSet(p, S)
  BY <1>4, StepOrdered DEF StartCriticalSet, NoCall
<1>5. CASE Reserve(p, S)
  <2>1. CASE call' = call
    BY <2>1, OthersOrdered
  <2>2. CASE call' # call
    BY <1>5, <2>2, StepOrdered DEF Reserve, NoCall
  <2> QED
    BY <2>1, <2>2
<1> QED
  BY <1>2, <1>3, <1>4, <1>5

LEMMA FlushOrdered ==
  ASSUME TypeOK, HoldsOnlyEarlierGates, NEW p \in Callers, FlushNext(p)
  PROVE  HoldsOnlyEarlierGates'
<1>1. PICK k \in call[p].todo :
        IF entry[k].tracked
        THEN call' = [call EXCEPT ![p] = [NoCall EXCEPT
                        !.pc = "gate", !.op = "save", !.todo = call[p].todo \ {k},
                        !.part = {k}, !.saw[k] = entry[k].inc]]
        ELSE call' = [call EXCEPT ![p].todo = @ \ {k}]
  BY DEF FlushNext
<1>2. CASE entry[k].tracked
  BY <1>1, <1>2, StepOrdered DEF NoCall
<1>3. CASE ~entry[k].tracked
  <2>1. /\ call[p] \in Call /\ call[p].pc = "flush"
        /\ call' = [call EXCEPT ![p] = [call[p] EXCEPT !.todo = call[p].todo \ {k}]]
    BY <1>1, <1>3 DEF FlushNext, TypeOK
  <2>2. [call[p] EXCEPT !.todo = call[p].todo \ {k}].pc = "flush"
    BY <2>1 DEF Call
  <2> QED
    BY <2>1, <2>2, StepOrdered
<1> QED
  BY <1>2, <1>3

LEMMA GiveUpOrdered ==
  ASSUME TypeOK, HoldsOnlyEarlierGates, NEW p \in Callers, GiveUp(p)
  PROVE  HoldsOnlyEarlierGates'
  BY GiveUpCall, OthersOrdered

LEMMA WriteOrdered ==
  ASSUME TypeOK, HoldsOnlyEarlierGates, NEW p \in Callers, NEW f, NEW g,
         \/ call' = [call EXCEPT ![p] = [@ EXCEPT !.pc = "write", !.expected = f]]
         \/ call' = [call EXCEPT ![p] = [@ EXCEPT !.pc = "write", !.job = g, !.expected = f]]
  PROVE  HoldsOnlyEarlierGates'
<1>1. call'[p].pc = "write" /\ \A q \in Callers \ {p} : call'[q] = call[q]
  <2>1. CASE call' = [call EXCEPT ![p] = [@ EXCEPT !.pc = "write", !.expected = f]]
    BY <2>1, WriteCall
  <2>2. CASE call' = [call EXCEPT ![p] = [@ EXCEPT !.pc = "write", !.job = g, !.expected = f]]
    BY <2>2, WriteCall
  <2> QED
    BY <2>1, <2>2
<1> QED
  BY <1>1, OthersOrdered

LEMMA OwnedOrdered ==
  ASSUME TypeOK, HoldsOnlyEarlierGates, NEW p \in Callers,
         \/ EnterSave(p) \/ EnterWriteThrough(p) \/ EnterCriticalSet(p) \/ ApplyResolve(p)
         \/ StoreWrite(p) \/ FinishSave(p) \/ FinishWriteThrough(p) \/ FinishCriticalSet(p)
         \/ CancelReservation(p) \/ ExecuteReservation(p)
  PROVE  HoldsOnlyEarlierGates'
<1>1. CASE GiveUp(p)
  BY <1>1, GiveUpOrdered
<1>2. CASE StoreWrite(p)
  <2>1. PICK r : call' = [call EXCEPT ![p] = [@ EXCEPT !.pc = "acked", !.res = r]]
    BY <1>2 DEF StoreWrite
  <2>2. [call[p] EXCEPT !.pc = "acked", !.res = r].pc = "acked"
    BY CallFields DEF Call
  <2> QED
    BY <2>1, <2>2, StepOrdered
<1>3. CASE ~GiveUp(p) /\ ~StoreWrite(p)
  <2>1. \E f, g :
          \/ call' = [call EXCEPT ![p] = [@ EXCEPT !.pc = "write", !.expected = f]]
          \/ call' = [call EXCEPT ![p] = [@ EXCEPT !.pc = "write", !.job = g, !.expected = f]]
    <3>1. CASE EnterSave(p)
      BY <1>3, <3>1 DEF EnterSave
    <3>2. CASE EnterWriteThrough(p)
      BY <1>3, <3>2 DEF EnterWriteThrough
    <3>3. CASE EnterCriticalSet(p)
      BY <1>3, <3>3 DEF EnterCriticalSet
    <3>4. CASE ExecuteReservation(p)
      BY <3>4 DEF ExecuteReservation
    <3> QED
      BY <1>3, <3>1, <3>2, <3>3, <3>4
         DEF ApplyResolve, FinishSave, FinishWriteThrough, FinishCriticalSet, CancelReservation
  <2> QED
    BY <2>1, WriteOrdered
<1> QED
  BY <1>1, <1>2, <1>3

LEMMA OrderNext == TypeOK /\ HoldsOnlyEarlierGates /\ [Next]_vars => HoldsOnlyEarlierGates'
<1> SUFFICES ASSUME TypeOK, HoldsOnlyEarlierGates, [Next]_vars PROVE HoldsOnlyEarlierGates'
  OBVIOUS
<1>1. ASSUME NEW k \in Keys, Track(k) \/ Untrack(k) \/ MarkDirty(k) \/ ExternalCommit(k)
      PROVE  HoldsOnlyEarlierGates'
  BY <1>1, OthersOrdered DEF Track, Untrack, MarkDirty, ExternalCommit
<1>2. ASSUME NEW p \in Callers, StartFlush(p)
      PROVE  HoldsOnlyEarlierGates'
  BY <1>2, StepOrdered DEF StartFlush, NoCall
<1>3. ASSUME NEW p \in Callers, NEW k \in Keys, StartWriteThrough(p, k) \/ StartResolve(p, k)
      PROVE  HoldsOnlyEarlierGates'
  BY <1>3, FreshOrdered
<1>4. ASSUME NEW p \in Callers, NEW S \in SUBSET Keys, S # {},
             StartCriticalSet(p, S) \/ Reserve(p, S)
      PROVE  HoldsOnlyEarlierGates'
  BY <1>4, FreshOrdered
<1>5. ASSUME NEW p \in Callers, FlushDone(p) \/ Cancelled(p) \/ Release(p)
      PROVE  HoldsOnlyEarlierGates'
  <2>1. call' \in {[call EXCEPT ![p] = NoCall],
                   [call EXCEPT ![p] = [NoCall EXCEPT !.pc = "flush", !.todo = call[p].todo]]}
    BY <1>5 DEF FlushDone, Cancelled, Release
  <2> QED
    BY <2>1, StepOrdered DEF NoCall
<1>6. ASSUME NEW p \in Callers, Acquire(p) \/ FlushNext(p)
      PROVE  HoldsOnlyEarlierGates'
  BY <1>6, AcquireOrdered, FlushOrdered
<1>7. ASSUME NEW p \in Callers, CallerStep(p)
      PROVE  HoldsOnlyEarlierGates'
  BY <1>5, <1>6, <1>7, OwnedOrdered DEF CallerStep
<1>8. CASE Crash
  BY <1>8, OthersOrdered DEF Crash, NoCall
<1>9. CASE UNCHANGED vars
  BY <1>9, OthersOrdered DEF vars
<1> QED
  BY <1>1, <1>2, <1>3, <1>4, <1>5, <1>6, <1>7, <1>8, <1>9 DEF Next, Uncancelled

(* A waiting caller holds only gates before the one it waits for, whatever  *)
(* sets overlap: there is no circle of waiting callers.                     *)
THEOREM GatesStayOrdered == Spec => []HoldsOnlyEarlierGates
<1>1. Init => HoldsOnlyEarlierGates
  BY DEF Init, NoCall, HoldsOnlyEarlierGates
<1> QED
  BY <1>1, TypeInit, TypeNext, OrderNext, PTL DEF Spec

-----------------------------------------------------------------------------
(* What the rows hold.  With owners that wait for their synchronous calls   *)
(* a committed snapshot is never replaced by an older one, and what the     *)
(* saver believes clean is saved.  Both rest on one ordering per root of    *)
(* all the versions in it: the committed row, the pending snapshot, the     *)
(* snapshot a writer has, and those of the callers still waiting.           *)

(* The operations that hand over the owner's state and block it.            *)
Handing == {"through", "critical", "resolve"}

(* A caller whose snapshot of k is fixed with its generation.               *)
Holding(p, k) == call[p].pc \in {"reserved", "write", "acked"} /\ k \in call[p].part

(* A caller that will write its snapshot of k once it has every gate.       *)
Waiting(p, k) ==
  /\ call[p].op \in {"through", "critical"} /\ call[p].pc \in {"gate", "owned"}
  /\ k \in call[p].part /\ SameEntry(p, k)

Resolving(p, k) ==
  /\ call[p].op = "resolve" /\ call[p].pc \in {"gate", "owned"}
  /\ k \in call[p].part

(* A flush that has taken the pending snapshot of k out of the entry.       *)
Saving(p, k) == Writing(p, k) /\ call[p].op = "save"

Answered(p) == call[p].pc = "acked" /\ call[p].res = "ok"

(* What the saver answers for is committed, pending, or being flushed.      *)
Covered(k) ==
  \/ accepted[k] <= pg[k].ver
  \/ Pending(k) /\ accepted[k] <= entry[k].pending.ver
  \/ \E p \in Callers : Saving(p, k) /\ accepted[k] <= call[p].job[k].ver

KeyData(k) ==
  /\ pg[k].ver <= captured[k]
  /\ entry[k].pending.ver <= captured[k]
  /\ entry[k].pending.gen <= entry[k].seq
  /\ entry[k].tracked /\ Pending(k) /\ entry[k].known = pg[k].rev
       => pg[k].ver < entry[k].pending.ver
  /\ entry[k].tracked /\ ~entry[k].blocked => Covered(k)

LookData(p, k) ==
  k \in call[p].part =>
    /\ call[p].saw[k] <= entry[k].inc
    /\ call[p].job[k].ver <= captured[k]

(* Generations order a held snapshot and the pending one as versions do.    *)
HoldData(p, k) ==
  Holding(p, k) =>
    /\ 0 < call[p].job[k].gen /\ call[p].job[k].gen <= entry[k].seq
    /\ Answered(p) =>
         /\ call[p].job[k].ver <= pg[k].ver
         /\ call[p].expected[k] + 1 = pg[k].rev => pg[k].ver = call[p].job[k].ver
    /\ ~Answered(p) /\ entry[k].known = pg[k].rev => pg[k].ver < call[p].job[k].ver
    /\ Pending(k) /\ call[p].op = "save" => call[p].job[k].ver < entry[k].pending.ver
    /\ Pending(k) /\ call[p].op # "save" =>
         (entry[k].pending.gen <= call[p].job[k].gen
            <=> entry[k].pending.ver <= call[p].job[k].ver)

(* A waiting snapshot is newer than everything it may find at its turn.     *)
WaitData(p, k) ==
  Waiting(p, k) =>
    /\ entry[k].known = pg[k].rev => pg[k].ver < call[p].job[k].ver
    /\ Pending(k) => entry[k].pending.ver < call[p].job[k].ver
    /\ call[p].op = "through" =>
         0 < call[p].job[k].gen /\ call[p].job[k].gen = entry[k].seq
    /\ \A q \in Callers : Holding(q, k) => call[q].job[k].ver < call[p].job[k].ver

ResolveData(p, k) == Resolving(p, k) => call[p].job[k].ver <= pg[k].ver

CallData(p, k) ==
  LookData(p, k) /\ HoldData(p, k) /\ WaitData(p, k) /\ ResolveData(p, k)

(* Two calls that block an owner have no root in common.                    *)
Apart(p, q) ==
  call[p].op \in Handing /\ call[q].op \in Handing => call[p].part \cap call[q].part = {}

OwnersApart == \A p, q \in Callers : p # q => Apart(p, q)

RootData(k) == KeyData(k) /\ \A p \in Callers : CallData(p, k)

DataInv == OwnersApart /\ \A k \in Keys : RootData(k)

-----------------------------------------------------------------------------

LEMMA DataInit == Init => DataInv
  BY DEF Init, NoCall, NoEntry, NoJob, DataInv, OwnersApart, Apart, Handing, RootData, KeyData,
     CallData, LookData, HoldData, WaitData, ResolveData, Covered, Holding, Waiting, Resolving,
     Pending

(* A caller with a fixed snapshot has the gate of the current registration. *)
LEMMA HolderOwns ==
  ASSUME WriteInv, NEW p \in Callers, NEW k \in Keys, Holding(p, k)
  PROVE  k \in call[p].held /\ SameEntry(p, k) /\ entry[k].tracked /\ ~entry[k].blocked
         /\ call[p].expected[k] = entry[k].known /\ (entry[k].inflight \/ entry[k].reserved)
  BY DEF WriteInv, CallerInv, ShapeOf, WriterCurrent, ReservedCurrent, Writing, Holding, SameEntry

LEMMA HolderAlone ==
  ASSUME WriteInv, NEW p \in Callers, NEW k \in call[p].held, SameEntry(p, k),
         NEW q \in Callers \ {p}
  PROVE  ~Holding(q, k)
<1>1. k \in Keys
  BY CallFields DEF WriteInv
<1> QED
  BY <1>1, OwnerAlone, HolderOwns DEF Alone, SameEntry

-----------------------------------------------------------------------------
(* Steps that leave a root alone *)

(* The root keeps what the data invariant says of it.                       *)
Still(k) ==
  /\ entry'[k].tracked = entry[k].tracked /\ entry'[k].inc = entry[k].inc
  /\ entry'[k].known = entry[k].known /\ entry'[k].pending = entry[k].pending
  /\ entry'[k].seq = entry[k].seq
  /\ entry[k].blocked => entry'[k].blocked
  /\ pg'[k] = pg[k] /\ accepted'[k] = accepted[k]

(* A call goes on with the snapshot of k it had, or drops it.               *)
GoesOn(p, k) ==
  /\ call'[p].op = call[p].op
  /\ call'[p].part = call[p].part
  /\ call'[p].saw = call[p].saw
  /\ call'[p].job = call[p].job
  /\ call'[p].pc \in {"reserved", "write", "acked"} =>
       /\ call[p].pc \in {"reserved", "write", "acked"}
       /\ Answered(p)' <=> Answered(p)
       /\ Answered(p) => call'[p].expected = call[p].expected
  /\ call'[p].pc \in {"gate", "owned"} => call[p].pc \in {"gate", "owned"}
  /\ Saving(p, k) => Saving(p, k)'

(* A call that has fixed no snapshot of k yet.                              *)
Bare(p, k) ==
  /\ ~Holding(p, k)' /\ ~Waiting(p, k)'
  /\ LookData(p, k)' /\ ResolveData(p, k)'

LEMMA StillKeeps ==
  ASSUME WriteInv, DataInv, TypeOK', NEW k \in Keys, Still(k), captured[k] <= captured'[k],
         \A q \in Callers : call'[q] = call[q] \/ GoesOn(q, k) \/ (Bare(q, k) /\ ~Writing(q, k))
  PROVE  RootData(k)'
<1> DEFINE same(q) == call'[q] = call[q] \/ GoesOn(q, k)
<1>0. /\ RootData(k) /\ TypeOK /\ captured[k] \in Nat /\ captured'[k] \in Nat
      /\ pg[k].ver \in Nat /\ entry[k].pending.ver \in Nat
  BY EntryFields DEF WriteInv, DataInv, Job, TypeOK
<1>1. \A q \in Callers : Holding(q, k)' => Holding(q, k) /\ call'[q].job[k] = call[q].job[k]
  BY DEF Holding, GoesOn, Bare
<1>2. ASSUME NEW q \in Callers, Saving(q, k)
      PROVE  Saving(q, k)' /\ call'[q].job[k] = call[q].job[k]
  BY <1>2 DEF Saving, Writing, GoesOn
<1>3. KeyData(k)'
  <2>1. Covered(k) /\ ~entry'[k].blocked => Covered(k)'
    BY <1>2 DEF Covered, Still, Pending
  <2> QED
    BY <1>0, <2>1 DEF RootData, KeyData, Still, Pending
<1>4. ASSUME NEW q \in Callers PROVE CallData(q, k)'
  <2>1. CASE Bare(q, k)
    BY <2>1 DEF Bare, CallData, HoldData, WaitData
  <2>2. CASE same(q)
    <3>0. CallData(q, k) /\ \A j \in Keys : call[q].job[j].ver \in Nat
      BY <1>0, CallFields DEF RootData
    <3>1. LookData(q, k)'
      BY <1>0, <2>2, <3>0 DEF CallData, LookData, GoesOn, Still
    <3>2. HoldData(q, k)'
      <4>1. Holding(q, k)' => /\ Holding(q, k) /\ call'[q].job[k] = call[q].job[k]
                              /\ call'[q].op = call[q].op
                              /\ Answered(q)' => call'[q].expected = call[q].expected
        BY <2>2 DEF Holding, Answered, GoesOn
      <4>2. Holding(q, k)' => (Answered(q)' <=> Answered(q))
        BY <2>2 DEF Holding, Answered, GoesOn
      <4> QED
        BY <3>0, <4>1, <4>2 DEF CallData, HoldData, Still, Pending
    <3>3. WaitData(q, k)'
      <4>1. Waiting(q, k)' => /\ Waiting(q, k) /\ call'[q].job[k] = call[q].job[k]
                              /\ call'[q].op = call[q].op
        BY <2>2 DEF Waiting, SameEntry, GoesOn, Still
      <4> QED
        BY <1>1, <3>0, <4>1 DEF CallData, WaitData, Still, Pending
    <3>4. ResolveData(q, k)'
      BY <2>2, <3>0 DEF CallData, ResolveData, Resolving, GoesOn, Still
    <3> QED
      BY <3>1, <3>2, <3>3, <3>4 DEF CallData
  <2> QED
    BY <2>1, <2>2
<1> QED
  BY <1>3, <1>4 DEF RootData

-----------------------------------------------------------------------------
(* Owners keep their roots apart *)

LEMMA OwnerFreed ==
  ASSUME OwnersWait, NEW k, OwnerFree(k), NEW q \in Callers
  PROVE  /\ ~(call[q].op \in Handing /\ k \in call[q].part)
         /\ ~Waiting(q, k) /\ ~Resolving(q, k)
  BY DEF OwnerFree, Handing, Waiting, Resolving

LEMMA ApartKeeps ==
  ASSUME OwnersApart, NEW p \in Callers,
         \A q \in Callers \ {p} : call'[q] = call[q],
         \/ call'[p].op = call[p].op /\ call'[p].part = call[p].part
         \/ call'[p].op \notin Handing
         \/ \A k \in call'[p].part, q \in Callers : ~(call[q].op \in Handing /\ k \in call[q].part)
  PROVE  OwnersApart'
<1> SUFFICES ASSUME NEW q \in Callers, NEW r \in Callers, q # r PROVE Apart(q, r)'
  BY DEF OwnersApart
<1>0. Apart(q, r)
  BY DEF OwnersApart
<1>1. CASE q # p /\ r # p
  BY <1>0, <1>1 DEF Apart
<1>2. CASE q = p
  <2>1. call'[r] = call[r]
    BY <1>2
  <2> QED
    BY <1>0, <1>2, <2>1 DEF Apart
<1>3. CASE r = p
  <2>1. call'[q] = call[q]
    BY <1>3
  <2> QED
    BY <1>0, <1>3, <2>1 DEF Apart
<1> QED
  BY <1>1, <1>2, <1>3

-----------------------------------------------------------------------------
(* Steps of the table and of the environment *)

(* What the proofs use of the types of one root.                            *)
LEMMA RootTypes ==
  ASSUME TypeOK, NEW k \in Keys
  PROVE  /\ captured[k] \in Nat /\ accepted[k] \in Nat
         /\ pg[k].ver \in Nat /\ pg[k].rev \in Nat
         /\ entry[k].pending.ver \in Nat /\ entry[k].pending.gen \in Nat
         /\ entry[k].seq \in Nat /\ entry[k].inc \in Nat /\ entry[k].known \in Nat
         /\ \A q \in Callers : /\ call[q].job[k].ver \in Nat /\ call[q].job[k].gen \in Nat
                               /\ call[q].saw[k] \in Nat /\ call[q].expected[k] \in Nat
<1>1. \A q \in Callers : /\ call[q].job[k].ver \in Nat /\ call[q].job[k].gen \in Nat
                         /\ call[q].saw[k] \in Nat /\ call[q].expected[k] \in Nat
  BY CallFields
<1> QED
  BY <1>1, EntryFields DEF Job

LEMMA DataMark ==
  ASSUME OwnersWait, WriteInv, DataInv, TypeOK', NEW k \in Keys, MarkDirty(k)
  PROVE  RootData(k)'
<1>1. /\ entry[k] \in Entry
      /\ entry'[k] = [entry[k] EXCEPT !.seq = entry[k].seq + 1,
                        !.pending = [gen |-> entry[k].seq + 1, ver |-> captured[k] + 1]]
  BY DEF MarkDirty, WriteInv, TypeOK
<1>2. /\ entry'[k].tracked = entry[k].tracked /\ entry'[k].inc = entry[k].inc
      /\ entry'[k].known = entry[k].known /\ entry'[k].blocked = entry[k].blocked
      /\ entry'[k].seq = entry[k].seq + 1
      /\ entry'[k].pending.gen = entry[k].seq + 1 /\ entry'[k].pending.ver = captured[k] + 1
  BY <1>1 DEF Entry
<1>3. /\ call' = call /\ pg' = pg
      /\ captured'[k] = captured[k] + 1 /\ accepted'[k] = captured[k] + 1
      /\ entry[k].tracked
  BY DEF MarkDirty, WriteInv, TypeOK
<1>4. TypeOK /\ RootData(k)
  BY DEF WriteInv, DataInv
<1>5. KeyData(k)'
  BY <1>2, <1>3, <1>4, RootTypes DEF RootData, KeyData, Covered, Pending
<1>6. ASSUME NEW q \in Callers PROVE CallData(q, k)'
  <2>1. ~Waiting(q, k) /\ ~Resolving(q, k)
    BY OwnerFreed DEF MarkDirty
  <2>2. WaitData(q, k)' /\ ResolveData(q, k)'
    BY <1>2, <1>3, <2>1 DEF WaitData, ResolveData, Waiting, Resolving, SameEntry
  <2>3. LookData(q, k)'
    BY <1>2, <1>3, <1>4, RootTypes DEF RootData, CallData, LookData
  <2>4. HoldData(q, k)'
    <3>1. Holding(q, k) => k \in call[q].part
      BY DEF Holding
    <3> QED
      BY <1>2, <1>3, <1>4, <3>1, RootTypes
         DEF RootData, CallData, HoldData, LookData, Holding, Answered, Pending
  <2> QED
    BY <2>2, <2>3, <2>4 DEF CallData
<1> QED
  BY <1>5, <1>6 DEF RootData

(* While the entry is not in the table, or leaves it, nobody has a snapshot *)
(* of the root that its current registration could write.                   *)
LEMMA DataTrack ==
  ASSUME WriteInv, DataInv, TypeOK', NEW k \in Keys, Track(k) \/ Untrack(k)
  PROVE  RootData(k)'
<1>1. call' = call /\ pg' = pg /\ captured' = captured
  BY DEF Track, Untrack
<1>2. TypeOK /\ RootData(k)
  BY DEF WriteInv, DataInv
<1>3. /\ entry'[k].pending = NoJob /\ entry'[k].inc >= entry[k].inc
      /\ entry'[k].tracked => /\ entry'[k].inc = entry[k].inc + 1
                              /\ accepted'[k] = pg[k].ver
  <2>1. CASE Track(k)
    <3>1. PICK r \in 0..pg[k].rev :
            entry' = [entry EXCEPT ![k] = [NoEntry(entry[k].inc + 1) EXCEPT
                                             !.tracked = TRUE, !.known = r]]
      BY <2>1 DEF Track
    <3>2. entry'[k] = [NoEntry(entry[k].inc + 1) EXCEPT !.tracked = TRUE, !.known = r]
      BY <1>2, <3>1 DEF TypeOK
    <3>3. accepted'[k] = pg[k].ver
      BY <1>2, <2>1 DEF Track, TypeOK
    <3> QED
      BY <1>2, <3>2, <3>3, RootTypes DEF NoEntry
  <2>2. CASE Untrack(k)
    <3>1. entry'[k] = NoEntry(entry[k].inc)
      BY <1>2, <2>2 DEF Untrack, TypeOK
    <3> QED
      BY <1>2, <3>1, RootTypes DEF NoEntry
  <2> QED
    BY <2>1, <2>2
<1>0. entry'[k].seq \in Nat /\ entry'[k].inc \in Nat
  BY DEF TypeOK, Entry
<1>4. KeyData(k)'
  <2>1. entry'[k].tracked => Covered(k)'
    BY <1>1, <1>2, <1>3, RootTypes DEF Covered
  <2> QED
    BY <1>0, <1>1, <1>2, <1>3, <2>1, RootTypes DEF RootData, KeyData, Pending, NoJob
<1>5. ASSUME NEW q \in Callers PROVE CallData(q, k)'
  <2>1. ~Holding(q, k)
    BY HolderOwns DEF Track, Untrack
  <2>2. HoldData(q, k)'
    BY <1>1, <2>1 DEF HoldData, Holding
  <2>3. LookData(q, k)'
    BY <1>0, <1>1, <1>2, <1>3, RootTypes DEF RootData, CallData, LookData
  <2>4. WaitData(q, k)'
    BY <1>1, <1>2, <1>3, RootTypes
       DEF RootData, CallData, LookData, WaitData, Waiting, SameEntry
  <2>5. ResolveData(q, k)'
    BY <1>1, <1>2 DEF RootData, CallData, ResolveData, Resolving
  <2> QED
    BY <2>2, <2>3, <2>4, <2>5 DEF CallData
<1> QED
  BY <1>4, <1>5 DEF RootData

LEMMA DataExternal ==
  ASSUME WriteInv, DataInv, TypeOK', NEW k \in Keys, ExternalCommit(k)
  PROVE  RootData(k)'
<1>1. /\ call' = call /\ entry' = entry /\ accepted' = accepted
      /\ captured'[k] = captured[k] + 1
      /\ pg'[k].rev = pg[k].rev + 1 /\ pg'[k].ver = captured[k] + 1
  BY DEF ExternalCommit, WriteInv, TypeOK
<1>2. TypeOK /\ RootData(k)
  BY DEF WriteInv, DataInv
<1>3. entry[k].tracked => entry[k].known # pg'[k].rev
  BY <1>1, <1>2, RootTypes, CommittedBound
<1>4. Covered(k) => accepted[k] <= captured[k]
  <2>1. \A q \in Callers : Saving(q, k) => call[q].job[k].ver <= captured[k]
    BY <1>2 DEF RootData, CallData, LookData, Saving, Writing
  <2> QED
    BY <1>2, <2>1, RootTypes DEF RootData, KeyData, Covered
<1>5. KeyData(k)'
  BY <1>1, <1>2, <1>3, <1>4, RootTypes DEF RootData, KeyData, Covered, Pending
<1>6. ASSUME NEW q \in Callers PROVE CallData(q, k)'
  <2>0. CallData(q, k)
    BY <1>2 DEF RootData
  <2>1. LookData(q, k)'
    BY <1>1, <1>2, <2>0, RootTypes DEF CallData, LookData
  <2>2. HoldData(q, k)'
    <3>1. Holding(q, k) /\ Answered(q) => call[q].expected[k] + 1 <= pg[k].rev
      BY DEF WriteInv, CallerInv, AnswersCommitted, Holding, Answered
    <3>2. Holding(q, k) => entry[k].tracked /\ call[q].job[k].ver <= captured[k]
      BY <2>0, HolderOwns DEF CallData, LookData, Holding
    <3> QED
      BY <1>1, <1>2, <1>3, <2>0, <3>1, <3>2, RootTypes
         DEF CallData, HoldData, Holding, Answered, Pending
  <2>3. WaitData(q, k)'
    BY <1>1, <1>3, <2>0 DEF CallData, WaitData, Waiting, SameEntry, Holding, Pending
  <2>4. ResolveData(q, k)'
    BY <1>1, <1>2, <2>0, RootTypes DEF RootData, KeyData, CallData, ResolveData, Resolving
  <2> QED
    BY <2>1, <2>2, <2>3, <2>4 DEF CallData
<1> QED
  BY <1>5, <1>6 DEF RootData

LEMMA DataTable ==
  ASSUME OwnersWait, WriteInv, DataInv, TypeOK', NEW k \in Keys,
         Track(k) \/ Untrack(k) \/ MarkDirty(k) \/ ExternalCommit(k)
  PROVE  DataInv'
<1>1. call' = call
  BY DEF Track, Untrack, MarkDirty, ExternalCommit
<1>2. OwnersApart'
  BY <1>1 DEF DataInv, OwnersApart, Apart
<1>3. ASSUME NEW j \in Keys PROVE RootData(j)'
  <2>1. CASE j = k
    BY <2>1, DataMark, DataTrack, DataExternal
  <2>2. CASE j # k
    <3>1. /\ entry'[j] = entry[j] /\ pg'[j] = pg[j]
          /\ accepted'[j] = accepted[j] /\ captured'[j] = captured[j]
      BY <2>2 DEF Track, Untrack, MarkDirty, ExternalCommit, WriteInv, TypeOK
    <3>2. Still(j) /\ captured[j] <= captured'[j]
      BY <3>1, RootTypes DEF Still, WriteInv
    <3> QED
      BY <1>1, <3>2, StillKeeps
  <2> QED
    BY <2>1, <2>2
<1> QED
  BY <1>2, <1>3 DEF DataInv

LEMMA DataCrash ==
  ASSUME WriteInv, DataInv, Crash
  PROVE  DataInv'
<1>1. OwnersApart'
  BY DEF Crash, NoCall, OwnersApart, Apart, Handing
<1>2. ASSUME NEW k \in Keys PROVE RootData(k)'
  <2>1. /\ \A q \in Callers : call'[q] = NoCall
        /\ entry'[k] = NoEntry(entry[k].inc) /\ pg' = pg /\ captured' = captured
    BY DEF Crash
  <2>2. /\ entry'[k].pending = NoJob /\ ~entry'[k].tracked /\ entry'[k].seq = 0
    BY <2>1 DEF NoEntry
  <2>3. pg[k].ver <= captured[k] /\ captured[k] \in Nat
    BY RootTypes DEF DataInv, RootData, KeyData, WriteInv
  <2>4. KeyData(k)'
    BY <2>1, <2>2, <2>3 DEF KeyData, NoJob
  <2>5. ASSUME NEW q \in Callers PROVE CallData(q, k)'
    BY <2>1 DEF NoCall, CallData, LookData, HoldData, WaitData, ResolveData, Holding, Waiting,
       Resolving
  <2> QED
    BY <2>4, <2>5 DEF RootData
<1> QED
  BY <1>1, <1>2 DEF DataInv

-----------------------------------------------------------------------------
(* Steps that begin an operation, wait for a gate or end a call *)

(* Nothing but p's call moves, and it takes on no snapshot it can write.    *)
LEMMA QuietKeeps ==
  ASSUME WriteInv, DataInv, TypeOK', NEW p \in Callers,
         entry' = entry, pg' = pg, accepted' = accepted, captured' = captured,
         \A q \in Callers \ {p} : call'[q] = call[q],
         \A k \in Keys : GoesOn(p, k) \/ (Bare(p, k) /\ ~Writing(p, k)),
         OwnersApart'
  PROVE  DataInv'
<1>1. ASSUME NEW k \in Keys PROVE RootData(k)'
  <2>1. Still(k)
    BY DEF Still
  <2>2. captured[k] <= captured'[k]
    BY RootTypes DEF WriteInv
  <2> QED
    BY <2>1, <2>2, StillKeeps
<1> QED
  BY <1>1 DEF DataInv

LEMMA DataIdle ==
  ASSUME WriteInv, DataInv, TypeOK', NEW p \in Callers,
         StartFlush(p) \/ FlushDone(p) \/ Cancelled(p) \/ Release(p)
  PROVE  DataInv'
<1>1. /\ entry' = entry /\ pg' = pg /\ accepted' = accepted /\ captured' = captured
      /\ call[p].pc \notin {"write", "acked"}
  BY DEF StartFlush, FlushDone, Cancelled, Release
<1>2. PICK c, T : /\ call' = [call EXCEPT ![p] = c]
                  /\ c = NoCall \/ c = [NoCall EXCEPT !.pc = "flush", !.todo = T]
  BY DEF StartFlush, FlushDone, Cancelled, Release
<1>3. call'[p] = c /\ \A q \in Callers \ {p} : call'[q] = call[q]
  BY <1>2 DEF WriteInv, TypeOK
<1>4. c.part = {} /\ c.op = "none"
  <2>1. CASE c = NoCall
    BY <2>1 DEF NoCall
  <2>2. CASE c = [NoCall EXCEPT !.pc = "flush", !.todo = T]
    BY <2>2 DEF NoCall
  <2> QED
    BY <1>2, <2>1, <2>2
<1>5. \A k \in Keys : Bare(p, k) /\ ~Writing(p, k)
  BY <1>1, <1>3, <1>4
     DEF Bare, Holding, Waiting, LookData, ResolveData, Resolving, Writing
<1>6. OwnersApart'
  BY <1>3, <1>4, ApartKeeps DEF DataInv, Handing
<1> QED
  BY <1>1, <1>3, <1>5, <1>6, QuietKeeps

LEMMA DataFlushNext ==
  ASSUME WriteInv, DataInv, TypeOK', NEW p \in Callers, FlushNext(p)
  PROVE  DataInv'
<1>1. PICK k \in call[p].todo :
        IF entry[k].tracked
        THEN call' = [call EXCEPT ![p] = [NoCall EXCEPT
                        !.pc = "gate", !.op = "save", !.todo = call[p].todo \ {k},
                        !.part = {k}, !.saw[k] = entry[k].inc]]
        ELSE call' = [call EXCEPT ![p] = [call[p] EXCEPT !.todo = call[p].todo \ {k}]]
  BY DEF FlushNext
<1>2. /\ entry' = entry /\ pg' = pg /\ accepted' = accepted /\ captured' = captured
      /\ call[p].pc = "flush" /\ k \in Keys /\ TypeOK
  BY CallFields DEF FlushNext, WriteInv
<1>3. \A q \in Callers \ {p} : call'[q] = call[q]
  <2>1. PICK c : call' = [call EXCEPT ![p] = c]
    BY <1>1
  <2> QED
    BY <2>1
<1>4. CASE entry[k].tracked
  <2>1. call'[p] = [NoCall EXCEPT !.pc = "gate", !.op = "save", !.todo = call[p].todo \ {k},
                                   !.part = {k}, !.saw[k] = entry[k].inc]
    BY <1>1, <1>2, <1>4 DEF TypeOK
  <2>2. /\ call'[p].pc = "gate" /\ call'[p].op = "save" /\ call'[p].part = {k}
        /\ call'[p].saw[k] = entry[k].inc /\ call'[p].job[k].ver = 0
    BY <1>2, <2>1 DEF NoCall, NoJob
  <2>3. \A j \in Keys : Bare(p, j) /\ ~Writing(p, j)
    BY <1>2, <2>2, RootTypes
       DEF Bare, Holding, Waiting, LookData, ResolveData, Resolving, Writing
  <2>4. OwnersApart'
    BY <1>3, <2>2, ApartKeeps DEF DataInv, Handing
  <2> QED
    BY <1>2, <1>3, <2>3, <2>4, QuietKeeps
<1>5. CASE ~entry[k].tracked
  <2>1. call'[p] = [call[p] EXCEPT !.todo = call[p].todo \ {k}] /\ call[p] \in Call
    BY <1>1, <1>2, <1>5 DEF TypeOK
  <2>2. /\ call'[p].pc = call[p].pc /\ call'[p].op = call[p].op
        /\ call'[p].part = call[p].part /\ call'[p].saw = call[p].saw
        /\ call'[p].job = call[p].job
    BY <2>1 DEF Call
  <2>3. \A j \in Keys : GoesOn(p, j)
    BY <1>2, <2>2 DEF GoesOn, Saving, Writing
  <2>4. OwnersApart'
    BY <1>3, <2>2, ApartKeeps DEF DataInv
  <2> QED
    BY <1>2, <1>3, <2>3, <2>4, QuietKeeps
<1> QED
  BY <1>4, <1>5

LEMMA DataAcquire ==
  ASSUME WriteInv, DataInv, TypeOK', NEW p \in Callers, Acquire(p)
  PROVE  DataInv'
<1>1. PICK H, w : /\ w \in {"gate", "owned"}
                  /\ call' = [call EXCEPT ![p] = [call[p] EXCEPT !.held = H, !.pc = w]]
  BY DEF Acquire
<1>2. /\ entry' = entry /\ pg' = pg /\ accepted' = accepted /\ captured' = captured
      /\ call[p].pc = "gate" /\ TypeOK
  BY DEF Acquire, WriteInv
<1>3. /\ \A q \in Callers \ {p} : call'[q] = call[q]
      /\ call'[p] = [call[p] EXCEPT !.held = H, !.pc = w] /\ call[p] \in Call
  BY <1>1, <1>2 DEF TypeOK
<1>4. /\ call'[p].pc = w /\ call'[p].op = call[p].op
      /\ call'[p].part = call[p].part /\ call'[p].saw = call[p].saw
      /\ call'[p].job = call[p].job
  BY <1>3 DEF Call
<1>5. \A k \in Keys : GoesOn(p, k)
  BY <1>1, <1>2, <1>4 DEF GoesOn, Saving, Writing
<1>6. OwnersApart'
  BY <1>3, <1>4, ApartKeeps DEF DataInv
<1> QED
  BY <1>2, <1>3, <1>5, <1>6, QuietKeeps

LEMMA DataStartResolve ==
  ASSUME OwnersWait, WriteInv, DataInv, TypeOK', NEW p \in Callers, NEW k \in Keys,
         StartResolve(p, k)
  PROVE  DataInv'
<1>1. /\ entry' = entry /\ pg' = pg /\ accepted' = accepted /\ captured' = captured
      /\ call[p].pc = "idle" /\ OwnerFree(k) /\ TypeOK /\ RootData(k)
      /\ call' = [call EXCEPT ![p] = [NoCall EXCEPT
                !.pc = "gate", !.op = "resolve", !.part = {k},
                !.saw[k] = entry[k].inc,
                !.job[k] = [gen |-> 0, ver |-> pg[k].ver],
                !.expected[k] = pg[k].rev]]
  BY DEF StartResolve, WriteInv, DataInv
<1>2. call'[p] = [NoCall EXCEPT
                !.pc = "gate", !.op = "resolve", !.part = {k},
                !.saw[k] = entry[k].inc,
                !.job[k] = [gen |-> 0, ver |-> pg[k].ver],
                !.expected[k] = pg[k].rev]
  BY <1>1 DEF TypeOK
<1>3. /\ call'[p].pc = "gate" /\ call'[p].op = "resolve" /\ call'[p].part = {k}
      /\ call'[p].saw[k] = entry[k].inc /\ call'[p].job[k].ver = pg[k].ver
  BY <1>2 DEF NoCall
<1>4. \A q \in Callers \ {p} : call'[q] = call[q]
  BY <1>1
<1>5. pg[k].ver <= captured[k]
  BY <1>1 DEF RootData, KeyData
<1>6. \A j \in Keys : Bare(p, j) /\ ~Writing(p, j)
  BY <1>1, <1>3, <1>5, RootTypes
     DEF Bare, Holding, Waiting, LookData, ResolveData, Resolving, Writing
<1>7. OwnersApart'
  <2>1. \A q \in Callers : ~(call[q].op \in Handing /\ k \in call[q].part)
    BY <1>1, OwnerFreed
  <2> QED
    BY <1>3, <1>4, <2>1, ApartKeeps DEF DataInv
<1> QED
  BY <1>1, <1>4, <1>6, <1>7, QuietKeeps

-----------------------------------------------------------------------------
(* Steps that capture a snapshot *)

(* The fields of a root of which p captures the next snapshot.              *)
Captures(p, k) ==
  /\ \A q \in Callers \ {p} : call'[q] = call[q]
  /\ call[p].pc = "idle"
  /\ entry[k].tracked
  /\ entry'[k].tracked = entry[k].tracked /\ entry'[k].inc = entry[k].inc
  /\ entry'[k].known = entry[k].known /\ entry'[k].pending = entry[k].pending
  /\ entry'[k].blocked = entry[k].blocked
  /\ pg'[k] = pg[k] /\ accepted'[k] = accepted[k]
  /\ captured'[k] = captured[k] + 1
  /\ call'[p].job[k].ver = captured[k] + 1
  /\ call'[p].saw[k] = entry[k].inc

LEMMA CapturesKeep ==
  ASSUME OwnersWait, WriteInv, DataInv, TypeOK', NEW p \in Callers, NEW k \in Keys,
         OwnerFree(k), Captures(p, k), entry[k].seq <= entry'[k].seq
  PROVE  /\ KeyData(k)'
         /\ \A q \in Callers \ {p} : CallData(q, k)'
         /\ LookData(p, k)'
<1>1. TypeOK /\ RootData(k)
  BY DEF WriteInv, DataInv
<1>2. entry'[k].seq \in Nat
  BY DEF TypeOK, Entry
<1>3. KeyData(k)'
  <2>1. ASSUME NEW q \in Callers, Saving(q, k)
        PROVE  Saving(q, k)' /\ call'[q].job[k] = call[q].job[k]
    <3>1. q # p
      BY <2>1 DEF Saving, Writing, Captures
    <3>2. call'[q] = call[q]
      BY <3>1 DEF Captures
    <3> QED
      BY <2>1, <3>2 DEF Saving, Writing
  <2>2. Covered(k) => Covered(k)'
    BY <2>1 DEF Covered, Captures, Pending
  <2> QED
    BY <1>1, <1>2, <2>2, RootTypes DEF RootData, KeyData, Captures, Pending
<1>4. ASSUME NEW q \in Callers \ {p} PROVE CallData(q, k)'
  <2>0. CallData(q, k) /\ call'[q] = call[q]
    BY <1>1 DEF RootData, Captures
  <2>1. ~Waiting(q, k) /\ ~Resolving(q, k)
    BY OwnerFreed
  <2>2. WaitData(q, k)' /\ ResolveData(q, k)'
    BY <2>0, <2>1 DEF WaitData, ResolveData, Waiting, Resolving, SameEntry, Captures
  <2>3. LookData(q, k)'
    BY <1>1, <2>0, RootTypes DEF CallData, LookData, Captures
  <2>4. HoldData(q, k)'
    BY <1>1, <1>2, <2>0, RootTypes
       DEF CallData, HoldData, Holding, Answered, Captures, Pending
  <2> QED
    BY <2>2, <2>3, <2>4 DEF CallData
<1>5. LookData(p, k)'
  BY <1>1, RootTypes DEF LookData, Captures
<1> QED
  BY <1>3, <1>4, <1>5

(* A caller that starts to wait has the newest snapshot there is.           *)
LEMMA WaiterKeeps ==
  ASSUME OwnersWait, WriteInv, DataInv, TypeOK', NEW p \in Callers, NEW k \in Keys,
         OwnerFree(k), Captures(p, k), entry[k].seq <= entry'[k].seq,
         call'[p].pc = "gate", call'[p].op \in {"through", "critical"},
         call'[p].op = "through" => 0 < call'[p].job[k].gen /\ call'[p].job[k].gen = entry'[k].seq
  PROVE  RootData(k)'
<1>1. TypeOK /\ RootData(k)
  BY DEF WriteInv, DataInv
<1>2. ~Holding(p, k)' /\ ~Resolving(p, k)'
  BY DEF Holding, Resolving
<1>3. ASSUME NEW q \in Callers, Holding(q, k)'
      PROVE  call'[q].job[k].ver < captured[k] + 1
  <2>1. q # p
    BY <1>2, <1>3
  <2>2. call'[q] = call[q]
    BY <2>1 DEF Captures
  <2>3. LookData(q, k) /\ k \in call[q].part
    BY <1>1, <1>3, <2>2 DEF RootData, CallData, Holding
  <2> QED
    BY <1>1, <2>2, <2>3, RootTypes DEF LookData
<1>4. WaitData(p, k)'
  <2>1. pg'[k].ver < captured[k] + 1 /\ entry'[k].pending.ver < captured[k] + 1
    BY <1>1, RootTypes DEF RootData, KeyData, Captures
  <2> QED
    BY <1>3, <2>1 DEF WaitData, Captures
<1>5. CallData(p, k)'
  BY <1>2, <1>4, CapturesKeep DEF CallData, HoldData, ResolveData
<1> QED
  BY <1>5, CapturesKeep DEF RootData

(* So has a caller that reserves.                                           *)
LEMMA ReserverKeeps ==
  ASSUME OwnersWait, WriteInv, DataInv, TypeOK', NEW p \in Callers, NEW k \in Keys,
         OwnerFree(k), Captures(p, k), entry'[k].seq = entry[k].seq + 1,
         call'[p].pc = "reserved", call'[p].op = "reserve",
         call'[p].job[k].gen = entry[k].seq + 1
  PROVE  RootData(k)'
<1>1. TypeOK /\ RootData(k)
  BY DEF WriteInv, DataInv
<1>2. ~Waiting(p, k)' /\ ~Resolving(p, k)'
  BY DEF Waiting, Resolving
<1>3. HoldData(p, k)'
  <2>1. /\ pg[k].ver < captured[k] + 1 /\ entry[k].pending.ver < captured[k] + 1
        /\ entry[k].pending.gen < entry[k].seq + 1
    BY <1>1, RootTypes DEF RootData, KeyData
  <2> QED
    BY <1>1, <2>1, RootTypes DEF HoldData, Answered, Captures
<1>4. entry[k].seq <= entry'[k].seq
  BY <1>1, RootTypes
<1>5. CallData(p, k)'
  BY <1>2, <1>3, <1>4, CapturesKeep DEF CallData, WaitData, ResolveData
<1> QED
  BY <1>4, <1>5, CapturesKeep DEF RootData

(* The other roots see nothing of a capture.                                *)
LEMMA ElsewhereKeeps ==
  ASSUME WriteInv, DataInv, TypeOK', NEW p \in Callers, NEW k \in Keys,
         \A q \in Callers \ {p} : call'[q] = call[q],
         call[p].pc \notin {"write", "acked"}, k \notin call'[p].part, Still(k),
         captured'[k] = captured[k]
  PROVE  RootData(k)'
<1>1. Bare(p, k) /\ ~Writing(p, k)
  BY DEF Bare, Holding, Waiting, LookData, ResolveData, Resolving, Writing
<1>2. captured[k] <= captured'[k]
  BY RootTypes DEF WriteInv
<1> QED
  BY <1>1, <1>2, StillKeeps

LEMMA DataStartThrough ==
  ASSUME OwnersWait, WriteInv, DataInv, TypeOK', NEW p \in Callers, NEW k \in Keys,
         StartWriteThrough(p, k)
  PROVE  DataInv'
<1>1. /\ call[p].pc = "idle" /\ OwnerFree(k) /\ TypeOK /\ entry[k].tracked
      /\ pg' = pg /\ accepted' = accepted
      /\ entry' = [entry EXCEPT ![k].seq = entry[k].seq + 1]
      /\ captured' = [captured EXCEPT ![k] = captured[k] + 1]
      /\ call' = [call EXCEPT ![p] = [NoCall EXCEPT
                !.pc = "gate", !.op = "through", !.part = {k},
                !.saw[k] = entry[k].inc,
                !.job[k] = [gen |-> entry[k].seq + 1, ver |-> captured[k] + 1]]]
  BY DEF StartWriteThrough, WriteInv
<1>2. call'[p] = [NoCall EXCEPT
                !.pc = "gate", !.op = "through", !.part = {k},
                !.saw[k] = entry[k].inc,
                !.job[k] = [gen |-> entry[k].seq + 1, ver |-> captured[k] + 1]]
  BY <1>1 DEF TypeOK
<1>3. /\ call'[p].pc = "gate" /\ call'[p].op = "through" /\ call'[p].part = {k}
      /\ call'[p].saw[k] = entry[k].inc /\ call'[p].job[k].ver = captured[k] + 1
      /\ call'[p].job[k].gen = entry[k].seq + 1
  BY <1>2 DEF NoCall
<1>4. \A q \in Callers \ {p} : call'[q] = call[q]
  BY <1>1
<1>5. entry[k] \in Entry /\ entry'[k] = [entry[k] EXCEPT !.seq = entry[k].seq + 1]
  BY <1>1 DEF TypeOK
<1>6. /\ entry'[k].tracked = entry[k].tracked /\ entry'[k].inc = entry[k].inc
      /\ entry'[k].known = entry[k].known /\ entry'[k].pending = entry[k].pending
      /\ entry'[k].blocked = entry[k].blocked /\ entry'[k].seq = entry[k].seq + 1
  BY <1>5 DEF Entry
<1>7. ASSUME NEW j \in Keys PROVE RootData(j)'
  <2>1. CASE j = k
    <3>1. captured'[k] = captured[k] + 1
      BY <1>1 DEF TypeOK
    <3>2. Captures(p, k)
      BY <1>1, <1>3, <1>4, <1>6, <3>1 DEF Captures
    <3>3. entry[k].seq <= entry'[k].seq /\ 0 < entry[k].seq + 1
      BY <1>1, <1>6, RootTypes
    <3> QED
      BY <1>1, <1>3, <1>6, <2>1, <3>2, <3>3, WaiterKeeps
  <2>2. CASE j # k
    <3>1. Still(j) /\ captured'[j] = captured[j]
      BY <1>1, <2>2 DEF Still
    <3> QED
      BY <1>1, <1>3, <1>4, <2>2, <3>1, ElsewhereKeeps
  <2> QED
    BY <2>1, <2>2
<1>8. OwnersApart'
  <2>1. \A q \in Callers : ~(call[q].op \in Handing /\ k \in call[q].part)
    BY <1>1, OwnerFreed
  <2> QED
    BY <1>3, <1>4, <2>1, ApartKeeps DEF DataInv
<1> QED
  BY <1>7, <1>8 DEF DataInv

LEMMA DataStartSet ==
  ASSUME OwnersWait, WriteInv, DataInv, TypeOK', NEW p \in Callers, NEW S \in SUBSET Keys,
         StartCriticalSet(p, S)
  PROVE  DataInv'
<1> DEFINE f == [k \in Keys |-> IF k \in S THEN entry[k].inc ELSE 0]
           g == [k \in Keys |-> IF k \in S THEN [gen |-> 0, ver |-> captured[k] + 1] ELSE NoJob]
<1>1. /\ call[p].pc = "idle" /\ TypeOK
      /\ \A k \in S : OwnerFree(k) /\ entry[k].tracked
      /\ entry' = entry /\ pg' = pg /\ accepted' = accepted
      /\ captured' = [k \in Keys |-> IF k \in S THEN captured[k] + 1 ELSE captured[k]]
      /\ call' = [call EXCEPT ![p] = [NoCall EXCEPT
                !.pc = "gate", !.op = "critical", !.part = S, !.saw = f, !.job = g]]
  BY DEF StartCriticalSet, WriteInv
<1>2. PICK F, G : F = f /\ G = g
  OBVIOUS
<1>3. /\ call'[p].pc = "gate" /\ call'[p].op = "critical" /\ call'[p].part = S
      /\ call'[p].saw = F /\ call'[p].job = G
  <2>1. call' = [call EXCEPT ![p] = [NoCall EXCEPT
                !.pc = "gate", !.op = "critical", !.part = S, !.saw = F, !.job = G]]
    BY <1>1, <1>2
  <2>2. call'[p] = [NoCall EXCEPT
                !.pc = "gate", !.op = "critical", !.part = S, !.saw = F, !.job = G]
    BY <1>1, <2>1 DEF TypeOK
  <2> QED
    BY <2>2 DEF NoCall
<1>4. \A q \in Callers \ {p} : call'[q] = call[q]
  <2>1. PICK c : call' = [call EXCEPT ![p] = c]
    BY <1>1
  <2> QED
    BY <2>1
<1>5. ASSUME NEW k \in Keys PROVE RootData(k)'
  <2>1. CASE k \in S
    <3>1. Captures(p, k)
      BY <1>1, <1>2, <1>3, <1>4, <2>1 DEF Captures
    <3>2. entry[k].seq <= entry'[k].seq
      BY <1>1, RootTypes
    <3> QED
      BY <1>1, <1>3, <2>1, <3>1, <3>2, WaiterKeeps
  <2>2. CASE k \notin S
    <3>1. Still(k) /\ captured'[k] = captured[k]
      BY <1>1, <2>2 DEF Still
    <3> QED
      BY <1>1, <1>3, <1>4, <2>2, <3>1, ElsewhereKeeps
  <2> QED
    BY <2>1, <2>2
<1>6. OwnersApart'
  <2>1. \A k \in S, q \in Callers : ~(call[q].op \in Handing /\ k \in call[q].part)
    BY <1>1, OwnerFreed
  <2> QED
    BY <1>3, <1>4, <2>1, ApartKeeps DEF DataInv
<1> QED
  BY <1>5, <1>6 DEF DataInv

(* A reservation refused for an exhausted revision fences and no more.      *)
LEMMA FenceStill ==
  ASSUME TypeOK, NEW S \in SUBSET Keys, Fence(S), pg' = pg, accepted' = accepted, NEW k \in Keys
  PROVE  Still(k)
<1>1. CASE k \in S
  <2>1. entry[k] \in Entry /\ entry'[k] = [entry[k] EXCEPT !.blocked = TRUE]
    BY <1>1 DEF Fence, TypeOK
  <2> QED
    BY <2>1 DEF Entry, Still
<1>2. CASE k \notin S
  BY <1>2 DEF Fence, Still
<1> QED
  BY <1>1, <1>2

LEMMA DataReserve ==
  ASSUME OwnersWait, WriteInv, DataInv, TypeOK', NEW p \in Callers, NEW S \in SUBSET Keys,
         Reserve(p, S)
  PROVE  DataInv'
<1> DEFINE f == [k \in Keys |-> IF k \in S THEN entry[k].inc ELSE 0]
           e == [k \in Keys |-> IF k \in S THEN entry[k].known ELSE 0]
           g == [k \in Keys |-> IF k \in S
                   THEN [gen |-> entry[k].seq + 1, ver |-> captured[k] + 1] ELSE NoJob]
<1>1. /\ call[p].pc = "idle" /\ TypeOK /\ pg' = pg /\ accepted' = accepted
      /\ \A k \in S : OwnerFree(k) /\ entry[k].tracked
  BY DEF Reserve, WriteInv
<1>2. CASE Fence(Maxed(S)) /\ call' = call /\ captured' = captured
  <2>1. Maxed(S) \in SUBSET Keys
    BY DEF Maxed
  <2>2. \A k \in Keys : Still(k) /\ captured[k] <= captured'[k]
    BY <1>1, <1>2, <2>1, FenceStill, RootTypes
  <2>3. \A k \in Keys : RootData(k)'
    BY <1>2, <2>2, StillKeeps
  <2>4. OwnersApart'
    BY <1>2 DEF DataInv, OwnersApart, Apart
  <2> QED
    BY <2>3, <2>4 DEF DataInv
<1>3. CASE /\ entry' = [k \in Keys |-> IF k \in S
                       THEN [entry[k] EXCEPT !.seq = entry[k].seq + 1, !.reserved = TRUE]
                       ELSE entry[k]]
           /\ captured' = [k \in Keys |-> IF k \in S THEN captured[k] + 1 ELSE captured[k]]
           /\ call' = [call EXCEPT ![p] = [NoCall EXCEPT
                      !.pc = "reserved", !.op = "reserve", !.part = S, !.held = S,
                      !.saw = f, !.expected = e, !.job = g]]
  <2>1. PICK F, E, G : F = f /\ E = e /\ G = g
    OBVIOUS
  <2>2. /\ call'[p].pc = "reserved" /\ call'[p].op = "reserve" /\ call'[p].part = S
        /\ call'[p].saw = F /\ call'[p].job = G
    <3>1. call' = [call EXCEPT ![p] = [NoCall EXCEPT
                      !.pc = "reserved", !.op = "reserve", !.part = S, !.held = S,
                      !.saw = F, !.expected = E, !.job = G]]
      BY <1>3, <2>1
    <3>2. call'[p] = [NoCall EXCEPT
                      !.pc = "reserved", !.op = "reserve", !.part = S, !.held = S,
                      !.saw = F, !.expected = E, !.job = G]
      BY <1>1, <3>1 DEF TypeOK
    <3> QED
      BY <3>2 DEF NoCall
  <2>3. \A q \in Callers \ {p} : call'[q] = call[q]
    <3>1. PICK c : call' = [call EXCEPT ![p] = c]
      BY <1>3
    <3> QED
      BY <3>1
  <2>4. ASSUME NEW k \in Keys PROVE RootData(k)'
    <3>1. CASE k \in S
      <4>1. /\ entry[k] \in Entry
            /\ entry'[k] = [entry[k] EXCEPT !.seq = entry[k].seq + 1, !.reserved = TRUE]
        BY <1>1, <1>3, <3>1 DEF TypeOK
      <4>2. /\ entry'[k].tracked = entry[k].tracked /\ entry'[k].inc = entry[k].inc
            /\ entry'[k].known = entry[k].known /\ entry'[k].pending = entry[k].pending
            /\ entry'[k].blocked = entry[k].blocked /\ entry'[k].seq = entry[k].seq + 1
        BY <4>1 DEF Entry
      <4>3. /\ captured'[k] = captured[k] + 1
            /\ call'[p].saw[k] = entry[k].inc
            /\ call'[p].job[k].ver = captured[k] + 1 /\ call'[p].job[k].gen = entry[k].seq + 1
        <5>1. F[k] = entry[k].inc /\ G[k] = [gen |-> entry[k].seq + 1, ver |-> captured[k] + 1]
          BY <2>1, <3>1
        <5>2. captured'[k] = captured[k] + 1
          BY <1>3, <3>1
        <5> QED
          BY <2>2, <5>1, <5>2
      <4>4. Captures(p, k)
        BY <1>1, <2>3, <3>1, <4>2, <4>3 DEF Captures
      <4> QED
        BY <1>1, <2>2, <3>1, <4>2, <4>3, <4>4, ReserverKeeps
    <3>2. CASE k \notin S
      <4>1. Still(k) /\ captured'[k] = captured[k]
        BY <1>1, <1>3, <3>2 DEF Still
      <4> QED
        BY <1>1, <2>2, <2>3, <3>2, <4>1, ElsewhereKeeps
    <3> QED
      BY <3>1, <3>2
  <2>5. OwnersApart'
    BY <2>2, <2>3, ApartKeeps DEF DataInv, Handing
  <2> QED
    BY <2>4, <2>5 DEF DataInv
<1> QED
  BY <1>2, <1>3 DEF Reserve

-----------------------------------------------------------------------------
(* Steps of the owner of a gate *)

LEMMA GiveUpFields ==
  ASSUME TypeOK, NEW p \in Callers, GiveUp(p)
  PROVE  /\ \A q \in Callers \ {p} : call'[q] = call[q]
         /\ call'[p].pc = "unlock" /\ call'[p].op = call[p].op
         /\ call'[p].part = call[p].part /\ call'[p].saw = call[p].saw
         /\ call'[p].job = call[p].job
<1>1. call[p] \in Call /\ call'[p] = [call[p] EXCEPT !.pc = "unlock"]
  BY DEF GiveUp, TypeOK
<1> QED
  BY <1>1 DEF GiveUp, TypeOK, Call

(* A caller that gives up before it writes leaves its roots alone.          *)
LEMMA StayKeeps ==
  ASSUME WriteInv, DataInv, TypeOK', NEW p \in Callers, GiveUp(p),
         call[p].pc \notin {"write", "acked"},
         captured' = captured, \A k \in Keys : Still(k)
  PROVE  DataInv'
<1>0. TypeOK
  BY DEF WriteInv
<1>1. \A k \in Keys : GoesOn(p, k)
  BY <1>0, GiveUpFields DEF GoesOn, Saving, Writing
<1>2. ASSUME NEW k \in Keys PROVE RootData(k)'
  <2>1. captured[k] <= captured'[k]
    BY <1>0, RootTypes
  <2>2. \A q \in Callers : call'[q] = call[q] \/ GoesOn(q, k)
    BY <1>0, <1>1, GiveUpFields
  <2> QED
    BY <2>1, <2>2, StillKeeps
<1>3. OwnersApart'
  BY <1>0, GiveUpFields, ApartKeeps DEF DataInv
<1> QED
  BY <1>2, <1>3 DEF DataInv

(* The other callers have no fixed snapshot of a root whose current gate    *)
(* is p's, and none of them waits to hand it over if p does that.           *)
LEMMA OthersAt ==
  ASSUME WriteInv, DataInv, NEW p \in Callers, NEW k \in Keys, k \in call[p].held,
         SameEntry(p, k), NEW q \in Callers, q # p, call'[q] = call[q],
         entry'[k].tracked = entry[k].tracked, entry'[k].inc = entry[k].inc,
         captured'[k] = captured[k]
  PROVE  /\ ~Holding(q, k) /\ ~Holding(q, k)' /\ HoldData(q, k)' /\ LookData(q, k)'
         /\ ~Saving(q, k)
         /\ k \in call[p].part /\ call[p].op \in Handing =>
              ~Waiting(q, k) /\ ~Resolving(q, k) /\ WaitData(q, k)' /\ ResolveData(q, k)'
<1>1. ~Holding(q, k)
  BY HolderAlone
<1>2. ~Holding(q, k)' /\ HoldData(q, k)' /\ ~Saving(q, k)
  BY <1>1 DEF Holding, HoldData, Saving, Writing
<1>3. LookData(q, k)'
  BY DEF DataInv, RootData, CallData, LookData
<1>4. ASSUME k \in call[p].part, call[p].op \in Handing
      PROVE  ~Waiting(q, k) /\ ~Resolving(q, k) /\ WaitData(q, k)' /\ ResolveData(q, k)'
  <2>1. call[q].op \in Handing => k \notin call[q].part
    BY <1>4 DEF DataInv, OwnersApart, Apart
  <2>2. ~Waiting(q, k) /\ ~Resolving(q, k)
    BY <2>1 DEF Waiting, Resolving, Handing
  <2>3. ~Waiting(q, k)' /\ ~Resolving(q, k)'
    BY <2>2 DEF Waiting, Resolving, SameEntry
  <2> QED
    BY <2>2, <2>3 DEF WaitData, ResolveData
<1> QED
  BY <1>1, <1>2, <1>3, <1>4

(* The fields of a call that becomes a writer, its snapshots among them.    *)
LEMMA WriterFields ==
  ASSUME TypeOK, NEW p \in Callers, NEW f, NEW g,
         call' = [call EXCEPT ![p] = [@ EXCEPT !.pc = "write", !.job = g, !.expected = f]]
  PROVE  /\ \A q \in Callers \ {p} : call'[q] = call[q]
         /\ call'[p].pc = "write" /\ call'[p].op = call[p].op
         /\ call'[p].part = call[p].part /\ call'[p].saw = call[p].saw
         /\ call'[p].job = g
<1>1. /\ call[p] \in Call
      /\ call'[p] = [call[p] EXCEPT !.pc = "write", !.job = g, !.expected = f]
      /\ \A q \in Callers \ {p} : call'[q] = call[q]
  BY DEF TypeOK
<1>2. PICK c, d : c = call[p] /\ d = call'[p]
  OBVIOUS
<1>3. c \in Call /\ d = [c EXCEPT !.pc = "write", !.job = g, !.expected = f]
  BY <1>1, <1>2
<1>4. /\ d.pc = "write" /\ d.op = c.op /\ d.part = c.part /\ d.saw = c.saw
      /\ d.job = g
  BY <1>3 DEF Call
<1> QED
  BY <1>1, <1>2, <1>4

(* The same for a call that has its snapshots already.                      *)
LEMMA ExecutorFields ==
  ASSUME TypeOK, NEW p \in Callers, NEW f,
         call' = [call EXCEPT ![p] = [@ EXCEPT !.pc = "write", !.expected = f]]
  PROVE  /\ \A q \in Callers \ {p} : call'[q] = call[q]
         /\ call'[p].pc = "write" /\ call'[p].op = call[p].op
         /\ call'[p].part = call[p].part /\ call'[p].saw = call[p].saw
         /\ call'[p].job = call[p].job
<1>1. /\ call[p] \in Call
      /\ call'[p] = [call[p] EXCEPT !.pc = "write", !.expected = f]
      /\ \A q \in Callers \ {p} : call'[q] = call[q]
  BY DEF TypeOK
<1>2. PICK c, d : c = call[p] /\ d = call'[p]
  OBVIOUS
<1>3. c \in Call /\ d = [c EXCEPT !.pc = "write", !.expected = f]
  BY <1>1, <1>2
<1>4. /\ d.pc = "write" /\ d.op = c.op /\ d.part = c.part /\ d.saw = c.saw
      /\ d.job = c.job
  BY <1>3 DEF Call
<1> QED
  BY <1>1, <1>2, <1>4

(* The roots a writer does not take part in see nothing of it.              *)
LEMMA AsideKeeps ==
  ASSUME WriteInv, DataInv, TypeOK', NEW p \in Callers, NEW k \in Keys,
         \A q \in Callers \ {p} : call'[q] = call[q],
         k \notin call[p].part, call'[p].part = call[p].part,
         Still(k), captured'[k] = captured[k]
  PROVE  RootData(k)'
<1>1. Bare(p, k) /\ ~Writing(p, k)
  BY DEF Bare, Holding, Waiting, LookData, ResolveData, Resolving, Writing
<1>2. captured[k] <= captured'[k]
  BY RootTypes DEF WriteInv
<1> QED
  BY <1>1, <1>2, StillKeeps

LEMMA EntryTaken ==
  ASSUME NEW e \in Entry, NEW f, f = [e EXCEPT !.pending = NoJob, !.inflight = TRUE]
  PROVE  /\ f.tracked = e.tracked /\ f.inc = e.inc /\ f.known = e.known /\ f.seq = e.seq
         /\ f.pending = NoJob /\ f.blocked = e.blocked
  BY DEF Entry

(* saveOne takes the pending snapshot out of the entry: it is in the        *)
(* writer's hand now, and every waiting snapshot is newer.                  *)
LEMMA DataSaveBegins ==
  ASSUME WriteInv, DataInv, TypeOK', NEW p \in Callers, NEW k \in Keys,
         call[p].pc = "owned", call[p].op = "save", call[p].part = {k},
         SameEntry(p, k), ~entry[k].blocked, Pending(k),
         entry' = [entry EXCEPT ![k] = [@ EXCEPT !.pending = NoJob, !.inflight = TRUE]],
         \A q \in Callers \ {p} : call'[q] = call[q],
         call'[p].pc = "write", call'[p].op = call[p].op, call'[p].part = call[p].part,
         call'[p].saw = call[p].saw, call'[p].job[k] = entry[k].pending,
         pg' = pg, captured' = captured, accepted' = accepted
  PROVE  DataInv'
<1>1. /\ TypeOK /\ RootData(k) /\ k \in call[p].held /\ entry[k].tracked
  BY DEF WriteInv, CallerInv, ShapeOf, DataInv, SameEntry
<1>2. entry[k] \in Entry /\ entry'[k] = [entry[k] EXCEPT !.pending = NoJob, !.inflight = TRUE]
  BY <1>1 DEF TypeOK
<1>3. /\ entry'[k].tracked = entry[k].tracked /\ entry'[k].inc = entry[k].inc
      /\ entry'[k].known = entry[k].known /\ entry'[k].seq = entry[k].seq
      /\ entry'[k].pending = NoJob /\ entry'[k].blocked = entry[k].blocked
  BY <1>2, EntryTaken
<1>4. ~Pending(k)' /\ entry'[k].pending.ver = 0 /\ entry'[k].pending.gen = 0
  BY <1>3 DEF Pending, NoJob
<1>5. \A q \in Callers : q # p =>
        /\ ~Holding(q, k) /\ ~Holding(q, k)' /\ HoldData(q, k)' /\ LookData(q, k)'
        /\ ~Saving(q, k)
  BY <1>1, <1>3, OthersAt
<1>6. Saving(p, k)' /\ ~Saving(p, k)
  BY DEF Saving, Writing
<1>7. KeyData(k)'
  <2>1. Covered(k) => Covered(k)'
    BY <1>5, <1>6 DEF Covered
  <2> QED
    BY <1>1, <1>3, <1>4, <2>1, RootTypes DEF RootData, KeyData
<1>8. CallData(p, k)'
  <2>1. ~Waiting(p, k)' /\ ~Resolving(p, k)'
    BY DEF Waiting, Resolving
  <2>2. LookData(p, k)'
    BY <1>1, <1>3, RootTypes DEF RootData, KeyData, CallData, LookData
  <2>3. HoldData(p, k)'
    <3>1. 0 < entry[k].pending.gen
      BY <1>1, RootTypes DEF Pending
    <3> QED
      BY <1>1, <1>3, <1>4, <3>1, RootTypes DEF RootData, KeyData, HoldData, Answered, Pending
  <2> QED
    BY <2>1, <2>2, <2>3 DEF CallData, WaitData, ResolveData
<1>9. ASSUME NEW q \in Callers, q # p PROVE CallData(q, k)'
  <2>0. CallData(q, k) /\ call'[q] = call[q]
    BY <1>1, <1>9 DEF RootData
  <2>1. WaitData(q, k)'
    <3>1. Waiting(q, k)' => Waiting(q, k)
      BY <1>3, <2>0 DEF Waiting, SameEntry
    <3>2. ASSUME NEW r \in Callers, Holding(r, k)', Waiting(q, k)
          PROVE  call'[r].job[k].ver < call[q].job[k].ver
      <4>1. r = p
        BY <1>5, <3>2
      <4> QED
        BY <2>0, <3>2, <4>1 DEF CallData, WaitData
    <3> QED
      BY <1>3, <1>4, <2>0, <3>1, <3>2 DEF CallData, WaitData
  <2>2. ResolveData(q, k)'
    BY <2>0 DEF CallData, ResolveData, Resolving
  <2> QED
    BY <1>5, <1>9, <2>1, <2>2 DEF CallData
<1>10. RootData(k)'
  BY <1>7, <1>8, <1>9 DEF RootData
<1>11. ASSUME NEW j \in Keys, j # k PROVE RootData(j)'
  <2>1. Still(j)
    BY <1>11 DEF Still
  <2> QED
    BY <1>11, <2>1, AsideKeeps
<1>12. OwnersApart'
  BY ApartKeeps DEF DataInv
<1> QED
  BY <1>10, <1>11, <1>12 DEF DataInv

(* A write-through or a critical set turns its waiting snapshot into a      *)
(* written one; the set's generation is the newest as its version is.       *)
LEMMA DataWaiterBegins ==
  ASSUME WriteInv, DataInv, TypeOK', NEW p \in Callers, NEW k \in call[p].part,
         call[p].pc = "owned", call[p].op \in {"through", "critical"},
         SameEntry(p, k),
         entry'[k].tracked = entry[k].tracked, entry'[k].inc = entry[k].inc,
         entry'[k].known = entry[k].known, entry'[k].pending = entry[k].pending,
         entry'[k].blocked = entry[k].blocked, entry[k].seq <= entry'[k].seq,
         \A q \in Callers \ {p} : call'[q] = call[q],
         call'[p].pc = "write", call'[p].op = call[p].op, call'[p].part = call[p].part,
         call'[p].saw = call[p].saw, call'[p].job[k].ver = call[p].job[k].ver,
         0 < call'[p].job[k].gen, call'[p].job[k].gen = entry'[k].seq,
         pg' = pg, captured' = captured, accepted' = accepted
  PROVE  RootData(k)'
<1>1. /\ TypeOK /\ k \in Keys /\ k \in call[p].held
  BY CallFields DEF WriteInv, CallerInv, ShapeOf
<1>2. RootData(k) /\ CallData(p, k) /\ entry'[k].seq \in Nat /\ Waiting(p, k)
  BY <1>1 DEF DataInv, RootData, TypeOK, Entry, Waiting
<1>3. \A q \in Callers : q # p =>
        /\ ~Holding(q, k) /\ HoldData(q, k)' /\ LookData(q, k)' /\ ~Saving(q, k)
        /\ WaitData(q, k)' /\ ResolveData(q, k)'
  BY <1>1, OthersAt DEF Handing
<1>4. KeyData(k)'
  <2>0. ~Saving(p, k)
    BY DEF Saving, Writing
  <2>1. Covered(k) => Covered(k)'
    BY <1>3, <2>0 DEF Covered, Pending
  <2> QED
    BY <1>1, <1>2, <2>1, RootTypes DEF RootData, KeyData, Pending
<1>5. CallData(p, k)'
  <2>1. ~Waiting(p, k)' /\ ~Resolving(p, k)'
    BY DEF Waiting, Resolving
  <2>2. LookData(p, k)'
    BY <1>2 DEF CallData, LookData
  <2>3. HoldData(p, k)'
    BY <1>1, <1>2, RootTypes DEF RootData, KeyData, CallData, WaitData, HoldData, Answered, Pending
  <2> QED
    BY <2>1, <2>2, <2>3 DEF CallData, WaitData, ResolveData
<1> QED
  BY <1>3, <1>4, <1>5 DEF RootData, CallData

LEMMA DataEnterSave ==
  ASSUME WriteInv, DataInv, TypeOK', NEW p \in Callers, EnterSave(p)
  PROVE  DataInv'
<1> DEFINE f(k) == [call[p].expected EXCEPT ![k] = entry[k].known]
           g(k) == [call[p].job EXCEPT ![k] = entry[k].pending]
<1>1. PICK k \in call[p].part :
        \/ GiveUp(p) /\ UNCHANGED entry
        \/ GiveUp(p) /\ Fence({k})
        \/ /\ SameEntry(p, k) /\ ~entry[k].blocked /\ Pending(k)
           /\ entry' = [entry EXCEPT ![k] = [@ EXCEPT !.pending = NoJob, !.inflight = TRUE]]
           /\ call' = [call EXCEPT ![p] = [@ EXCEPT !.pc = "write", !.job = g(k),
                                                    !.expected = f(k)]]
  BY DEF EnterSave
<1>2. /\ call[p].pc = "owned" /\ call[p].op = "save" /\ pg' = pg /\ captured' = captured
      /\ accepted' = accepted /\ TypeOK /\ k \in Keys /\ call[p].part = {k}
  BY CallFields DEF EnterSave, WriteInv, CallerInv, ShapeOf
<1>3. CASE GiveUp(p) /\ UNCHANGED entry
  <2>1. \A j \in Keys : Still(j)
    BY <1>2, <1>3 DEF Still
  <2> QED
    BY <1>2, <1>3, <2>1, StayKeeps
<1>4. CASE GiveUp(p) /\ Fence({k})
  <2>1. \A j \in Keys : Still(j)
    BY <1>2, <1>4, FenceStill
  <2> QED
    BY <1>2, <1>4, <2>1, StayKeeps
<1>5. CASE /\ SameEntry(p, k) /\ ~entry[k].blocked /\ Pending(k)
           /\ entry' = [entry EXCEPT ![k] = [@ EXCEPT !.pending = NoJob, !.inflight = TRUE]]
           /\ call' = [call EXCEPT ![p] = [@ EXCEPT !.pc = "write", !.job = g(k),
                                                    !.expected = f(k)]]
  <2>1. PICK F, G : F = f(k) /\ G = g(k)
    OBVIOUS
  <2>2. G[k] = entry[k].pending
    BY <1>2, <2>1, CallFields
  <2>3. /\ \A q \in Callers \ {p} : call'[q] = call[q]
        /\ call'[p].pc = "write" /\ call'[p].op = call[p].op
        /\ call'[p].part = call[p].part /\ call'[p].saw = call[p].saw
        /\ call'[p].job = G
    <3>1. call' = [call EXCEPT ![p] = [@ EXCEPT !.pc = "write", !.job = G, !.expected = F]]
      BY <1>5, <2>1
    <3> QED
      BY <1>2, <3>1, WriterFields
  <2> QED
    BY <1>2, <1>5, <2>2, <2>3, DataSaveBegins
<1> QED
  BY <1>1, <1>3, <1>4, <1>5

LEMMA DataEnterThrough ==
  ASSUME WriteInv, DataInv, TypeOK', NEW p \in Callers, EnterWriteThrough(p)
  PROVE  DataInv'
<1> DEFINE f(k) == [call[p].expected EXCEPT ![k] = entry[k].known]
<1>1. PICK k \in call[p].part :
        \/ GiveUp(p) /\ UNCHANGED entry
        \/ GiveUp(p) /\ Fence({k})
        \/ /\ SameEntry(p, k)
           /\ entry' = [entry EXCEPT ![k] = [entry[k] EXCEPT !.inflight = TRUE]]
           /\ call' = [call EXCEPT ![p] = [@ EXCEPT !.pc = "write", !.expected = f(k)]]
  BY DEF EnterWriteThrough
<1>2. /\ call[p].pc = "owned" /\ call[p].op = "through" /\ pg' = pg /\ captured' = captured
      /\ accepted' = accepted /\ TypeOK /\ k \in Keys /\ call[p].part = {k}
  BY CallFields DEF EnterWriteThrough, WriteInv, CallerInv, ShapeOf
<1>3. CASE GiveUp(p) /\ UNCHANGED entry
  <2>1. \A j \in Keys : Still(j)
    BY <1>2, <1>3 DEF Still
  <2> QED
    BY <1>2, <1>3, <2>1, StayKeeps
<1>4. CASE GiveUp(p) /\ Fence({k})
  <2>1. \A j \in Keys : Still(j)
    BY <1>2, <1>4, FenceStill
  <2> QED
    BY <1>2, <1>4, <2>1, StayKeeps
<1>5. CASE /\ SameEntry(p, k)
           /\ entry' = [entry EXCEPT ![k] = [entry[k] EXCEPT !.inflight = TRUE]]
           /\ call' = [call EXCEPT ![p] = [@ EXCEPT !.pc = "write", !.expected = f(k)]]
  <2>1. PICK F : F = f(k)
    OBVIOUS
  <2>2. /\ \A q \in Callers \ {p} : call'[q] = call[q]
        /\ call'[p].pc = "write" /\ call'[p].op = call[p].op
        /\ call'[p].part = call[p].part /\ call'[p].saw = call[p].saw
        /\ call'[p].job = call[p].job
    <3>1. call' = [call EXCEPT ![p] = [@ EXCEPT !.pc = "write", !.expected = F]]
      BY <1>5, <2>1
    <3> QED
      BY <1>2, <3>1, ExecutorFields
  <2>3. entry[k] \in Entry /\ entry'[k] = [entry[k] EXCEPT !.inflight = TRUE]
    BY <1>2, <1>5 DEF TypeOK
  <2>4. /\ entry'[k].tracked = entry[k].tracked /\ entry'[k].inc = entry[k].inc
        /\ entry'[k].known = entry[k].known /\ entry'[k].pending = entry[k].pending
        /\ entry'[k].blocked = entry[k].blocked /\ entry'[k].seq = entry[k].seq
    BY <2>3 DEF Entry
  <2>5. 0 < call[p].job[k].gen /\ call[p].job[k].gen = entry[k].seq
    BY <1>2, <1>5 DEF DataInv, RootData, CallData, WaitData, Waiting
  <2>6. RootData(k)'
    <3>1. entry[k].seq <= entry'[k].seq
      BY <1>2, <2>4, RootTypes
    <3> QED
      BY <1>2, <1>5, <2>1, <2>2, <2>4, <2>5, <3>1, DataWaiterBegins
  <2>7. ASSUME NEW j \in Keys, j # k PROVE RootData(j)'
    <3>1. Still(j)
      BY <1>2, <1>5, <2>7 DEF Still
    <3> QED
      BY <1>2, <2>2, <2>7, <3>1, AsideKeeps
  <2>8. OwnersApart'
    BY <2>2, ApartKeeps DEF DataInv
  <2> QED
    BY <2>6, <2>7, <2>8 DEF DataInv
<1> QED
  BY <1>1, <1>3, <1>4, <1>5

LEMMA DataEnterSet ==
  ASSUME WriteInv, DataInv, TypeOK', NEW p \in Callers, EnterCriticalSet(p)
  PROVE  DataInv'
<1> DEFINE S == call[p].part
           f == [k \in Keys |-> IF k \in S THEN entry[k].known ELSE 0]
           g == [k \in Keys |-> IF k \in S
                   THEN [gen |-> entry[k].seq + 1, ver |-> call[p].job[k].ver] ELSE NoJob]
<1>1. /\ call[p].pc = "owned" /\ call[p].op = "critical" /\ pg' = pg /\ captured' = captured
      /\ accepted' = accepted /\ TypeOK /\ S \in SUBSET Keys /\ Maxed(S) \in SUBSET Keys
  BY CallFields DEF EnterCriticalSet, WriteInv, Maxed
<1>2. CASE GiveUp(p) /\ UNCHANGED entry
  <2>1. \A j \in Keys : Still(j)
    BY <1>1, <1>2 DEF Still
  <2> QED
    BY <1>1, <1>2, <2>1, StayKeeps
<1>3. CASE GiveUp(p) /\ Fence(Maxed(S))
  <2>1. \A j \in Keys : Still(j)
    BY <1>1, <1>3, FenceStill
  <2> QED
    BY <1>1, <1>3, <2>1, StayKeeps
<1>4. CASE /\ \A k \in S : SameEntry(p, k)
           /\ entry' = [k \in Keys |-> IF k \in S
                          THEN [entry[k] EXCEPT !.seq = entry[k].seq + 1, !.inflight = TRUE]
                          ELSE entry[k]]
           /\ call' = [call EXCEPT ![p] = [@ EXCEPT !.pc = "write", !.job = g, !.expected = f]]
  <2>1. PICK F, G : F = f /\ G = g
    OBVIOUS
  <2>2. /\ \A q \in Callers \ {p} : call'[q] = call[q]
        /\ call'[p].pc = "write" /\ call'[p].op = call[p].op
        /\ call'[p].part = S /\ call'[p].saw = call[p].saw
        /\ call'[p].job = G
    <3>1. call' = [call EXCEPT ![p] = [@ EXCEPT !.pc = "write", !.job = G, !.expected = F]]
      BY <1>4, <2>1
    <3> QED
      BY <1>1, <3>1, WriterFields
  <2>3. ASSUME NEW k \in Keys PROVE RootData(k)'
    <3>1. CASE k \in S
      <4>1. /\ entry[k] \in Entry
            /\ entry'[k] = [entry[k] EXCEPT !.seq = entry[k].seq + 1, !.inflight = TRUE]
        BY <1>1, <1>4, <3>1 DEF TypeOK
      <4>2. /\ entry'[k].tracked = entry[k].tracked /\ entry'[k].inc = entry[k].inc
            /\ entry'[k].known = entry[k].known /\ entry'[k].pending = entry[k].pending
            /\ entry'[k].blocked = entry[k].blocked /\ entry'[k].seq = entry[k].seq + 1
        BY <4>1 DEF Entry
      <4>3. G[k] = [gen |-> entry[k].seq + 1, ver |-> call[p].job[k].ver]
        BY <2>1, <3>1
      <4>4. /\ call'[p].job[k].ver = call[p].job[k].ver
            /\ call'[p].job[k].gen = entry'[k].seq
        BY <2>2, <4>2, <4>3
      <4>5. entry[k].seq <= entry'[k].seq /\ 0 < call'[p].job[k].gen
        BY <1>1, <4>2, <4>4, RootTypes
      <4> QED
        BY <1>1, <1>4, <2>2, <3>1, <4>2, <4>4, <4>5, DataWaiterBegins
    <3>2. CASE k \notin S
      <4>1. Still(k)
        BY <1>1, <1>4, <3>2 DEF Still
      <4> QED
        BY <1>1, <2>2, <3>2, <4>1, AsideKeeps
    <3> QED
      BY <3>1, <3>2
  <2>4. OwnersApart'
    BY <2>2, ApartKeeps DEF DataInv
  <2> QED
    BY <2>3, <2>4 DEF DataInv
<1> QED
  BY <1>2, <1>3, <1>4 DEF EnterCriticalSet

(* A resolve takes over the committed row it read: nobody wrote it since.   *)
LEMMA DataResolve ==
  ASSUME WriteInv, DataInv, TypeOK', NEW p \in Callers, ApplyResolve(p)
  PROVE  DataInv'
<1>1. PICK k \in call[p].part :
        \/ UNCHANGED <<entry, accepted>>
        \/ /\ SameEntry(p, k)
           /\ entry' = [entry EXCEPT ![k] = [@ EXCEPT
                          !.known = call[p].expected[k], !.blocked = FALSE, !.pending = NoJob]]
           /\ accepted' = [accepted EXCEPT ![k] = call[p].job[k].ver]
  BY DEF ApplyResolve
<1>2. /\ call[p].pc = "owned" /\ call[p].op = "resolve" /\ pg' = pg /\ captured' = captured
      /\ GiveUp(p) /\ TypeOK /\ k \in Keys /\ call[p].part = {k} /\ call[p].held = {k}
      /\ RootData(k)
  BY CallFields DEF ApplyResolve, WriteInv, CallerInv, ShapeOf, DataInv
<1>3. CASE UNCHANGED <<entry, accepted>>
  <2>1. \A j \in Keys : Still(j)
    BY <1>2, <1>3 DEF Still
  <2> QED
    BY <1>2, <1>3, <2>1, StayKeeps
<1>4. CASE /\ SameEntry(p, k)
           /\ entry' = [entry EXCEPT ![k] = [@ EXCEPT
                          !.known = call[p].expected[k], !.blocked = FALSE, !.pending = NoJob]]
           /\ accepted' = [accepted EXCEPT ![k] = call[p].job[k].ver]
  <2>1. /\ entry'[k].tracked = entry[k].tracked /\ entry'[k].inc = entry[k].inc
        /\ entry'[k].seq = entry[k].seq /\ entry'[k].pending = NoJob
        /\ entry'[k].seq \in Nat
    <3>1. PICK n, e, f : n = call[p].expected[k] /\ e = entry[k] /\ f = entry'[k]
      OBVIOUS
    <3>2. e \in Entry /\ f = [e EXCEPT !.known = n, !.blocked = FALSE, !.pending = NoJob]
      BY <1>2, <1>4, <3>1 DEF TypeOK
    <3>3. /\ f.tracked = e.tracked /\ f.inc = e.inc /\ f.seq = e.seq /\ f.seq \in Nat
          /\ f.pending = NoJob
      BY <3>2 DEF Entry
    <3> QED
      BY <3>1, <3>3
  <2>2. accepted'[k] = call[p].job[k].ver
    BY <1>2, <1>4 DEF TypeOK
  <2>3. /\ \A q \in Callers \ {p} : call'[q] = call[q]
        /\ call'[p].pc = "unlock" /\ call'[p].op = call[p].op
        /\ call'[p].part = call[p].part /\ call'[p].saw = call[p].saw
        /\ call'[p].job = call[p].job
    BY <1>2, GiveUpFields
  <2>4. KeyData(k)'
    <3>1. call[p].job[k].ver <= pg[k].ver
      BY <1>2 DEF RootData, CallData, ResolveData, Resolving
    <3> QED
      BY <1>2, <2>1, <2>2, <3>1, RootTypes DEF RootData, KeyData, Covered, Pending, NoJob
  <2>5. CallData(p, k)'
    <3>1. ~Holding(p, k)' /\ ~Waiting(p, k)' /\ ~Resolving(p, k)'
      BY <2>3 DEF Holding, Waiting, Resolving
    <3>2. LookData(p, k)'
      BY <1>2, <2>1, <2>3 DEF RootData, CallData, LookData
    <3> QED
      BY <3>1, <3>2 DEF CallData, HoldData, WaitData, ResolveData
  <2>6. \A q \in Callers : q # p => CallData(q, k)'
    BY <1>2, <1>4, <2>1, <2>3, OthersAt DEF Handing, CallData
  <2>7. RootData(k)'
    BY <2>4, <2>5, <2>6 DEF RootData
  <2>8. ASSUME NEW j \in Keys, j # k PROVE RootData(j)'
    <3>1. Still(j)
      BY <1>2, <1>4, <2>8 DEF Still
    <3> QED
      BY <1>2, <2>3, <2>8, <3>1, AsideKeeps
  <2>9. OwnersApart'
    BY <2>3, ApartKeeps DEF DataInv
  <2> QED
    BY <2>7, <2>8, <2>9 DEF DataInv
<1> QED
  BY <1>1, <1>3, <1>4

LEMMA DataReserved ==
  ASSUME WriteInv, DataInv, TypeOK', NEW p \in Callers,
         CancelReservation(p) \/ ExecuteReservation(p)
  PROVE  DataInv'
<1> DEFINE S == call[p].part
           f == [k \in Keys |-> IF k \in S THEN entry[k].known ELSE 0]
<1>1. /\ call[p].pc = "reserved" /\ pg' = pg /\ captured' = captured
      /\ accepted' = accepted /\ TypeOK
  BY DEF CancelReservation, ExecuteReservation, WriteInv
<1>2. ASSUME NEW k \in Keys PROVE Still(k)
  <2>1. CASE k \in S
    <3>1. /\ entry[k] \in Entry
          /\ \/ entry'[k] = [entry[k] EXCEPT !.reserved = FALSE]
             \/ entry'[k] = [entry[k] EXCEPT !.reserved = FALSE, !.inflight = TRUE]
      BY <1>1, <2>1 DEF CancelReservation, Unreserve, ExecuteReservation, TypeOK
    <3>2. /\ entry'[k].tracked = entry[k].tracked /\ entry'[k].inc = entry[k].inc
          /\ entry'[k].known = entry[k].known /\ entry'[k].pending = entry[k].pending
          /\ entry'[k].blocked = entry[k].blocked /\ entry'[k].seq = entry[k].seq
      BY <3>1 DEF Entry
    <3> QED
      BY <1>1, <3>2 DEF Still
  <2>2. CASE k \notin S
    <3>1. entry'[k] = entry[k]
      BY <2>2 DEF CancelReservation, Unreserve, ExecuteReservation
    <3> QED
      BY <1>1, <3>1 DEF Still
  <2> QED
    BY <2>1, <2>2
<1>3. CASE CancelReservation(p)
  BY <1>1, <1>2, <1>3, StayKeeps DEF CancelReservation
<1>4. CASE ExecuteReservation(p)
  <2>1. PICK F : F = f
    OBVIOUS
  <2>2. /\ \A q \in Callers \ {p} : call'[q] = call[q]
        /\ call'[p].pc = "write" /\ call'[p].op = call[p].op
        /\ call'[p].part = call[p].part /\ call'[p].saw = call[p].saw
        /\ call'[p].job = call[p].job
    <3>1. call' = [call EXCEPT ![p] = [@ EXCEPT !.pc = "write", !.expected = F]]
      BY <1>4, <2>1 DEF ExecuteReservation
    <3> QED
      BY <1>1, <3>1, ExecutorFields
  <2>3. \A k \in Keys : GoesOn(p, k)
    BY <1>1, <2>1, <2>2 DEF GoesOn, Saving, Writing, Answered
  <2>4. ASSUME NEW k \in Keys PROVE RootData(k)'
    <3>1. captured[k] <= captured'[k]
      BY <1>1, RootTypes
    <3> QED
      BY <1>2, <2>2, <2>3, <3>1, StillKeeps
  <2>5. OwnersApart'
    BY <2>2, ApartKeeps DEF DataInv
  <2> QED
    BY <2>4, <2>5 DEF DataInv
<1> QED
  BY <1>3, <1>4

-----------------------------------------------------------------------------
(* The write and its outcome *)

(* A writer expects what is known, so when its compare-and-set succeeds the *)
(* row is the one the saver knows, and the snapshot it installs is newer.   *)
LEMMA CommitsNewer ==
  ASSUME WriteInv, DataInv, NEW p \in Callers, NEW k \in call[p].part,
         call[p].pc = "write", pg[k].rev = call[p].expected[k]
  PROVE  /\ pg[k].ver < call[p].job[k].ver
         /\ call[p].job[k].ver <= captured[k]
<1>1. k \in Keys
  BY CallFields DEF WriteInv
<1>2. Holding(p, k) /\ Writing(p, k) /\ ~Answered(p)
  BY DEF Holding, Writing, Answered
<1>3. entry[k].known = pg[k].rev
  BY <1>1, <1>2 DEF WriteInv, CallerInv, WriterCurrent
<1> QED
  BY <1>1, <1>2, <1>3 DEF DataInv, RootData, CallData, HoldData, LookData

LEMMA DataCommit ==
  ASSUME WriteInv, DataInv, TypeOK', NEW p \in Callers, NEW k \in call[p].part,
         call[p].pc = "write", pg[k].rev = call[p].expected[k],
         pg'[k] = [rev |-> pg[k].rev + 1, ver |-> call[p].job[k].ver],
         \A q \in Callers \ {p} : call'[q] = call[q],
         call'[p].pc = "acked", call'[p].op = call[p].op, call'[p].part = call[p].part,
         call'[p].saw = call[p].saw, call'[p].job = call[p].job,
         entry' = entry, captured' = captured, accepted' = accepted
  PROVE  RootData(k)'
<1>1. /\ k \in Keys /\ TypeOK /\ Holding(p, k) /\ Writing(p, k)
      /\ pg'[k].rev = pg[k].rev + 1 /\ pg'[k].ver = call[p].job[k].ver
  BY CallFields DEF WriteInv, Holding, Writing
<1>2. RootData(k) /\ k \in call[p].held /\ SameEntry(p, k) /\ entry[k].known = pg[k].rev
  BY <1>1 DEF DataInv, WriteInv, CallerInv, ShapeOf, WriterCurrent
<1>3. pg[k].ver < call[p].job[k].ver /\ call[p].job[k].ver <= captured[k]
  BY CommitsNewer
<1>4. entry'[k].known # pg'[k].rev
  BY <1>1, <1>2, RootTypes
<1>5. \A q \in Callers : q # p =>
        ~Holding(q, k) /\ ~Holding(q, k)' /\ HoldData(q, k)' /\ LookData(q, k)'
  BY <1>1, <1>2, OthersAt
<1>6. KeyData(k)'
  <2>1. ASSUME NEW q \in Callers, Saving(q, k)
        PROVE  Saving(q, k)' /\ call'[q].job[k] = call[q].job[k]
    BY <2>1 DEF Saving, Writing
  <2>2. accepted[k] <= pg[k].ver => accepted[k] <= call[p].job[k].ver
    BY <1>1, <1>3, RootTypes
  <2>3. Covered(k) => Covered(k)'
    BY <1>1, <2>1, <2>2 DEF Covered, Pending
  <2> QED
    BY <1>1, <1>2, <1>3, <1>4, <2>3 DEF RootData, KeyData, Pending
<1>7. CallData(p, k)'
  <2>1. ~Waiting(p, k)' /\ ~Resolving(p, k)'
    BY DEF Waiting, Resolving
  <2>2. LookData(p, k)'
    BY <1>2 DEF RootData, CallData, LookData
  <2>3. HoldData(p, k)'
    BY <1>1, <1>2, <1>4, RootTypes DEF RootData, CallData, HoldData, Pending
  <2> QED
    BY <2>1, <2>2, <2>3 DEF CallData, WaitData, ResolveData
<1>8. ASSUME NEW q \in Callers, q # p PROVE CallData(q, k)'
  <2>0. CallData(q, k) /\ call'[q] = call[q]
    BY <1>2, <1>8 DEF RootData
  <2>1. WaitData(q, k)'
    <3>1. Waiting(q, k)' => Waiting(q, k)
      BY <2>0 DEF Waiting, SameEntry
    <3>2. ASSUME NEW r \in Callers, Holding(r, k)', Waiting(q, k)
          PROVE  call'[r].job[k].ver < call[q].job[k].ver
      <4>1. r = p
        BY <1>5, <3>2
      <4> QED
        BY <1>1, <2>0, <3>2, <4>1 DEF CallData, WaitData
    <3> QED
      BY <1>4, <2>0, <3>1, <3>2 DEF CallData, WaitData, Pending
  <2>2. ResolveData(q, k)'
    <3>1. Resolving(q, k) => call[q].job[k].ver <= pg[k].ver
      BY <2>0 DEF CallData, ResolveData
    <3>2. Resolving(q, k)' => call[q].job[k].ver <= call[p].job[k].ver
      BY <1>1, <1>3, <2>0, <3>1, RootTypes DEF Resolving
    <3> QED
      BY <1>1, <2>0, <3>2 DEF ResolveData
  <2> QED
    BY <1>5, <1>8, <2>1, <2>2 DEF CallData
<1> QED
  BY <1>6, <1>7, <1>8 DEF RootData

LEMMA AnswerFields ==
  ASSUME TypeOK, NEW p \in Callers, NEW r,
         call' = [call EXCEPT ![p] = [@ EXCEPT !.pc = "acked", !.res = r]]
  PROVE  /\ \A q \in Callers \ {p} : call'[q] = call[q]
         /\ call'[p].pc = "acked" /\ call'[p].op = call[p].op
         /\ call'[p].part = call[p].part /\ call'[p].saw = call[p].saw
         /\ call'[p].job = call[p].job /\ call'[p].res = r
<1>1. /\ call[p] \in Call
      /\ call'[p] = [call[p] EXCEPT !.pc = "acked", !.res = r]
      /\ \A q \in Callers \ {p} : call'[q] = call[q]
  BY DEF TypeOK
<1>2. PICK c, d : c = call[p] /\ d = call'[p]
  OBVIOUS
<1>3. c \in Call /\ d = [c EXCEPT !.pc = "acked", !.res = r]
  BY <1>1, <1>2
<1>4. /\ d.pc = "acked" /\ d.op = c.op /\ d.part = c.part /\ d.saw = c.saw
      /\ d.job = c.job /\ d.res = r
  BY <1>3 DEF Call
<1> QED
  BY <1>1, <1>2, <1>4

LEMMA DataStore ==
  ASSUME WriteInv, DataInv, TypeOK', NEW p \in Callers, StoreWrite(p)
  PROVE  DataInv'
<1> DEFINE S == call[p].part
           committed == [k \in Keys |-> IF k \in S
                           THEN [rev |-> pg[k].rev + 1, ver |-> call[p].job[k].ver] ELSE pg[k]]
<1>1. PICK r \in Results :
        /\ call' = [call EXCEPT ![p] = [@ EXCEPT !.pc = "acked", !.res = r]]
        /\ \/ (\A k \in S : pg[k].rev = call[p].expected[k]) /\ pg' = committed
           \/ r # "ok" /\ pg' = pg
  BY DEF StoreWrite, Results
<1>2. /\ call[p].pc = "write" /\ entry' = entry /\ captured' = captured
      /\ accepted' = accepted /\ TypeOK /\ S \in SUBSET Keys
  BY CallFields DEF StoreWrite, WriteInv
<1>3. /\ \A q \in Callers \ {p} : call'[q] = call[q]
      /\ call'[p].pc = "acked" /\ call'[p].op = call[p].op
      /\ call'[p].part = call[p].part /\ call'[p].saw = call[p].saw
      /\ call'[p].job = call[p].job /\ call'[p].res = r
  BY <1>1, <1>2, AnswerFields
<1>4. OwnersApart'
  BY <1>3, ApartKeeps DEF DataInv
<1>5. CASE (\A k \in S : pg[k].rev = call[p].expected[k]) /\ pg' = committed
  <2>1. ASSUME NEW k \in Keys PROVE RootData(k)'
    <3>1. CASE k \in S
      <4>1. pg'[k] = [rev |-> pg[k].rev + 1, ver |-> call[p].job[k].ver]
        BY <1>5, <3>1
      <4> QED
        BY <1>2, <1>3, <1>5, <3>1, <4>1, DataCommit
    <3>2. CASE k \notin S
      <4>1. Still(k)
        BY <1>2, <1>5, <3>2 DEF Still
      <4> QED
        BY <1>2, <1>3, <3>2, <4>1, AsideKeeps
    <3> QED
      BY <3>1, <3>2
  <2> QED
    BY <1>4, <2>1 DEF DataInv
<1>6. CASE r # "ok" /\ pg' = pg
  <2>1. \A k \in Keys : GoesOn(p, k)
    BY <1>2, <1>3, <1>6 DEF GoesOn, Answered, Saving, Writing
  <2> QED
    BY <1>2, <1>3, <1>4, <1>6, <2>1, QuietKeeps
<1> QED
  BY <1>1, <1>5, <1>6

(* The part of an outcome that is the same for every kind of write: its     *)
(* snapshot was older than every waiting one, and is all that it can put    *)
(* back.                                                                    *)
LEMMA OutcomeCalls ==
  ASSUME WriteInv, DataInv, TypeOK', NEW p \in Callers, NEW k \in call[p].part,
         call[p].pc = "acked", GiveUp(p), pg' = pg, captured' = captured,
         entry'[k].tracked = entry[k].tracked, entry'[k].inc = entry[k].inc,
         entry'[k].seq = entry[k].seq,
         \/ entry'[k].known = entry[k].known
         \/ Answered(p) /\ entry'[k].known = call[p].expected[k] + 1,
         Pending(k)' => \/ Pending(k) /\ entry'[k].pending = entry[k].pending
                        \/ entry'[k].pending = call[p].job[k]
  PROVE  \A q \in Callers : CallData(q, k)'
<1>1. k \in Keys /\ TypeOK /\ Holding(p, k) /\ Writing(p, k)
  BY CallFields DEF WriteInv, Holding, Writing
<1>2. RootData(k) /\ k \in call[p].held /\ SameEntry(p, k) /\ CallData(p, k)
  BY <1>1 DEF DataInv, RootData, WriteInv, CallerInv, ShapeOf, WriterCurrent
<1>3. /\ \A q \in Callers \ {p} : call'[q] = call[q]
      /\ call'[p].pc = "unlock" /\ call'[p].part = call[p].part
      /\ call'[p].saw = call[p].saw /\ call'[p].job = call[p].job
  BY <1>1, GiveUpFields
<1>4. CallData(p, k)'
  <2>1. ~Holding(p, k)' /\ ~Waiting(p, k)' /\ ~Resolving(p, k)'
    BY <1>3 DEF Holding, Waiting, Resolving
  <2>2. LookData(p, k)'
    BY <1>2, <1>3 DEF CallData, LookData
  <2> QED
    BY <2>1, <2>2 DEF CallData, HoldData, WaitData, ResolveData
<1>5. ASSUME NEW q \in Callers, q # p PROVE CallData(q, k)'
  <2>0. CallData(q, k) /\ call'[q] = call[q]
    BY <1>2, <1>3, <1>5 DEF RootData
  <2>1. HoldData(q, k)' /\ LookData(q, k)'
    BY <1>1, <1>2, <1>5, <2>0, OthersAt
  <2>2. ResolveData(q, k)'
    BY <2>0 DEF CallData, ResolveData, Resolving
  <2>3. WaitData(q, k)'
    <3> SUFFICES ASSUME Waiting(q, k)' PROVE WaitData(q, k)'
      BY DEF WaitData
    <3>1. Waiting(q, k)
      BY <2>0 DEF Waiting, SameEntry
    <3>2. call[p].job[k].ver < call[q].job[k].ver
      BY <1>1, <2>0, <3>1 DEF CallData, WaitData
    <3>3. entry'[k].known = pg[k].rev => pg[k].ver < call[q].job[k].ver
      <4>1. CASE entry'[k].known = entry[k].known
        BY <2>0, <3>1, <4>1 DEF CallData, WaitData
      <4>2. CASE Answered(p) /\ entry'[k].known = call[p].expected[k] + 1
        BY <1>1, <1>2, <3>2, <4>2 DEF CallData, HoldData
      <4> QED
        BY <4>1, <4>2
    <3>4. Pending(k)' => entry'[k].pending.ver < call[q].job[k].ver
      BY <2>0, <3>1, <3>2 DEF CallData, WaitData
    <3>5. \A r \in Callers : ~Holding(r, k)'
      <4>1. ~Holding(p, k)'
        BY <1>3 DEF Holding
      <4>2. \A r \in Callers : r # p => ~Holding(r, k)'
        BY <1>1, <1>2, <1>3, OthersAt
      <4> QED
        BY <4>1, <4>2
    <3>6. call[q].op = "through" => 0 < call[q].job[k].gen /\ call[q].job[k].gen = entry'[k].seq
      BY <2>0, <3>1 DEF CallData, WaitData
    <3> QED
      BY <2>0, <3>3, <3>4, <3>5, <3>6 DEF WaitData
  <2> QED
    BY <2>1, <2>2, <2>3 DEF CallData
<1> QED
  BY <1>4, <1>5

(* What an owner knows of the root it has written or tried to write.        *)
LEMMA WriterKnows ==
  ASSUME WriteInv, DataInv, NEW p \in Callers, NEW k \in call[p].part, call[p].pc = "acked"
  PROVE  /\ k \in Keys /\ TypeOK /\ RootData(k)
         /\ entry[k].tracked /\ ~entry[k].blocked
         /\ 0 < call[p].job[k].gen /\ call[p].job[k].gen <= entry[k].seq
         /\ call[p].job[k].ver <= captured[k]
         /\ pg[k].ver <= captured[k] /\ entry[k].pending.ver <= captured[k]
         /\ entry[k].pending.gen <= entry[k].seq
         /\ Pending(k) /\ entry[k].known = pg[k].rev => pg[k].ver < entry[k].pending.ver
         /\ Answered(p) => /\ call[p].job[k].ver <= pg[k].ver
                           /\ call[p].expected[k] + 1 = pg[k].rev => pg[k].ver = call[p].job[k].ver
         /\ ~Answered(p) /\ entry[k].known = pg[k].rev => pg[k].ver < call[p].job[k].ver
         /\ Pending(k) /\ call[p].op = "save" => call[p].job[k].ver < entry[k].pending.ver
         /\ Pending(k) /\ call[p].op # "save" =>
              (entry[k].pending.gen <= call[p].job[k].gen
                 <=> entry[k].pending.ver <= call[p].job[k].ver)
         /\ \/ accepted[k] <= pg[k].ver
            \/ Pending(k) /\ accepted[k] <= entry[k].pending.ver
            \/ call[p].op = "save" /\ accepted[k] <= call[p].job[k].ver
<1>1. k \in Keys /\ TypeOK /\ Holding(p, k) /\ Writing(p, k)
  BY CallFields DEF WriteInv, Holding, Writing
<1>2. /\ RootData(k) /\ CallData(p, k) /\ k \in call[p].held /\ SameEntry(p, k)
      /\ entry[k].tracked /\ ~entry[k].blocked
  BY <1>1 DEF DataInv, RootData, WriteInv, CallerInv, ShapeOf, WriterCurrent, SameEntry
<1>3. \A q \in Callers : q # p => ~Saving(q, k)
  BY <1>1, <1>2, HolderAlone DEF Saving, Writing, Holding
<1>4. \/ accepted[k] <= pg[k].ver
      \/ Pending(k) /\ accepted[k] <= entry[k].pending.ver
      \/ call[p].op = "save" /\ accepted[k] <= call[p].job[k].ver
  <2>1. Covered(k)
    BY <1>2 DEF RootData, KeyData
  <2> QED
    BY <1>3, <2>1 DEF Covered, Saving
<1> QED
  BY <1>1, <1>2, <1>4 DEF RootData, KeyData, CallData, LookData, HoldData

(* A fence over whatever the outcome puts back.                             *)
LEMMA OutcomeFenced ==
  ASSUME WriteInv, DataInv, TypeOK', NEW p \in Callers, NEW k \in call[p].part,
         call[p].pc = "acked", ~Answered(p), GiveUp(p), pg' = pg, captured' = captured,
         entry'[k].tracked = entry[k].tracked, entry'[k].inc = entry[k].inc,
         entry'[k].seq = entry[k].seq, entry'[k].known = entry[k].known,
         entry'[k].blocked,
         \/ entry'[k].pending = entry[k].pending
         \/ entry'[k].pending = call[p].job[k]
  PROVE  RootData(k)'
<1>1. KeyData(k)'
  BY WriterKnows DEF KeyData, Pending
<1>2. \A q \in Callers : CallData(q, k)'
  BY OutcomeCalls DEF Pending
<1> QED
  BY <1>1, <1>2 DEF RootData

(* A snapshot that failed goes back to pending, or a newer one stays there. *)
LEMMA OutcomeRequeued ==
  ASSUME WriteInv, DataInv, TypeOK', NEW p \in Callers, NEW k \in call[p].part,
         call[p].pc = "acked", ~Answered(p), GiveUp(p), pg' = pg, captured' = captured,
         entry'[k].tracked = entry[k].tracked, entry'[k].inc = entry[k].inc,
         entry'[k].seq = entry[k].seq, entry'[k].known = entry[k].known,
         \/ /\ Pending(k) /\ entry'[k].pending = entry[k].pending
            /\ call[p].job[k].ver <= entry[k].pending.ver
         \/ /\ Pending(k) => entry[k].pending.ver <= call[p].job[k].ver
            /\ entry'[k].pending = call[p].job[k],
         \/ accepted'[k] = accepted[k]
         \/ accepted'[k] = Larger(accepted[k], call[p].job[k].ver)
  PROVE  RootData(k)'
<1>0. /\ k \in Keys /\ TypeOK
      /\ accepted'[k] <= accepted[k] \/ accepted'[k] <= call[p].job[k].ver
  BY WriterKnows, RootTypes DEF Larger
<1>1. Covered(k)'
  <2>1. Pending(k)'
    BY <1>0, WriterKnows, RootTypes DEF Pending
  <2>2. accepted'[k] \in Nat
    BY <1>0 DEF TypeOK
  <2>3. accepted'[k] <= pg[k].ver \/ accepted'[k] <= entry'[k].pending.ver
    BY <1>0, <2>2, WriterKnows, RootTypes
  <2> QED
    BY <2>1, <2>3 DEF Covered
<1>2. KeyData(k)'
  BY <1>1, WriterKnows DEF KeyData, Pending
<1>3. \A q \in Callers : CallData(q, k)'
  BY OutcomeCalls DEF Pending
<1> QED
  BY <1>2, <1>3 DEF RootData

(* A committed snapshot: what stays pending is newer.                       *)
LEMMA OutcomeSaved ==
  ASSUME WriteInv, DataInv, TypeOK', NEW p \in Callers, NEW k \in call[p].part,
         call[p].pc = "acked", Answered(p), GiveUp(p), pg' = pg, captured' = captured,
         entry'[k].tracked = entry[k].tracked, entry'[k].inc = entry[k].inc,
         entry'[k].seq = entry[k].seq, entry'[k].known = call[p].expected[k] + 1,
         \/ /\ Pending(k) => call[p].job[k].ver < entry[k].pending.ver
            /\ entry'[k].pending = entry[k].pending
         \/ /\ Pending(k) => entry[k].pending.ver <= call[p].job[k].ver
            /\ entry'[k].pending = NoJob,
         \/ accepted'[k] = accepted[k]
         \/ accepted'[k] = Larger(accepted[k], call[p].job[k].ver)
  PROVE  RootData(k)'
<1>0. /\ k \in Keys /\ TypeOK
      /\ accepted'[k] <= accepted[k] \/ accepted'[k] <= call[p].job[k].ver
  BY WriterKnows, RootTypes DEF Larger
<1>1. Covered(k)'
  <2>2. accepted'[k] \in Nat
    BY <1>0 DEF TypeOK
  <2>3. \/ accepted'[k] <= pg[k].ver
        \/ Pending(k)' /\ accepted'[k] <= entry'[k].pending.ver
    BY <1>0, <2>2, WriterKnows, RootTypes DEF Pending
  <2> QED
    BY <2>3 DEF Covered
<1>2. KeyData(k)'
  BY <1>0, <1>1, WriterKnows, RootTypes DEF KeyData, Pending, NoJob
<1>3. \A q \in Callers : CallData(q, k)'
  BY OutcomeCalls DEF Pending, NoJob
<1> QED
  BY <1>2, <1>3 DEF RootData

LEMMA DataFinishSave ==
  ASSUME WriteInv, DataInv, TypeOK', NEW p \in Callers, FinishSave(p)
  PROVE  DataInv'
<1>1. /\ call[p].pc = "acked" /\ call[p].op = "save" /\ GiveUp(p) /\ pg' = pg
      /\ captured' = captured /\ accepted' = accepted /\ TypeOK
  BY DEF FinishSave, WriteInv
<1>2. PICK k \in call[p].part :
        LET requeued == IF Pending(k) THEN entry[k].pending ELSE call[p].job[k] IN
        entry' = [entry EXCEPT ![k] =
         CASE call[p].res = "ok" ->
                [@ EXCEPT !.inflight = FALSE, !.known = call[p].expected[k] + 1]
           [] call[p].res = "err" ->
                [@ EXCEPT !.inflight = FALSE, !.pending = requeued]
           [] call[p].res = "stale" ->
                [@ EXCEPT !.inflight = FALSE, !.blocked = TRUE]
           [] OTHER ->
                [@ EXCEPT !.inflight = FALSE, !.blocked = TRUE, !.pending = requeued]]
  BY DEF FinishSave
<1> DEFINE requeued == IF Pending(k) THEN entry[k].pending ELSE call[p].job[k]
<1>3. call[p].part = {k} /\ k \in Keys
  BY <1>1, CallFields DEF WriteInv, CallerInv, ShapeOf
<1>4. PICK e, f, n, j : /\ e = entry[k] /\ f = entry'[k]
                        /\ n = call[p].expected[k] + 1 /\ j = requeued
  OBVIOUS
<1>5. /\ e \in Entry
      /\ f = CASE call[p].res = "ok" -> [e EXCEPT !.inflight = FALSE, !.known = n]
               [] call[p].res = "err" -> [e EXCEPT !.inflight = FALSE, !.pending = j]
               [] call[p].res = "stale" -> [e EXCEPT !.inflight = FALSE, !.blocked = TRUE]
               [] OTHER -> [e EXCEPT !.inflight = FALSE, !.blocked = TRUE, !.pending = j]
  BY <1>1, <1>2, <1>3, <1>4 DEF TypeOK
<1>6. /\ f.tracked = e.tracked /\ f.inc = e.inc /\ f.seq = e.seq
      /\ \/ call[p].res = "ok" /\ f.known = n /\ f.pending = e.pending
         \/ call[p].res # "ok" /\ f.known = e.known /\ f.pending = j
         \/ call[p].res # "ok" /\ f.known = e.known /\ f.pending = e.pending /\ f.blocked
  <2> HIDE DEF requeued
  <2>1. CASE call[p].res = "ok"
    <3>1. f = [e EXCEPT !.inflight = FALSE, !.known = n]
      BY <1>5, <2>1
    <3> QED
      BY <1>5, <2>1, <3>1 DEF Entry
  <2>2. CASE call[p].res = "err"
    <3>1. f = [e EXCEPT !.inflight = FALSE, !.pending = j]
      BY <1>5, <2>2
    <3> QED
      BY <1>5, <2>2, <3>1 DEF Entry
  <2>3. CASE call[p].res = "stale"
    <3>1. f = [e EXCEPT !.inflight = FALSE, !.blocked = TRUE]
      BY <1>5, <2>3
    <3> QED
      BY <1>5, <2>3, <3>1 DEF Entry
  <2>4. CASE call[p].res \notin {"ok", "err", "stale"}
    <3>1. f = [e EXCEPT !.inflight = FALSE, !.blocked = TRUE, !.pending = j]
      BY <1>5, <2>4
    <3> QED
      BY <1>5, <2>4, <3>1 DEF Entry
  <2> QED
    BY <2>1, <2>2, <2>3, <2>4
<1>7. call[p].job[k].ver \in Nat
  BY <1>1, <1>3, RootTypes
<1>8. RootData(k)'
  <2>1. CASE call[p].res = "ok" /\ f.known = n /\ f.pending = e.pending
    <3>1. Answered(p) /\ (Pending(k) => call[p].job[k].ver < entry[k].pending.ver)
      BY <1>1, <2>1, WriterKnows DEF Answered
    <3> QED
      BY <1>1, <1>4, <1>6, <2>1, <3>1, OutcomeSaved
  <2>2. CASE call[p].res # "ok" /\ f.known = e.known /\ f.pending = j
    <3>1. ~Answered(p) /\ (Pending(k) => call[p].job[k].ver <= entry[k].pending.ver)
      BY <1>1, <1>3, <1>7, <2>2, WriterKnows, RootTypes DEF Answered
    <3>2. \/ /\ Pending(k) /\ entry'[k].pending = entry[k].pending
             /\ call[p].job[k].ver <= entry[k].pending.ver
          \/ /\ Pending(k) => entry[k].pending.ver <= call[p].job[k].ver
             /\ entry'[k].pending = call[p].job[k]
      BY <1>4, <2>2, <3>1
    <3> QED
      BY <1>1, <1>4, <1>6, <2>2, <3>1, <3>2, OutcomeRequeued
  <2>3. CASE call[p].res # "ok" /\ f.known = e.known /\ f.pending = e.pending /\ f.blocked
    <3>1. ~Answered(p)
      BY <2>3 DEF Answered
    <3> QED
      BY <1>1, <1>4, <1>6, <2>3, <3>1, OutcomeFenced
  <2> QED
    BY <1>6, <2>1, <2>2, <2>3
<1>9. ASSUME NEW i \in Keys, i # k PROVE RootData(i)'
  <2>1. entry'[i] = entry[i]
    BY <1>2, <1>9
  <2>2. Still(i)
    BY <1>1, <2>1 DEF Still
  <2> QED
    BY <1>1, <1>3, <1>9, <2>2, GiveUpFields, AsideKeeps
<1>10. OwnersApart'
  BY <1>1, GiveUpFields, ApartKeeps DEF DataInv
<1> QED
  BY <1>8, <1>9, <1>10 DEF DataInv

LEMMA DataFinishThrough ==
  ASSUME WriteInv, DataInv, TypeOK', NEW p \in Callers, FinishWriteThrough(p)
  PROVE  DataInv'
<1>1. /\ call[p].pc = "acked" /\ call[p].op = "through" /\ GiveUp(p) /\ pg' = pg
      /\ captured' = captured /\ TypeOK
  BY DEF FinishWriteThrough, WriteInv
<1>2. PICK k \in call[p].part :
        LET job == call[p].job[k]
            older == entry[k].pending.gen <= job.gen
        IN
        /\ entry' = [entry EXCEPT ![k] =
             CASE call[p].res = "ok" ->
                    [@ EXCEPT !.inflight = FALSE, !.known = call[p].expected[k] + 1,
                              !.pending = IF older THEN NoJob ELSE entry[k].pending]
               [] call[p].res = "err" ->
                    [@ EXCEPT !.inflight = FALSE, !.pending = IF older THEN job ELSE entry[k].pending]
               [] OTHER ->
                    [@ EXCEPT !.inflight = FALSE, !.blocked = TRUE]]
        /\ accepted' = [accepted EXCEPT ![k] = IF call[p].res \in {"ok", "err"}
                                               THEN Larger(accepted[k], job.ver) ELSE accepted[k]]
  BY DEF FinishWriteThrough
<1> DEFINE older == entry[k].pending.gen <= call[p].job[k].gen
<1>3. call[p].part = {k} /\ k \in Keys
  BY <1>1, CallFields DEF WriteInv, CallerInv, ShapeOf
<1>4. PICK e, f, n, i, j : /\ e = entry[k] /\ f = entry'[k]
                           /\ n = call[p].expected[k] + 1
                           /\ i = IF older THEN NoJob ELSE entry[k].pending
                           /\ j = IF older THEN call[p].job[k] ELSE entry[k].pending
  OBVIOUS
<1>5. /\ e \in Entry
      /\ f = CASE call[p].res = "ok" -> [e EXCEPT !.inflight = FALSE, !.known = n, !.pending = i]
               [] call[p].res = "err" -> [e EXCEPT !.inflight = FALSE, !.pending = j]
               [] OTHER -> [e EXCEPT !.inflight = FALSE, !.blocked = TRUE]
  BY <1>1, <1>2, <1>3, <1>4 DEF TypeOK
<1>6. /\ f.tracked = e.tracked /\ f.inc = e.inc /\ f.seq = e.seq
      /\ \/ call[p].res = "ok" /\ f.known = n /\ f.pending = i
         \/ call[p].res = "err" /\ f.known = e.known /\ f.pending = j
         \/ /\ call[p].res \notin {"ok", "err"} /\ f.known = e.known
            /\ f.pending = e.pending /\ f.blocked
  <2>1. CASE call[p].res = "ok"
    <3>1. f = [e EXCEPT !.inflight = FALSE, !.known = n, !.pending = i]
      BY <1>5, <2>1
    <3> QED
      BY <1>5, <2>1, <3>1 DEF Entry
  <2>2. CASE call[p].res = "err"
    <3>1. f = [e EXCEPT !.inflight = FALSE, !.pending = j]
      BY <1>5, <2>2
    <3> QED
      BY <1>5, <2>2, <3>1 DEF Entry
  <2>3. CASE call[p].res \notin {"ok", "err"}
    <3>1. f = [e EXCEPT !.inflight = FALSE, !.blocked = TRUE]
      BY <1>5, <2>3
    <3> QED
      BY <1>5, <2>3, <3>1 DEF Entry
  <2> QED
    BY <2>1, <2>2, <2>3
<1>7. /\ accepted'[k] = accepted[k] \/ accepted'[k] = Larger(accepted[k], call[p].job[k].ver)
      /\ call[p].job[k].ver \in Nat /\ call[p].job[k].gen \in Nat
      /\ entry[k].pending.gen \in Nat /\ entry[k].pending.ver \in Nat
  <2>1. accepted'[k] = accepted[k] \/ accepted'[k] = Larger(accepted[k], call[p].job[k].ver)
    BY <1>1, <1>2, <1>3 DEF TypeOK
  <2> QED
    BY <1>1, <1>3, <2>1, RootTypes
<1>8. /\ older => (Pending(k) => entry[k].pending.ver <= call[p].job[k].ver)
      /\ ~older => Pending(k) /\ call[p].job[k].ver < entry[k].pending.ver
  <2>1. ~older => Pending(k)
    BY <1>7 DEF Pending
  <2>2. Pending(k) => (older <=> entry[k].pending.ver <= call[p].job[k].ver)
    BY <1>1, WriterKnows
  <2> QED
    BY <1>7, <2>1, <2>2
<1>9. RootData(k)'
  <2>1. CASE call[p].res = "ok" /\ f.known = n /\ f.pending = i
    <3>1. Answered(p)
      BY <1>1, <2>1 DEF Answered
    <3>2. \/ /\ Pending(k) => call[p].job[k].ver < entry[k].pending.ver
             /\ entry'[k].pending = entry[k].pending
          \/ /\ Pending(k) => entry[k].pending.ver <= call[p].job[k].ver
             /\ entry'[k].pending = NoJob
      BY <1>4, <1>8, <2>1
    <3> QED
      BY <1>1, <1>4, <1>6, <1>7, <2>1, <3>1, <3>2, OutcomeSaved
  <2>2. CASE call[p].res = "err" /\ f.known = e.known /\ f.pending = j
    <3>1. ~Answered(p)
      BY <2>2 DEF Answered
    <3>2. \/ /\ Pending(k) /\ entry'[k].pending = entry[k].pending
             /\ call[p].job[k].ver <= entry[k].pending.ver
          \/ /\ Pending(k) => entry[k].pending.ver <= call[p].job[k].ver
             /\ entry'[k].pending = call[p].job[k]
      BY <1>4, <1>7, <1>8, <2>2
    <3> QED
      BY <1>1, <1>4, <1>6, <1>7, <2>2, <3>1, <3>2, OutcomeRequeued
  <2>3. CASE /\ call[p].res \notin {"ok", "err"} /\ f.known = e.known
             /\ f.pending = e.pending /\ f.blocked
    <3>1. ~Answered(p)
      BY <2>3 DEF Answered
    <3> QED
      BY <1>1, <1>4, <1>6, <2>3, <3>1, OutcomeFenced
  <2> QED
    BY <1>6, <2>1, <2>2, <2>3
<1>10. ASSUME NEW h \in Keys, h # k PROVE RootData(h)'
  <2>1. entry'[h] = entry[h] /\ accepted'[h] = accepted[h]
    BY <1>2, <1>10
  <2>2. Still(h)
    BY <1>1, <2>1 DEF Still
  <2> QED
    BY <1>1, <1>3, <1>10, <2>2, GiveUpFields, AsideKeeps
<1>11. OwnersApart'
  BY <1>1, GiveUpFields, ApartKeeps DEF DataInv
<1> QED
  BY <1>9, <1>10, <1>11 DEF DataInv

LEMMA DataFinishSet ==
  ASSUME WriteInv, DataInv, TypeOK', NEW p \in Callers, FinishCriticalSet(p)
  PROVE  DataInv'
<1> DEFINE S == call[p].part
           ok == call[p].res = "ok"
<1>1. /\ call[p].pc = "acked" /\ call[p].op \in {"critical", "reserve"} /\ GiveUp(p) /\ pg' = pg
      /\ captured' = captured /\ TypeOK /\ S \in SUBSET Keys
  BY CallFields DEF FinishCriticalSet, WriteInv
<1>2. ASSUME NEW k \in S PROVE RootData(k)'
  <2> DEFINE older == entry[k].pending.gen <= call[p].job[k].gen
  <2>0. k \in Keys
    BY <1>1
  <2>1. PICK e, f, n, i : /\ e = entry[k] /\ f = entry'[k]
                          /\ n = call[p].expected[k] + 1
                          /\ i = IF older THEN NoJob ELSE entry[k].pending
    OBVIOUS
  <2>2. /\ e \in Entry
        /\ ok => f = [e EXCEPT !.inflight = FALSE, !.known = n, !.pending = i]
        /\ ~ok => f = [e EXCEPT !.inflight = FALSE, !.blocked = TRUE]
    BY <1>1, <2>0, <2>1 DEF FinishCriticalSet, TypeOK
  <2>3. /\ call[p].job[k].ver \in Nat /\ call[p].job[k].gen \in Nat
        /\ entry[k].pending.gen \in Nat /\ entry[k].pending.ver \in Nat
    BY <1>1, <2>0, RootTypes
  <2>4. /\ older => (Pending(k) => entry[k].pending.ver <= call[p].job[k].ver)
        /\ ~older => Pending(k) /\ call[p].job[k].ver < entry[k].pending.ver
    <3>1. ~older => Pending(k)
      BY <2>3 DEF Pending
    <3>2. Pending(k) => (older <=> entry[k].pending.ver <= call[p].job[k].ver)
      BY <1>1, WriterKnows
    <3> QED
      BY <2>3, <3>1, <3>2
  <2>5. CASE ok
    <3>1. f = [e EXCEPT !.inflight = FALSE, !.known = n, !.pending = i]
      BY <2>2, <2>5
    <3>2. /\ f.tracked = e.tracked /\ f.inc = e.inc /\ f.seq = e.seq
          /\ f.known = n /\ f.pending = i
      BY <2>2, <3>1 DEF Entry
    <3>3. Answered(p)
      BY <1>1, <2>5 DEF Answered
    <3>4. accepted'[k] = Larger(accepted[k], call[p].job[k].ver)
      BY <2>0, <2>5 DEF FinishCriticalSet
    <3>5. \/ /\ Pending(k) => call[p].job[k].ver < entry[k].pending.ver
             /\ entry'[k].pending = entry[k].pending
          \/ /\ Pending(k) => entry[k].pending.ver <= call[p].job[k].ver
             /\ entry'[k].pending = NoJob
      BY <2>1, <2>4, <3>2
    <3> QED
      BY <1>1, <2>1, <3>2, <3>3, <3>4, <3>5, OutcomeSaved
  <2>6. CASE ~ok
    <3>1. f = [e EXCEPT !.inflight = FALSE, !.blocked = TRUE]
      BY <2>2, <2>6
    <3>2. /\ f.tracked = e.tracked /\ f.inc = e.inc /\ f.seq = e.seq
          /\ f.known = e.known /\ f.pending = e.pending /\ f.blocked
      BY <2>2, <3>1 DEF Entry
    <3>3. ~Answered(p)
      BY <2>6 DEF Answered
    <3> QED
      BY <1>1, <2>1, <3>2, <3>3, OutcomeFenced
  <2> QED
    BY <2>5, <2>6
<1>3. ASSUME NEW k \in Keys, k \notin S PROVE RootData(k)'
  <2>1. entry'[k] = entry[k] /\ accepted'[k] = accepted[k]
    BY <1>3 DEF FinishCriticalSet
  <2>2. Still(k)
    BY <1>1, <2>1 DEF Still
  <2> QED
    BY <1>1, <1>3, <2>2, GiveUpFields, AsideKeeps
<1>4. OwnersApart'
  BY <1>1, GiveUpFields, ApartKeeps DEF DataInv
<1> QED
  BY <1>2, <1>3, <1>4 DEF DataInv

-----------------------------------------------------------------------------

LEMMA DataNext ==
  ASSUME OwnersWait, WriteInv, DataInv, [Next]_vars
  PROVE  DataInv'
<1>1. TypeOK'
  BY TypeNext DEF WriteInv
<1>2. ASSUME NEW k \in Keys, Track(k) \/ Untrack(k) \/ MarkDirty(k) \/ ExternalCommit(k)
      PROVE  DataInv'
  BY <1>1, <1>2, DataTable
<1>3. ASSUME NEW p \in Callers, StartFlush(p)
      PROVE  DataInv'
  BY <1>1, <1>3, DataIdle
<1>4. ASSUME NEW p \in Callers, NEW k \in Keys, StartWriteThrough(p, k) \/ StartResolve(p, k)
      PROVE  DataInv'
  BY <1>1, <1>4, DataStartThrough, DataStartResolve
<1>5. ASSUME NEW p \in Callers, NEW S \in SUBSET Keys, StartCriticalSet(p, S) \/ Reserve(p, S)
      PROVE  DataInv'
  BY <1>1, <1>5, DataStartSet, DataReserve
<1>6. ASSUME NEW p \in Callers, Acquire(p) \/ CallerStep(p) \/ Cancelled(p)
      PROVE  DataInv'
  BY <1>1, <1>6, DataAcquire, DataFlushNext, DataIdle, DataEnterSave, DataEnterThrough,
     DataEnterSet, DataResolve, DataStore, DataFinishSave, DataFinishThrough, DataFinishSet,
     DataReserved DEF CallerStep
<1>7. ASSUME Crash
      PROVE  DataInv'
  BY <1>7, DataCrash
<1>8. CASE UNCHANGED vars
  BY <1>8 DEF vars, DataInv, OwnersApart, Apart, RootData, KeyData, Covered, Saving, Writing,
     CallData, LookData, HoldData, WaitData, ResolveData, Holding, Waiting, Resolving, Answered,
     SameEntry, Pending
<1> QED
  BY <1>2, <1>3, <1>4, <1>5, <1>6, <1>7, <1>8 DEF Next, Uncancelled

LEMMA DataInvariant ==
  ASSUME OwnersWait
  PROVE  Spec => []DataInv
<1>1. WriteInv /\ DataInv /\ [Next]_vars => DataInv'
  BY DataNext
<1> QED
  BY <1>1, DataInit, WriteInvariant, PTL DEF Spec

(* With owners that wait for the calls they hand their state to, a clean,   *)
(* unfenced aggregate whose revision is current is saved: PostgreSQL has    *)
(* the newest snapshot the saver answered for, whatever failed, timed out   *)
(* or was put back on the way.                                              *)
THEOREM CleanStaysDurable ==
  ASSUME OwnersWait
  PROVE  Spec => []CleanIsDurable
<1>1. WriteInv /\ DataInv => CleanIsDurable
  <2> SUFFICES ASSUME WriteInv, DataInv, NEW k \in Keys,
                      entry[k].tracked, ~entry[k].blocked, ~Pending(k), ~entry[k].inflight
               PROVE  pg[k].ver >= accepted[k]
    BY DEF CleanIsDurable
  <2>1. Covered(k)
    BY DEF DataInv, RootData, KeyData
  <2>2. \A p \in Callers : ~Saving(p, k)
    BY DEF WriteInv, CallerInv, WriterCurrent, Saving
  <2>3. accepted[k] <= pg[k].ver
    BY <2>1, <2>2 DEF Covered
  <2> QED
    BY <2>3, RootTypes DEF WriteInv
<1> QED
  BY <1>1, DataInvariant, WriteInvariant, PTL


-----------------------------------------------------------------------------
(* The steps that move a row or capture a snapshot *)

(* A transaction whose every compare-and-set matches.                       *)
Committing(p) ==
  /\ call[p].pc = "write"
  /\ \A k \in call[p].part : pg[k].rev = call[p].expected[k]
  /\ pg' = [k \in Keys |-> IF k \in call[p].part
              THEN [rev |-> pg[k].rev + 1, ver |-> call[p].job[k].ver] ELSE pg[k]]
  /\ captured' = captured

Capturing(S) ==
  /\ captured' = [k \in Keys |-> IF k \in S THEN captured[k] + 1 ELSE captured[k]]
  /\ pg' = pg

LEMMA RowSteps ==
  ASSUME TypeOK, [Next]_vars
  PROVE  \/ pg' = pg /\ captured' = captured
         \/ \E S \in (SUBSET Keys) \ {{}} : Capturing(S)
         \/ \E p \in Callers : Committing(p)
         \/ \E k \in Keys : ExternalCommit(k)
<1>1. ASSUME NEW k \in Keys, captured' = [captured EXCEPT ![k] = captured[k] + 1], pg' = pg
      PROVE  \E S \in (SUBSET Keys) \ {{}} : Capturing(S)
  <2>1. Capturing({k}) /\ {k} \in (SUBSET Keys) \ {{}}
    BY <1>1 DEF Capturing, TypeOK
  <2> QED
    BY <2>1
<1>2. ASSUME NEW k \in Keys, Track(k) \/ Untrack(k) \/ MarkDirty(k) \/ ExternalCommit(k)
      PROVE  \/ pg' = pg /\ captured' = captured
             \/ \E S \in (SUBSET Keys) \ {{}} : Capturing(S)
             \/ ExternalCommit(k)
  BY <1>1, <1>2 DEF Track, Untrack, MarkDirty
<1>3. ASSUME NEW p \in Callers, StartFlush(p) \/ Acquire(p) \/ Cancelled(p)
      PROVE  pg' = pg /\ captured' = captured
  BY <1>3 DEF StartFlush, Acquire, Cancelled
<1>4. ASSUME NEW p \in Callers, NEW k \in Keys, StartWriteThrough(p, k) \/ StartResolve(p, k)
      PROVE  \/ pg' = pg /\ captured' = captured
             \/ \E S \in (SUBSET Keys) \ {{}} : Capturing(S)
  BY <1>1, <1>4 DEF StartWriteThrough, StartResolve
<1>5. ASSUME NEW p \in Callers, NEW S \in (SUBSET Keys) \ {{}}, StartCriticalSet(p, S) \/ Reserve(p, S)
      PROVE  (pg' = pg /\ captured' = captured) \/ Capturing(S)
  BY <1>5 DEF StartCriticalSet, Reserve, Capturing
<1>6. ASSUME NEW p \in Callers, StoreWrite(p)
      PROVE  (pg' = pg /\ captured' = captured) \/ Committing(p)
  BY <1>6 DEF StoreWrite, Committing
<1>7. ASSUME NEW p \in Callers, CallerStep(p)
      PROVE  (pg' = pg /\ captured' = captured) \/ Committing(p)
  BY <1>6, <1>7 DEF CallerStep, FlushNext, FlushDone, Release, EnterSave, EnterWriteThrough,
     EnterCriticalSet, ApplyResolve, FinishSave, FinishWriteThrough, FinishCriticalSet,
     CancelReservation, ExecuteReservation
<1>8. Crash => pg' = pg /\ captured' = captured
  BY DEF Crash
<1>9. UNCHANGED vars => pg' = pg /\ captured' = captured
  BY DEF vars
<1> QED
  BY <1>2, <1>3, <1>4, <1>5, <1>7, <1>8, <1>9 DEF Next, Uncancelled

(* With owners that wait, a committed snapshot is never replaced by an      *)
(* older one: a newer snapshot survives the writes that were under way or   *)
(* waiting for their gates when it arrived.  Without that discipline it     *)
(* does not: a model-checking run shows how it is overtaken.                *)
THEOREM NewerStaysCommitted ==
  ASSUME OwnersWait
  PROVE  Spec => NewerSnapshotSurvives
<1>1. WriteInv /\ DataInv /\ [Next]_vars => [\A k \in Keys : pg'[k].ver >= pg[k].ver]_vars
  <2> SUFFICES ASSUME WriteInv, DataInv, [Next]_vars, NEW k \in Keys
               PROVE  pg'[k].ver >= pg[k].ver
    OBVIOUS
  <2>0. TypeOK /\ pg[k].ver \in Nat /\ captured[k] \in Nat
    BY RootTypes DEF WriteInv
  <2>1. CASE pg' = pg
    BY <2>0, <2>1
  <2>2. ASSUME NEW p \in Callers, Committing(p) PROVE pg'[k].ver >= pg[k].ver
    <3>1. CASE k \in call[p].part
      <4>1. pg[k].ver < call[p].job[k].ver /\ call[p].job[k].ver \in Nat
        BY <2>0, <2>2, <3>1, CommitsNewer, RootTypes DEF Committing
      <4>2. pg'[k].ver = call[p].job[k].ver
        BY <2>2, <3>1 DEF Committing
      <4> QED
        BY <2>0, <4>1, <4>2
    <3>2. CASE k \notin call[p].part
      BY <2>0, <2>2, <3>2 DEF Committing
    <3> QED
      BY <3>1, <3>2
  <2>3. ASSUME NEW j \in Keys, ExternalCommit(j) PROVE pg'[k].ver >= pg[k].ver
    <3>1. pg[k].ver <= captured[k]
      BY DEF DataInv, RootData, KeyData
    <3>2. pg'[k].ver = IF k = j THEN captured[k] + 1 ELSE pg[k].ver
      BY <2>0, <2>3 DEF ExternalCommit, TypeOK
    <3> QED
      BY <2>0, <3>1, <3>2
  <2> QED
    BY <2>0, <2>1, <2>2, <2>3, RowSteps DEF Capturing
<1> QED
  BY <1>1, DataInvariant, WriteInvariant, PTL DEF Spec, NewerSnapshotSurvives

(* With owners that wait, the saver does to PostgreSQL what the abstract    *)
(* specification of durable roots allows and nothing else: whatever is      *)
(* retried, lost, fenced or restarted, a commit takes its whole set one     *)
(* revision on and installs snapshots newer than those it replaces, each of *)
(* them captured.                                                           *)
THEOREM SaverKeepsItsPromise ==
  ASSUME OwnersWait
  PROVE  Spec => ImplementsDurableRoots
<1>1. Init => Durable!Init
  BY DEF Init, Durable!Init
<1>2. WriteInv /\ DataInv /\ [Next]_vars => [Durable!Next]_(Durable!roots)
  <2> SUFFICES ASSUME WriteInv, DataInv, [Next]_vars
               PROVE  Durable!Next \/ UNCHANGED Durable!roots
    OBVIOUS
  <2>0. TypeOK
    BY DEF WriteInv
  <2>1. CASE pg' = pg /\ captured' = captured
    BY <2>1 DEF Durable!roots
  <2>2. ASSUME NEW S \in (SUBSET Keys) \ {{}}, Capturing(S) PROVE Durable!Next
    BY <2>2 DEF Capturing, Durable!Next, Durable!Capture
  <2>3. ASSUME NEW k \in Keys, ExternalCommit(k) PROVE Durable!Next
    <3>1. /\ captured' = [captured EXCEPT ![k] = captured[k] + 1]
          /\ pg' = [pg EXCEPT ![k] = [rev |-> pg[k].rev + 1, ver |-> captured[k] + 1]]
      BY <2>3 DEF ExternalCommit
    <3>2. Durable!Elsewhere(k)
      BY <2>0, <3>1 DEF Durable!Elsewhere, TypeOK
    <3> QED
      BY <3>2 DEF Durable!Next
  <2>4. ASSUME NEW p \in Callers, Committing(p) PROVE Durable!Next \/ UNCHANGED Durable!roots
    <3>0. PICK S \in SUBSET Keys : S = call[p].part
      BY <2>0, CallFields
    <3>1. CASE S = {}
      <4>1. pg' = pg /\ captured' = captured
        BY <2>0, <2>4, <3>0, <3>1 DEF Committing, TypeOK
      <4> QED
        BY <4>1, <2>1
    <3>2. CASE S # {}
      <4> DEFINE chosen == [k \in S |-> call[p].job[k].ver]
      <4>1. ASSUME NEW k \in S
            PROVE  /\ pg[k].ver < chosen[k] /\ chosen[k] <= captured[k]
                   /\ chosen[k] \in (pg[k].ver + 1)..captured[k]
        <5>1. /\ pg[k].ver < call[p].job[k].ver /\ call[p].job[k].ver <= captured[k]
              /\ pg[k].ver \in Nat /\ captured[k] \in Nat /\ call[p].job[k].ver \in Nat
          BY <2>0, <2>4, <3>0, CommitsNewer, RootTypes DEF Committing
        <5> QED
          BY <5>1
      <4>2. chosen \in [S -> UNION {([j \in Keys |-> pg[j].ver][k] + 1)..captured[k] : k \in S}]
        BY <4>1
      <4>3. /\ [k \in Keys |-> pg'[k].ver]
               = [k \in Keys |-> IF k \in S THEN chosen[k] ELSE [j \in Keys |-> pg[j].ver][k]]
            /\ [k \in Keys |-> pg'[k].rev]
               = [k \in Keys |-> IF k \in S THEN [j \in Keys |-> pg[j].rev][k] + 1
                                            ELSE [j \in Keys |-> pg[j].rev][k]]
            /\ captured' = captured
        BY <2>4, <3>0 DEF Committing
      <4>4. Durable!Commit(S)
        <5> HIDE DEF chosen
        <5> QED
          BY <4>1, <4>2, <4>3 DEF Durable!Commit
      <4> QED
        BY <3>2, <4>4 DEF Durable!Next
    <3> QED
      BY <3>1, <3>2
  <2> QED
    BY <2>0, <2>1, <2>2, <2>3, <2>4, RowSteps
<1> QED
  BY <1>1, <1>2, DataInvariant, WriteInvariant, PTL DEF Spec, ImplementsDurableRoots, Durable!Spec

=============================================================================
