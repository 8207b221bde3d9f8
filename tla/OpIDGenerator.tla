--------------------------- MODULE OpIDGenerator ---------------------------
(***************************************************************************)
(* The operation identities of internal/sim/opid.go: one generator per     *)
(* worker packs a millisecond since the epoch, the worker and a sequence   *)
(* number into one integer.  The clock is injected and may stand still,    *)
(* jump ahead and fall back between two calls.                             *)
(***************************************************************************)
EXTENDS Integers

CONSTANTS
  Workers,      \* worker IDs in use, one generator each
  MaxDelta,     \* opIDMaxTimestampDelta
  MaxWorker,    \* OpIDMaxWorker
  MaxSequence   \* OpIDMaxSequence

(* NewOpIDGenerator reserves worker 0.                                      *)
ASSUME OpIDConstants ==
  /\ MaxDelta \in Nat
  /\ MaxWorker \in Nat
  /\ MaxSequence \in Nat
  /\ Workers \subseteq 1..MaxWorker

VARIABLES
  generator,  \* generator[w]: the last millisecond emitted and its sequence
  issued      \* the identities issued so far

generatorVars == <<generator, issued>>

NoLast == -1

(* Readings of the clock relative to the epoch, one beyond each end.        *)
Clock == -1..(MaxDelta + 1)

(* timestampDelta << 22 | workerID << 12 | sequence                         *)
Pack(delta, w, sequence) ==
  (delta * (MaxWorker + 1) + w) * (MaxSequence + 1) + sequence

(* A new millisecond starts the sequence again.                             *)
NextSequence(w, now) ==
  IF now = generator[w].last THEN generator[w].sequence + 1 ELSE 0

(* Mutant: the sequence may run one past its field.                         *)
HasRoomOnePast(w, now) == NextSequence(w, now) <= MaxSequence + 1

(* A 4097th identity in one millisecond is refused.                         *)
HasRoom(w, now) == NextSequence(w, now) <= MaxSequence

(* Before the epoch, past the representable window, and below the last      *)
(* millisecond emitted there is no identity.                                *)
ValidClock(w, now) == 0 <= now /\ now <= MaxDelta /\ generator[w].last <= now

(* A refused call changes nothing.                                          *)
NextID(w, now) ==
  /\ ValidClock(w, now)
  /\ HasRoom(w, now)
  /\ generator' = [generator EXCEPT ![w] =
                     [last |-> now, sequence |-> NextSequence(w, now)]]
  /\ issued' = issued \cup {Pack(now, w, NextSequence(w, now))}

GeneratorInit ==
  /\ generator = [w \in Workers |-> [last |-> NoLast, sequence |-> 0]]
  /\ issued = {}

GeneratorNext == \E w \in Workers, now \in Clock : NextID(w, now)

GeneratorSpec == GeneratorInit /\ [][GeneratorNext]_generatorVars

-----------------------------------------------------------------------------

(* Split: the fields of an identity.                                        *)
SequenceOf(id) == id % (MaxSequence + 1)
WorkerOf(id) == (id \div (MaxSequence + 1)) % (MaxWorker + 1)
DeltaOf(id) == (id \div (MaxSequence + 1)) \div (MaxWorker + 1)

(* An identity fits its 63 bits, is never the reserved 0, and names a       *)
(* worker in use: the fields never run into each other.                     *)
IdentitiesFit ==
  \A id \in issued :
    /\ 0 < id /\ id < (MaxDelta + 1) * (MaxWorker + 1) * (MaxSequence + 1)
    /\ WorkerOf(id) \in Workers
    /\ DeltaOf(id) <= generator[WorkerOf(id)].last

(* No identity is issued twice, by one worker or by two, whatever the clock *)
(* does: every successful call adds a new one (spec 5.5.1), that fits.      *)
NeverReused ==
  [][generator' # generator => issued' # issued /\ IdentitiesFit']_generatorVars

=============================================================================
