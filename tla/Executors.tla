----------------------------- MODULE Executors -----------------------------
(***************************************************************************)
(* How the work of a death leaves the simulation and comes back.  Three    *)
(* executors, for deaths, portals of life and penalties, each with a       *)
(* bounded queue that work is reserved in, prepared for, and activated     *)
(* into; workers that store it; and one mailbox by which they answer the   *)
(* simulation.  Executors stop and drain while reservations are in hand;   *)
(* the engine stops while workers wait for it.                             *)
(* persist/death_executor.go, death_reservation.go, death_portal.go,       *)
(* death_penalty.go; sim/ingress.go and Engine.Run.                        *)
(*                                                                         *)
(* What is stored, and what the simulation makes of the answer, is Death;  *)
(* here a job is stored, found not to be, or cannot be told.               *)
(***************************************************************************)
EXTENDS Naturals, Sequences, FiniteSets

CONSTANTS
    Jobs, KindOf, CharacterOf,  \* the work there is: its executor, and for whom
    Workers, WorkerOf,          \* the workers of each executor
    QueueCapacity,
    Mailbox,                    \* sim ingress capacity; 256 in the code
    MaxExecutors,               \* bound: executors that a process runs
    MaxJobs,                    \* bound: reservations made
    MaxRuns                     \* bound: times the engine is run

Kinds == {"death", "portal", "penalty"}

ASSUME ExecutorConstants ==
    /\ IsFiniteSet(Jobs) /\ IsFiniteSet(Workers)
    /\ KindOf \in [Jobs -> Kinds]
    /\ WorkerOf \in [Workers -> Kinds]
    /\ Workers \cap Kinds = {}
    /\ {QueueCapacity, Mailbox, MaxExecutors, MaxJobs, MaxRuns} \subseteq Nat
    /\ QueueCapacity > 0 /\ Mailbox > 0

(* Run drains the queue after its workers were told to stop, so it is a     *)
(* thread as they are.                                                      *)
Threads == Workers \cup Kinds
Serves(t) == IF t \in Workers THEN WorkerOf[t] ELSE t

VARIABLES
    run,      \* of each executor: "absent", "new", "running", "draining" or
              \* "returned"
    permits,
    queue,
    work,     \* of each job: its reservation's state, the call being made on
              \* it, whether it holds its character, whether its transaction
              \* was tried, and the results sent
    thread,
    owner,    \* what the simulation knows of each job
    done,     \* the executors' context
    engine,   \* whether it runs, and how often it did
    mail      \* the threads that wait in the mailbox

vars == <<run, permits, queue, work, thread, owner, done, engine, mail>>

Running(k) == run[k] = "running"
Idle == [at |-> "idle"]

Unreserved == [state |-> "none", call |-> "none", held |-> FALSE, tried |-> FALSE, results |-> 0]

(* ReserveCriticalSet succeeds at once or not at all.                       *)
Free(character) == \A j \in Jobs : CharacterOf[j] = character => ~work[j].held

ReleasePermit(k) == permits' = [permits EXCEPT ![k] = @ + 1]

-----------------------------------------------------------------------------
(* Reserving: a permit now is a place in the queue later.                   *)

TakePermit(j, becomes) ==
    /\ work[j].state = "none"
    /\ Cardinality({i \in Jobs : work[i].state # "none"}) < MaxJobs
    /\ Running(KindOf[j])
    /\ permits[KindOf[j]] > 0
    /\ permits' = [permits EXCEPT ![KindOf[j]] = @ - 1]
    /\ work' = [work EXCEPT ![j] = becomes]
    /\ UNCHANGED <<run, thread, done, engine, mail>>

Reserved == [Unreserved EXCEPT !.state = "reserved"]

ReserveImmediateDeath(j) ==
    KindOf[j] = "death" /\ TakePermit(j, Reserved) /\ UNCHANGED <<queue, owner>>

ReservePortalOfLife(j) ==
    KindOf[j] = "portal" /\ TakePermit(j, Reserved) /\ UNCHANGED <<queue, owner>>

(* Penalties reserve their character as well, or give the permit back.      *)
ReserveDeathPenaltyWork(j) ==
    /\ KindOf[j] = "penalty"
    /\ Free(CharacterOf[j])
    /\ TakePermit(j, [Reserved EXCEPT !.held = TRUE])
    /\ UNCHANGED <<queue, owner>>

(* A death may also be submitted in one call.                               *)
TrySubmit(j) ==
    /\ KindOf[j] = "death"
    /\ TakePermit(j, [Unreserved EXCEPT !.state = "activated"])
    /\ queue' = [queue EXCEPT !["death"] = Append(@, j)]
    /\ owner' = [owner EXCEPT ![j] = "waiting"]

-----------------------------------------------------------------------------
(* Preparing: the request is mapped outside the reservation's lock, so it   *)
(* may be cancelled meanwhile.                                              *)

BeginPrepare(j) ==
    /\ work[j].state = "reserved"
    /\ work[j].call = "none"
    /\ work' = [work EXCEPT ![j].call = "mapping"]
    /\ UNCHANGED <<run, permits, queue, thread, owner, done, engine, mail>>

(* The portal reserves its character while it prepares.                     *)
HoldCharacter(j) ==
    /\ KindOf[j] = "portal"
    /\ work[j].call = "mapping"
    /\ Free(CharacterOf[j])
    /\ work' = [work EXCEPT ![j].call = "holding", ![j].held = TRUE]
    /\ UNCHANGED <<run, permits, queue, thread, owner, done, engine, mail>>

GiveUp(j) ==
    /\ work' = [work EXCEPT ![j].state = "cancelled", ![j].call = "none", ![j].held = FALSE]
    /\ ReleasePermit(KindOf[j])

BePrepared(j) ==
    /\ work' = [work EXCEPT ![j].state = "prepared", ![j].call = "none"]
    /\ UNCHANGED permits

(* Mutant: that it was cancelled meanwhile is not noticed.                  *)
PrepareRegardless(j, ready) ==
    /\ IF ready THEN BePrepared(j) ELSE GiveUp(j)
    /\ UNCHANGED <<run, queue, thread, owner, done, engine, mail>>

EndPrepare(j, ready) ==
    /\ \/ /\ work[j].state # "reserved"
          /\ work' = [work EXCEPT ![j].call = "none", ![j].held = FALSE]
          /\ UNCHANGED permits
       \/ work[j].state = "reserved" /\ ready /\ BePrepared(j)
       \/ work[j].state = "reserved" /\ ~ready /\ GiveUp(j)
    /\ UNCHANGED <<run, queue, thread, owner, done, engine, mail>>

PrepareImmediateDeathWork(j) ==
    /\ KindOf[j] = "death"
    /\ work[j].call = "mapping"
    /\ \E ready \in BOOLEAN : EndPrepare(j, ready)

PreparePortalOfLifeWork(j) ==
    /\ KindOf[j] = "portal"
    /\ work[j].call \in {"mapping", "holding"}
    /\ EndPrepare(j, work[j].call = "holding")

PrepareDeathPenaltyWork(j) ==
    /\ KindOf[j] = "penalty"
    /\ work[j].call = "mapping"
    /\ \E ready \in BOOLEAN : EndPrepare(j, ready)

-----------------------------------------------------------------------------
(* Cancelling gives back what was not activated, once; a portal's character *)
(* that is just being reserved is let go by the preparation.                *)

CancelWork(j) ==
    /\ work[j].state \in {"reserved", "prepared"}
    /\ work' = [work EXCEPT ![j].state = "cancelled",
                            ![j].held = work[j].call = "holding",
                            ![j].results = IF work[j].state = "prepared" THEN @ + 1 ELSE @]
    /\ ReleasePermit(KindOf[j])
    /\ UNCHANGED <<run, queue, thread, owner, done, engine, mail>>

CancelImmediateDeathWork(j) == KindOf[j] = "death" /\ CancelWork(j)
CancelPortalOfLifeWork(j) == KindOf[j] = "portal" /\ CancelWork(j)
CancelDeathPenaltyWork(j) == KindOf[j] = "penalty" /\ CancelWork(j)

-----------------------------------------------------------------------------
(* Activating: into the queue, which has the room, or back to the caller if *)
(* the executor stopped meanwhile.                                          *)

Activate(j, refused) ==
    LET k == KindOf[j]
        queues == Running(k) /\ Len(queue[k]) < QueueCapacity
    IN /\ work[j].state = "prepared"
       /\ IF queues
          THEN /\ queue' = [queue EXCEPT ![k] = Append(@, j)]
               /\ work' = [work EXCEPT ![j].state = "activated"]
               /\ owner' = [owner EXCEPT ![j] = "waiting"]
               /\ UNCHANGED permits
          ELSE /\ work' = [work EXCEPT ![j].state = "activated", ![j].held = FALSE,
                                       ![j].results = @ + 1]
               /\ owner' = [owner EXCEPT ![j] = refused]
               /\ ReleasePermit(k)
               /\ UNCHANGED queue
       /\ UNCHANGED <<run, thread, done, engine, mail>>

(* The player is dying by then, and is not told.                            *)
ActivateImmediateDeathWork(j) == KindOf[j] = "death" /\ Activate(j, "waiting")

ActivatePortalOfLifeWork(j) == KindOf[j] = "portal" /\ Activate(j, "let go")

ActivateDeathPenaltyWork(j) == KindOf[j] = "penalty" /\ Activate(j, "let go")

-----------------------------------------------------------------------------
(* Run, and its end: no work is taken on, what is queued is given up, and   *)
(* Run returns when its workers have.                                       *)

Run(k) ==
    /\ run[k] = "new"
    /\ ~done
    /\ run' = [run EXCEPT ![k] = "running"]
    /\ UNCHANGED <<permits, queue, work, thread, owner, done, engine, mail>>

StopRunning(k) ==
    /\ Running(k)
    /\ done
    /\ run' = [run EXCEPT ![k] = "draining"]
    /\ UNCHANGED <<permits, queue, work, thread, owner, done, engine, mail>>

(* Mutant: Run does not wait for its workers.                               *)
ReturnEarly(k) ==
    /\ run[k] = "draining"
    /\ thread[k] = Idle
    /\ queue[k] = <<>>
    /\ run' = [run EXCEPT ![k] = "returned"]
    /\ UNCHANGED <<permits, queue, work, thread, owner, done, engine, mail>>

Return(k) ==
    /\ run[k] = "draining"
    /\ thread[k] = Idle
    /\ queue[k] = <<>>
    /\ \A w \in Workers : WorkerOf[w] = k => thread[w].at = "exited"
    /\ run' = [run EXCEPT ![k] = "returned"]
    /\ UNCHANGED <<permits, queue, work, thread, owner, done, engine, mail>>

Exit(w) ==
    /\ thread[w] = Idle
    /\ done
    /\ run[WorkerOf[w]] # "new"
    /\ thread' = [thread EXCEPT ![w] = [at |-> "exited"]]
    /\ UNCHANGED <<run, permits, queue, work, owner, done, engine, mail>>

(* A worker's receive may win over the end of the context.                  *)
Take(t) ==
    LET k == Serves(t)
    IN /\ thread[t] = Idle
       /\ t \in Kinds => run[k] = "draining"
       /\ queue[k] # <<>>
       /\ queue' = [queue EXCEPT ![k] = Tail(@)]
       /\ thread' = [thread EXCEPT ![t] = [at |-> "taken", job |-> Head(queue[k])]]
       /\ UNCHANGED <<run, permits, work, owner, done, engine, mail>>

(* The result is sent; a worker that gave up because it was told to stop    *)
(* is gone.                                                                 *)
Finish(t, j, next) ==
    /\ work' = [work EXCEPT ![j].results = @ + 1, ![j].held = FALSE]
    /\ thread' = [thread EXCEPT ![t] = next]

After(t) == IF t \in Workers /\ thread[t].last THEN [at |-> "exited"] ELSE Idle

(* The permit goes back as soon as the job is out of the queue.  Then a     *)
(* worker looks whether it should still run, and Run need not.              *)
GiveBack(t) ==
    LET j == thread[t].job
        givesUp == t \in Kinds \/ done
    IN /\ thread[t].at = "taken"
       /\ ReleasePermit(Serves(t))
       /\ IF ~givesUp
          THEN /\ thread' = [thread EXCEPT ![t] = [at |-> "store", job |-> j]]
               /\ UNCHANGED work
          ELSE IF KindOf[j] = "death"
          THEN Finish(t, j, IF t \in Workers THEN [at |-> "exited"] ELSE Idle)
          ELSE /\ work' = [work EXCEPT ![j].held = FALSE]
               /\ thread' = [thread EXCEPT ![t] =
                      [at |-> "deliver", job |-> j, what |-> "let go", last |-> TRUE]]
       /\ UNCHANGED <<run, queue, owner, done, engine, mail>>

-----------------------------------------------------------------------------
(* Storing.  A portal or penalties that never came to their transaction are *)
(* let go; what was tried and cannot be proved is left as it is.            *)

Delivers(t, j, what) ==
    thread' = [thread EXCEPT ![t] = [at |-> "deliver", job |-> j, what |-> what, last |-> FALSE]]

StoreDeath(t) ==
    LET j == thread[t].job
    IN /\ thread[t].at = "store"
       /\ KindOf[j] = "death"
       /\ \/ work' = [work EXCEPT ![j].tried = TRUE] /\ Delivers(t, j, "settled")
          \/ Finish(t, j, Idle)
       /\ UNCHANGED <<run, permits, queue, owner, done, engine, mail>>

(* Mutant: whatever failed is let go.                                       *)
LetGoWhateverFailed(t) ==
    LET j == thread[t].job
        over == [work EXCEPT ![j].held = FALSE]
    IN /\ thread[t].at = "store"
       /\ KindOf[j] # "death"
       /\ \/ work' = [over EXCEPT ![j].tried = TRUE] /\ Delivers(t, j, "settled")
          \/ work' = [over EXCEPT ![j].tried = TRUE] /\ Delivers(t, j, "let go")
       /\ UNCHANGED <<run, permits, queue, owner, done, engine, mail>>

StoreReserved(t) ==
    LET j == thread[t].job
        over == [work EXCEPT ![j].held = FALSE]
    IN /\ thread[t].at = "store"
       /\ KindOf[j] # "death"
       /\ \/ work' = [over EXCEPT ![j].tried = TRUE] /\ Delivers(t, j, "settled")
          \/ work' = [over EXCEPT ![j].tried = TRUE, ![j].results = @ + 1]
             /\ thread' = [thread EXCEPT ![t] = Idle]
          \/ work' = over /\ Delivers(t, j, "let go")
       /\ UNCHANGED <<run, permits, queue, owner, done, engine, mail>>

StorePortal(t) == thread[t].at = "store" /\ KindOf[thread[t].job] = "portal" /\ StoreReserved(t)

StorePenalty(t) == thread[t].at = "store" /\ KindOf[thread[t].job] = "penalty" /\ StoreReserved(t)

-----------------------------------------------------------------------------
(* Delivering.  Admission to the mailbox does not wait: it may find the     *)
(* engine stopped, or the mailbox full, which alone is tried again.  What   *)
(* was admitted is waited for without limit.                                *)

admit(who) ==
    /\ engine.running
    /\ Len(mail) < Mailbox
    /\ mail' = Append(mail, who)

Enqueues(t) ==
    /\ admit(t)
    /\ thread' = [thread EXCEPT ![t].at = "waiting"]
    /\ UNCHANGED <<run, permits, queue, work, owner, done, engine>>

GivesUp(t) ==
    /\ Finish(t, thread[t].job, After(t))
    /\ UNCHANGED <<run, permits, queue, owner, done, engine, mail>>

(* A completion is tried until the context ends; letting go has a time of   *)
(* its own, that the end of the context does not shorten.                   *)
Deliver(t) ==
    /\ thread[t].at = "deliver"
    /\ thread[t].what = "settled"
    /\ \/ ~done /\ Enqueues(t)
       \/ (done \/ ~engine.running) /\ GivesUp(t)

DeliverLetGo(t) ==
    /\ thread[t].at = "deliver"
    /\ thread[t].what = "let go"
    /\ Enqueues(t) \/ GivesUp(t)

DeliverDeath(t) == thread[t].at = "deliver" /\ KindOf[thread[t].job] = "death" /\ Deliver(t)
DeliverPortal(t) == thread[t].at = "deliver" /\ KindOf[thread[t].job] = "portal" /\ Deliver(t)
DeliverPenalty(t) == thread[t].at = "deliver" /\ KindOf[thread[t].job] = "penalty" /\ Deliver(t)

deliverAbort(t) ==
    thread[t].at = "deliver" /\ KindOf[thread[t].job] = "portal" /\ DeliverLetGo(t)

deliverRetryable(t) ==
    thread[t].at = "deliver" /\ KindOf[thread[t].job] = "penalty" /\ DeliverLetGo(t)

Answered(t) ==
    /\ thread[t].at = "answered"
    /\ Finish(t, thread[t].job, After(t))
    /\ UNCHANGED <<run, permits, queue, owner, done, engine, mail>>

-----------------------------------------------------------------------------
(* The engine: one command at a time, and when it stops, everyone who still *)
(* waits is told.  It may be run again.                                     *)

EngineRun ==
    /\ ~engine.running
    /\ engine.runs < MaxRuns
    /\ engine' = [engine EXCEPT !.running = TRUE, !.runs = @ + 1]
    /\ UNCHANGED <<run, permits, queue, work, thread, owner, done, mail>>

runIngressStep ==
    LET t == Head(mail)
    IN /\ engine.running
       /\ mail # <<>>
       /\ mail' = Tail(mail)
       /\ thread' = [thread EXCEPT ![t].at = "answered"]
       /\ owner' = [owner EXCEPT ![thread[t].job] = thread[t].what]
       /\ UNCHANGED <<run, permits, queue, work, done, engine>>

(* Mutant: the engine stops without a look into its mailbox.                *)
StopOnly ==
    /\ engine.running
    /\ engine' = [engine EXCEPT !.running = FALSE]
    /\ UNCHANGED <<run, permits, queue, work, thread, owner, done, mail>>

releaseRun ==
    /\ engine.running
    /\ engine' = [engine EXCEPT !.running = FALSE]
    /\ mail' = <<>>
    /\ thread' = [t \in Threads |-> IF thread[t].at = "waiting" THEN [thread[t] EXCEPT !.at = "answered"]
                                    ELSE thread[t]]
    /\ UNCHANGED <<run, permits, queue, work, owner, done>>

Cancel ==
    /\ ~done
    /\ done' = TRUE
    /\ UNCHANGED <<run, permits, queue, work, thread, owner, engine, mail>>

-----------------------------------------------------------------------------
Init ==
    /\ run \in {r \in [Kinds -> {"absent", "new"}] :
                   Cardinality({k \in Kinds : r[k] = "new"}) =< MaxExecutors}
    /\ permits = [k \in Kinds |-> QueueCapacity]
    /\ queue = [k \in Kinds |-> <<>>]
    /\ work = [j \in Jobs |-> Unreserved]
    /\ thread = [t \in Threads |-> Idle]
    /\ owner = [j \in Jobs |-> "none"]
    /\ done = FALSE
    /\ engine = [running |-> FALSE, runs |-> 0]
    /\ mail = <<>>

Caller(j) ==
    \/ ReserveImmediateDeath(j) \/ ReservePortalOfLife(j) \/ ReserveDeathPenaltyWork(j) \/ TrySubmit(j)
    \/ BeginPrepare(j) \/ HoldCharacter(j)
    \/ PrepareImmediateDeathWork(j) \/ PreparePortalOfLifeWork(j) \/ PrepareDeathPenaltyWork(j)
    \/ ActivateImmediateDeathWork(j) \/ ActivatePortalOfLifeWork(j) \/ ActivateDeathPenaltyWork(j)
    \/ CancelImmediateDeathWork(j) \/ CancelPortalOfLifeWork(j) \/ CancelDeathPenaltyWork(j)

Thread(t) ==
    \/ Take(t) \/ GiveBack(t) \/ StoreDeath(t) \/ StorePortal(t) \/ StorePenalty(t)
    \/ DeliverDeath(t) \/ DeliverPortal(t) \/ DeliverPenalty(t)
    \/ deliverAbort(t) \/ deliverRetryable(t) \/ Answered(t)

worker(w) == Exit(w) \/ Thread(w)

Executor(k) == StopRunning(k) \/ Return(k) \/ Thread(k)

Engine == runIngressStep \/ releaseRun

Next ==
    \/ \E j \in Jobs : Caller(j)
    \/ \E w \in Workers : worker(w)
    \/ \E k \in Kinds : Run(k) \/ Executor(k)
    \/ EngineRun \/ Engine \/ Cancel

Goroutines ==
    \/ \E w \in Workers : worker(w)
    \/ \E k \in Kinds : Executor(k)
    \/ runIngressStep

(* Goroutines run; nobody has to reserve, cancel, start or stop anything.   *)
Spec == Init /\ [][Next]_vars /\ WF_vars(Goroutines)

-----------------------------------------------------------------------------
(* Properties.                                                              *)

Of(k) == {j \in Jobs : KindOf[j] = k}

(* A permit is a place in the queue that is free or spoken for: whoever     *)
(* prepared, failed, cancelled or was refused gave back exactly his own, so *)
(* that activated work always finds its place.  And a character is held by  *)
(* one reservation at most, and by none that is over.                       *)
ReservationsBalanced ==
    /\ \A k \in Kinds :
        permits[k] + Len(queue[k])
            + Cardinality({j \in Of(k) : work[j].state \in {"reserved", "prepared"}})
            + Cardinality({t \in Threads : Serves(t) = k /\ thread[t].at = "taken"})
        = QueueCapacity
    /\ \A i, j \in Jobs : work[i].held /\ work[j].held /\ CharacterOf[i] = CharacterOf[j] => i = j
    /\ \A j \in Jobs :
        work[j].held => /\ work[j].results = 0
                        /\ work[j].call = "holding" \/ work[j].state \notin {"none", "cancelled"}

(* No result is sent twice, and when Run returns, no activated work is left *)
(* without one: not in the queue, and not with a worker.                    *)
AnsweredOnce ==
    \A j \in Jobs :
        /\ work[j].results =< 1
        /\ run[KindOf[j]] = "returned" /\ work[j].state = "activated" => work[j].results = 1

(* The simulation lets go of an attempt, to make it again, only if its      *)
(* transaction was never tried; and takes it for done only if it was.       *)
LetGoOnlyUntried ==
    \A j \in Jobs : /\ owner[j] = "let go" => ~work[j].tried
                    /\ owner[j] = "settled" => work[j].tried

(* Activated work gets its result, and Run returns once it was told to,     *)
(* also when the engine stops while it is waited for.                       *)
ResultsArrive ==
    LET Unanswered == \E j \in Jobs : work[j].state = "activated" /\ work[j].results = 0
        Draining == \E k \in Kinds : run[k] = "draining"
    IN (Unanswered ~> ~Unanswered) /\ (Draining ~> ~Draining)

=============================================================================
