---------------------------- MODULE WorldSession ----------------------------
(***************************************************************************)
(* The life of gateway sessions: connecting, entering the world under the  *)
(* account guard with takeover of an older session and rollback, leaving,  *)
(* deletion of characters, disconnects, and the stale sweep.               *)
(*                                                                         *)
(*   session/session.go              registry, byChar, guard               *)
(*   gateway/enter_world_handler.go  enter, takeoverOld, retireKicked      *)
(*   gateway/world_runtime.go        pending, PrepareEnter .. ExitWorld    *)
(*   gateway/character_handler.go    leave, delete                         *)
(*   gateway/liveness.go             Reap, Sweep, pings                    *)
(*                                                                         *)
(* A connection is served by one goroutine, named like its session; the    *)
(* Sweeper is one more.  What a goroutine does while it holds the account  *)
(* guard is cut where another one, which does not hold it, can look.       *)
(***************************************************************************)
EXTENDS Naturals, FiniteSets

CONSTANTS
    Session,      \* session ids, one per connection, never reused
    Account,
    Character,
    AccountOf,    \* the account a session's token proves
    OwnerOf,      \* the account a character belongs to
    Sweeper,      \* the goroutine of the stale sweep
    None,
    MaxEntities   \* bound: entity ids the simulation hands out

ASSUME WorldConstants ==
    /\ AccountOf \in [Session -> Account]
    /\ OwnerOf \in [Character -> Account]
    /\ None \notin Session \cup Character \cup {Sweeper}
    /\ Sweeper \notin Session
    /\ MaxEntities \in Nat
    /\ None \notin [char : Character, entity : 1 .. MaxEntities]
    /\ None \notin [char : Character, entity : 1 .. MaxEntities, stale : BOOLEAN]

VARIABLES
    registry,     \* session -> state and bound character (session.Registry.byID)
    byChar,       \* character -> the session bound to it
    guard,        \* account -> the goroutine holding its lifecycle guard
    conn,         \* session -> is its transport open
    job,          \* goroutine -> where it is, for whom, for which character
    todo,         \* the stale sessions the running sweep still has to visit
    pending,      \* session -> its staged entry in the world runtime
    presence,     \* session -> its active presence
    world,        \* character -> its live entity in the simulation, 0 for none
    lastEntity,   \* the newest entity id
    quiet,        \* characters quiesced by the flush of a world exit
    unsaved,      \* characters whose entity holds progress no flush has saved
    exists        \* characters that are not deleted

sessionVars == <<registry, byChar>>
entryVars == <<pending, presence>>
simVars == <<world, lastEntity, quiet, unsaved>>
vars == <<registry, byChar, guard, conn, job, todo, pending, presence,
          world, lastEntity, quiet, unsaved, exists>>

Proc == Session \cup {Sweeper}

States == {"NEW", "CONNECTED", "AUTHENTICATED", "CHARACTER_SELECTED", "IN_WORLD", "GONE"}

WorldActive == {"CHARACTER_SELECTED", "IN_WORLD"}

Registered(s) == registry[s].state \notin {"NEW", "GONE"}

(* "lock": waiting for the guard; "flush" .. "unbind": inside a world exit;  *)
(* "kick" .. "boot": the rest of an enter; "move": an intent under way.      *)
Points == {"new", "idle", "lock", "flush", "remove", "clear", "unbind", "kick",
           "close", "begin", "stage", "stream", "complete", "boot", "move",
           "teardown", "end"}

Tasks == {"none", "enter", "leave", "delete", "reap"}

Idle == [at |-> "idle", task |-> "none", sid |-> None, char |-> None, entity |-> 0]

Goto(p, label) == job' = [job EXCEPT ![p].at = label]

Rest(p) == job' = [job EXCEPT ![p] = Idle]

(* A handler error that is not for the client ends the connection.           *)
Fail(p) == job' = [job EXCEPT ![p] = [Idle EXCEPT !.at = "teardown"]]

Init ==
    /\ registry = [s \in Session |-> [state |-> "NEW", char |-> None]]
    /\ byChar = [c \in Character |-> None]
    /\ guard = [a \in Account |-> None]
    /\ conn = [s \in Session |-> "closed"]
    /\ job = [p \in Proc |-> IF p = Sweeper THEN Idle ELSE [Idle EXCEPT !.at = "new"]]
    /\ todo = {}
    /\ pending = [s \in Session |-> None]
    /\ presence = [s \in Session |-> None]
    /\ world = [c \in Character |-> 0]
    /\ lastEntity = 0
    /\ quiet = {}
    /\ unsaved = {}
    /\ exists = Character

-----------------------------------------------------------------------------
(* The registry's operations: what each changes, and when it refuses.       *)

Bound(s, c) == registry[s].char = c /\ byChar[c] = s

(* CompleteLeaveWorld, AbortEnterWorld: back to AUTHENTICATED, unbound.      *)
CanUnbind(s, c, from) == registry[s].state = from /\ Bound(s, c)

Unbind(s, c) ==
    /\ registry' = [registry EXCEPT ![s] = [state |-> "AUTHENTICATED", char |-> None]]
    /\ byChar' = [byChar EXCEPT ![c] = None]

(* Remove: idempotent, and clears the index only of a binding it owns.       *)
Remove(s) ==
    /\ registry' = [registry EXCEPT ![s] = [state |-> "GONE", char |-> None]]
    /\ byChar' = [c \in Character |-> IF byChar[c] = s THEN None ELSE byChar[c]]

(* WorldSessionForAccount(account, exclude).                                 *)
WorldSessions(a, exclude) ==
    {s \in Session \ {exclude} : AccountOf[s] = a /\ registry[s].state \in WorldActive}

Free(s) == guard[AccountOf[s]] = None

Take(p, s) == guard' = [guard EXCEPT ![AccountOf[s]] = p]

Release(p) == guard' = [a \in Account |-> IF guard[a] = p THEN None ELSE guard[a]]

-----------------------------------------------------------------------------
(* Connections.                                                             *)

Connect(s) ==
    /\ job[s].at = "new"
    /\ registry' = [registry EXCEPT ![s].state = "CONNECTED"]
    /\ conn' = [conn EXCEPT ![s] = "open"]
    /\ Rest(s)
    /\ UNCHANGED <<byChar, guard, todo, entryVars, simVars, exists>>

(* A frame is read from an open transport by the idle read loop, and its     *)
(* opcode has to be allowed in the state the gate reads.                     *)
Receives(s, state) ==
    /\ job[s].at = "idle"
    /\ conn[s] = "open"
    /\ registry[s].state = state

Hello(s) ==
    /\ Receives(s, "CONNECTED")
    /\ registry' = [registry EXCEPT ![s].state = "AUTHENTICATED"]
    /\ UNCHANGED <<byChar, guard, conn, job, todo, entryVars, simVars, exists>>

RequestEnter(s, c) ==
    /\ Receives(s, "AUTHENTICATED")
    /\ OwnerOf[c] = AccountOf[s]
    /\ job' = [job EXCEPT ![s] = [Idle EXCEPT !.at = "lock", !.task = "enter", !.char = c]]
    /\ UNCHANGED <<sessionVars, guard, conn, todo, entryVars, simVars, exists>>

RequestDelete(s, c) ==
    /\ Receives(s, "AUTHENTICATED")
    /\ OwnerOf[c] = AccountOf[s]
    /\ c \in exists
    /\ job' = [job EXCEPT ![s] = [Idle EXCEPT !.at = "lock", !.task = "delete", !.char = c]]
    /\ UNCHANGED <<sessionVars, guard, conn, todo, entryVars, simVars, exists>>

RequestLeave(s) ==
    /\ Receives(s, "IN_WORLD")
    /\ job' = [job EXCEPT ![s] = [Idle EXCEPT !.at = "lock", !.task = "leave", !.sid = s]]
    /\ UNCHANGED <<sessionVars, guard, conn, todo, entryVars, simVars, exists>>

(* The read loop finds a frame of a session somebody removed: it ends.       *)
Vanished(s) ==
    /\ Receives(s, "GONE")
    /\ Fail(s)
    /\ UNCHANGED <<sessionVars, guard, conn, todo, entryVars, simVars, exists>>

(* Network loss, the client, or a failed ping (CloseNow): at any time.       *)
Disconnect(s) ==
    /\ conn[s] = "open"
    /\ conn' = [conn EXCEPT ![s] = "closed"]
    /\ UNCHANGED <<sessionVars, guard, job, todo, entryVars, simVars, exists>>

(* handleMove reads the presence, then submits to the entity it found there. *)
ReadMove(s) ==
    /\ Receives(s, "IN_WORLD")
    /\ \/ /\ presence[s] = None
          /\ Fail(s)
       \/ /\ presence[s] # None
          /\ job' = [job EXCEPT ![s] = [Idle EXCEPT !.at = "move", !.char = presence[s].char,
                                                    !.entity = presence[s].entity]]
    /\ UNCHANGED <<sessionVars, guard, conn, todo, entryVars, simVars, exists>>

(* EnqueueMove: an entity that is gone fails the connection, a full mailbox  *)
(* is a retry.  A quiesced character makes no further progress.              *)
SubmitMove(s) ==
    /\ job[s].at = "move"
    /\ LET c == job[s].char IN
       \/ /\ world[c] # job[s].entity
          /\ Fail(s)
          /\ UNCHANGED unsaved
       \/ /\ world[c] = job[s].entity
          /\ unsaved' \in {unsaved, IF c \in quiet THEN unsaved ELSE unsaved \cup {c}}
          /\ Rest(s)
    /\ UNCHANGED <<sessionVars, guard, conn, todo, entryVars, world, lastEntity, quiet, exists>>

-----------------------------------------------------------------------------
(* World exit, inside the guard: flush, remove the entity, drop presence.   *)

(* Whoever called it: the client is told to retry, or the cleanup is left    *)
(* to the next sweep or takeover.                                            *)
AfterReap(p) == [Idle EXCEPT !.at = IF p = Sweeper THEN "idle" ELSE "end"]

GiveUpExit(p) ==
    /\ Release(p)
    /\ job' = [job EXCEPT ![p] = IF @.task = "reap" THEN AfterReap(p) ELSE Idle]

(* The downstream seam quiesces the character and saves it.                  *)
Flush(p) ==
    /\ job[p].at = "flush"
    /\ LET s == job[p].sid IN
       /\ presence[s] # None
       /\ presence[s].char = registry[s].char
       /\ quiet' = quiet \cup {presence[s].char}
       /\ unsaved' = unsaved \ {presence[s].char}
    /\ Goto(p, "remove")
    /\ UNCHANGED <<sessionVars, guard, conn, todo, entryVars, world, lastEntity, exists>>

(* Mutant: a takeover goes on without the flush.                             *)
FlushFailsIgnored(p) ==
    /\ job[p].at = "flush"
    /\ job[p].task = "enter"
    /\ Goto(p, "unbind")
    /\ UNCHANGED <<sessionVars, guard, conn, todo, entryVars, simVars, exists>>

FlushFails(p) ==
    /\ job[p].at = "flush"
    /\ GiveUpExit(p)
    /\ UNCHANGED <<sessionVars, conn, todo, entryVars, simVars, exists>>

(* EnqueueRemoveEntity through the simulation's mailbox.                     *)
RemoveEntity(p) ==
    /\ job[p].at = "remove"
    /\ LET pr == presence[job[p].sid] IN
       /\ world[pr.char] = pr.entity
       /\ world' = [world EXCEPT ![pr.char] = 0]
       /\ quiet' = quiet \ {pr.char}
       /\ unsaved' = unsaved \ {pr.char}
    /\ Goto(p, "clear")
    /\ UNCHANGED <<sessionVars, guard, conn, todo, entryVars, lastEntity, exists>>

RemoveEntityFails(p) ==
    /\ job[p].at = "remove"
    /\ GiveUpExit(p)
    /\ UNCHANGED <<sessionVars, conn, todo, entryVars, simVars, exists>>

(* Fanout removal, or its fallback, and Deactivate.                          *)
ClearPresence(p) ==
    /\ job[p].at = "clear"
    /\ presence' = [presence EXCEPT ![job[p].sid] = None]
    /\ Goto(p, "unbind")
    /\ UNCHANGED <<sessionVars, guard, conn, todo, pending, simVars, exists>>

(* A session the registry refuses to unbind ends the caller's connection.    *)
LeaveUnbinds(p) ==
    /\ job[p].at = "unbind"
    /\ job[p].task = "leave"
    /\ IF CanUnbind(p, registry[p].char, "IN_WORLD")
       THEN Unbind(p, registry[p].char) /\ Rest(p)
       ELSE Fail(p) /\ UNCHANGED sessionVars
    /\ Release(p)
    /\ UNCHANGED <<conn, todo, entryVars, simVars, exists>>

(* The reaper removes the session whether or not it could be unbound.        *)
ReapUnbinds(p) ==
    /\ job[p].at = "unbind"
    /\ job[p].task = "reap"
    /\ Remove(job[p].sid)
    /\ Release(p)
    /\ job' = [job EXCEPT ![p] = AfterReap(p)]
    /\ UNCHANGED <<conn, todo, entryVars, simVars, exists>>

(* An old session that vanished after its flush needs no unbinding.          *)
TakeoverUnbinds(p) ==
    /\ job[p].at = "unbind"
    /\ job[p].task = "enter"
    /\ LET old == job[p].sid IN
       \/ /\ CanUnbind(old, registry[old].char, "IN_WORLD")
          /\ Unbind(old, registry[old].char)
          /\ Goto(p, "kick")
          /\ UNCHANGED guard
       \/ /\ ~Registered(old)
          /\ Goto(p, "kick")
          /\ UNCHANGED <<sessionVars, guard>>
       \/ /\ Registered(old) /\ ~CanUnbind(old, registry[old].char, "IN_WORLD")
          /\ Fail(p)
          /\ Release(p)
          /\ UNCHANGED sessionVars
    /\ UNCHANGED <<conn, todo, entryVars, simVars, exists>>

(* retireKicked: the kick frame is best effort, the removal is not.          *)
Kick(p) ==
    /\ job[p].at = "kick"
    /\ Remove(job[p].sid)
    /\ Goto(p, "close")
    /\ UNCHANGED <<guard, conn, todo, entryVars, simVars, exists>>

CloseKicked(p) ==
    /\ job[p].at = "close"
    /\ conn' = [conn EXCEPT ![job[p].sid] = "closed"]
    /\ Goto(p, "begin")
    /\ UNCHANGED <<sessionVars, guard, todo, entryVars, simVars, exists>>

-----------------------------------------------------------------------------
(* The client's requests take the guard and read the session again.         *)

Locks(p, task) == job[p].at = "lock" /\ job[p].task = task /\ Free(p)

LeaveLocks(p) ==
    /\ Locks(p, "leave")
    /\ registry[p].state = "IN_WORLD"
    /\ Take(p, p)
    /\ Goto(p, "flush")
    /\ UNCHANGED <<sessionVars, conn, todo, entryVars, simVars, exists>>

(* Mutant: only a session of the same character is taken over.               *)
EnterLocksSameCharacter(p) ==
    /\ Locks(p, "enter")
    /\ registry[p].state = "AUTHENTICATED"
    /\ job[p].char \in exists
    /\ byChar[job[p].char] = None
    /\ Take(p, p)
    /\ Goto(p, "begin")
    /\ UNCHANGED <<sessionVars, conn, todo, entryVars, simVars, exists>>

EnterLocks(p) ==
    /\ Locks(p, "enter")
    /\ registry[p] = [state |-> "AUTHENTICATED", char |-> None]
    /\ job[p].char \in exists
    /\ LET others == WorldSessions(AccountOf[p], p) IN
       \/ /\ others = {}
          /\ Goto(p, "begin")
       \/ \E old \in others :
             /\ others = {old}
             /\ registry[old].state = "IN_WORLD"
             /\ job' = [job EXCEPT ![p].at = "flush", ![p].sid = old]
    /\ Take(p, p)
    /\ UNCHANGED <<sessionVars, conn, todo, entryVars, simVars, exists>>

(* An empty slot, or a lookup that fails: nobody is kicked for it.           *)
EnterRejected(p) ==
    /\ Locks(p, "enter")
    /\ registry[p].state = "AUTHENTICATED"
    /\ Rest(p)
    /\ UNCHANGED <<sessionVars, guard, conn, todo, entryVars, simVars, exists>>

(* The re-read found another state, or the account's sessions are not what   *)
(* the guard promises.                                                       *)
RequestFails(p) ==
    /\ \/ Locks(p, "leave") /\ registry[p].state # "IN_WORLD"
       \/ /\ Locks(p, "enter")
          /\ \/ registry[p] # [state |-> "AUTHENTICATED", char |-> None]
             \/ \E old \in WorldSessions(AccountOf[p], p) :
                   \/ WorldSessions(AccountOf[p], p) # {old}
                   \/ registry[old].state # "IN_WORLD"
    /\ Fail(p)
    /\ UNCHANGED <<sessionVars, guard, conn, todo, entryVars, simVars, exists>>

(* planDelete: lookup, in-use check and delete in one hold of the guard; an  *)
(* answer that is not OK changes nothing.  The session is not read again.    *)
Delete(p) ==
    /\ Locks(p, "delete")
    /\ \/ /\ byChar[job[p].char] = None
          /\ exists' = exists \ {job[p].char}
       \/ UNCHANGED exists
    /\ Rest(p)
    /\ UNCHANGED <<sessionVars, guard, conn, todo, entryVars, simVars>>

-----------------------------------------------------------------------------
(* The rest of enter: bind, stage the entity, stream, complete, commit.      *)

BeginEnterWorld(p) ==
    /\ job[p].at = "begin"
    /\ LET c == job[p].char IN
       IF registry[p] = [state |-> "AUTHENTICATED", char |-> None] /\ byChar[c] = None
       THEN /\ registry' = [registry EXCEPT ![p] = [state |-> "CHARACTER_SELECTED", char |-> c]]
            /\ byChar' = [byChar EXCEPT ![c] = p]
            /\ Goto(p, "stage")
            /\ UNCHANGED guard
       ELSE Fail(p) /\ Release(p) /\ UNCHANGED sessionVars
    /\ UNCHANGED <<conn, todo, entryVars, simVars, exists>>

(* AbortEnterWorld, or CompleteLeaveWorld after the commit.                  *)
DropBinding(p, from) ==
    IF CanUnbind(p, job[p].char, from) THEN Unbind(p, job[p].char) ELSE UNCHANGED sessionVars

(* The reservation is taken first: a second one for the session is refused.  *)
PrepareEnter(p) ==
    /\ job[p].at = "stage"
    /\ pending[p] = None
    /\ LET c == job[p].char IN
       /\ world[c] = 0
       /\ lastEntity < MaxEntities
       /\ lastEntity' = lastEntity + 1
       /\ world' = [world EXCEPT ![c] = lastEntity']
       /\ pending' = [pending EXCEPT ![p] = [char |-> c, entity |-> lastEntity']]
    /\ Goto(p, "stream")
    /\ UNCHANGED <<sessionVars, guard, conn, todo, presence, quiet, unsaved, exists>>

(* The bootstrap cannot be loaded or the mailbox is full: retry, and no      *)
(* reservation stays.                                                        *)
PrepareUnavailable(p) ==
    /\ job[p].at = "stage"
    /\ pending[p] = None
    /\ DropBinding(p, "CHARACTER_SELECTED")
    /\ Release(p)
    /\ Rest(p)
    /\ UNCHANGED <<conn, todo, entryVars, simVars, exists>>

(* ErrWorldEntryPending, or the simulation's ErrCharacterAlreadyActive.      *)
PrepareRefused(p) ==
    /\ job[p].at = "stage"
    /\ pending[p] # None \/ world[job[p].char] # 0
    /\ DropBinding(p, "CHARACTER_SELECTED")
    /\ Release(p)
    /\ Fail(p)
    /\ UNCHANGED <<conn, todo, entryVars, simVars, exists>>

(* AbortEnter: the entity, then the pending entry; an entity the mailbox     *)
(* would not remove keeps its entry.  The caller never looks.                *)
AbortEnter(p) ==
    \/ /\ pending[p] # None
       /\ world[pending[p].char] = pending[p].entity
       /\ world' = [world EXCEPT ![pending[p].char] = 0]
       /\ unsaved' = unsaved \ {pending[p].char}
       /\ pending' = [pending EXCEPT ![p] = None]
       /\ UNCHANGED <<lastEntity, quiet>>
    \/ UNCHANGED <<simVars, pending>>

(* 217, the baseline and 219 go out, or one of them fails and both layers    *)
(* are rolled back.                                                          *)
StreamBaseline(p) ==
    /\ job[p].at = "stream"
    /\ conn[p] = "open"
    /\ Goto(p, "complete")
    /\ UNCHANGED <<sessionVars, guard, conn, todo, entryVars, simVars, exists>>

(* Mutant: the rollback forgets the session layer.                           *)
RollbackEntityOnly(p) ==
    /\ job[p].at = "stream"
    /\ AbortEnter(p)
    /\ Release(p)
    /\ Rest(p)
    /\ UNCHANGED <<sessionVars, conn, todo, presence, exists>>

RollbackStagedEnter(p) ==
    /\ job[p].at = "stream"
    /\ AbortEnter(p)
    /\ DropBinding(p, "CHARACTER_SELECTED")
    /\ Release(p)
    /\ Rest(p) \/ Fail(p)
    /\ UNCHANGED <<conn, todo, presence, exists>>

(* CompleteEnterWorld; the presence is not active yet.                       *)
CompleteEnterWorld(p) ==
    /\ job[p].at = "complete"
    /\ IF CanUnbind(p, job[p].char, "CHARACTER_SELECTED")
       THEN /\ registry' = [registry EXCEPT ![p].state = "IN_WORLD"]
            /\ Goto(p, "boot")
            /\ UNCHANGED <<byChar, guard, pending, simVars>>
       ELSE /\ AbortEnter(p)
            /\ Release(p)
            /\ Fail(p)
            /\ UNCHANGED sessionVars
    /\ UNCHANGED <<conn, todo, presence, exists>>

CanActivate(p) ==
    /\ pending[p] # None
    /\ presence[p] = None
    /\ \A s \in Session : presence[s] # None => presence[s].char # pending[p].char

Activate(p) ==
    /\ job[p].at = "boot"
    /\ presence[p] = None
    /\ CanActivate(p)
    /\ presence' = [presence EXCEPT ![p] =
                       [char |-> pending[p].char, entity |-> pending[p].entity, stale |-> FALSE]]
    /\ UNCHANGED <<sessionVars, guard, conn, job, todo, pending, simVars, exists>>

(* BootstrapSession, then the pending entry is dropped.                      *)
CommitEnter(p) ==
    /\ job[p].at = "boot"
    /\ presence[p] # None
    /\ pending' = [pending EXCEPT ![p] = None]
    /\ Release(p)
    /\ Rest(p)
    /\ UNCHANGED <<sessionVars, conn, todo, presence, simVars, exists>>

(* Activation or bootstrap failed after 219: everything is taken back.       *)
CommitFails(p) ==
    /\ job[p].at = "boot"
    /\ presence[p] # None \/ ~CanActivate(p)
    /\ presence' = [presence EXCEPT ![p] = None]
    /\ AbortEnter(p)
    /\ DropBinding(p, "IN_WORLD")
    /\ Release(p)
    /\ Fail(p)
    /\ UNCHANGED <<conn, todo, exists>>

-----------------------------------------------------------------------------
(* Disconnects, heartbeats and the stale sweep.                             *)

(* Reap(s), first look: a session that is gone needs nothing.                *)
ReapOf(s) == [Idle EXCEPT !.at = "lock", !.task = "reap", !.sid = s]

(* The read loop ended: the ping loop stops, the reaper starts.              *)
Teardown(s) ==
    /\ \/ job[s].at = "teardown"
       \/ job[s].at = "idle" /\ conn[s] = "closed"
    /\ conn' = [conn EXCEPT ![s] = "closed"]
    /\ CASE registry[s].state = "GONE" ->
              /\ job' = [job EXCEPT ![s] = AfterReap(s)]
              /\ UNCHANGED sessionVars
         [] registry[s].state = "CONNECTED" ->
              /\ Remove(s)
              /\ job' = [job EXCEPT ![s] = AfterReap(s)]
         [] OTHER ->
              /\ job' = [job EXCEPT ![s] = ReapOf(s)]
              /\ UNCHANGED sessionVars
    /\ UNCHANGED <<guard, todo, entryVars, simVars, exists>>

OwnedPresence(s) == presence[s] # None /\ registry[s].state = "IN_WORLD"

ReapLocks(p) ==
    /\ job[p].at = "lock"
    /\ job[p].task = "reap"
    /\ LET s == job[p].sid IN Free(s) /\ OwnedPresence(s) /\ Take(p, s)
    /\ Goto(p, "flush")
    /\ UNCHANGED <<sessionVars, conn, todo, entryVars, simVars, exists>>

(* Nothing in the world, or a presence no binding owns, which is dropped.    *)
ReapRemoves(p) ==
    /\ job[p].at = "lock"
    /\ job[p].task = "reap"
    /\ LET s == job[p].sid IN
       /\ Free(s)
       /\ ~OwnedPresence(s)
       /\ IF Registered(s)
          THEN Remove(s) /\ presence' = [presence EXCEPT ![s] = None]
          ELSE UNCHANGED <<sessionVars, presence>>
    /\ job' = [job EXCEPT ![p] = AfterReap(p)]
    /\ UNCHANGED <<guard, conn, todo, pending, simVars, exists>>

(* Too long without a pong.                                                  *)
Age(s) ==
    /\ presence[s] # None
    /\ ~presence[s].stale
    /\ presence' = [presence EXCEPT ![s].stale = TRUE]
    /\ UNCHANGED <<sessionVars, guard, conn, job, todo, pending, simVars, exists>>

(* A ping is answered; its failure is a Disconnect.                          *)
Pong(s) ==
    /\ conn[s] = "open"
    /\ presence[s] # None
    /\ presence[s].stale
    /\ presence' = [presence EXCEPT ![s].stale = FALSE]
    /\ UNCHANGED <<sessionVars, guard, conn, job, todo, pending, simVars, exists>>

(* The list is taken once; sessions change while the sweep works on it.      *)
SweepStarts ==
    /\ job[Sweeper] = Idle
    /\ todo = {}
    /\ todo' = {s \in Session : presence[s] # None /\ presence[s].stale}
    /\ todo' # {}
    /\ UNCHANGED <<sessionVars, guard, conn, job, entryVars, simVars, exists>>

(* Mutant: the sweep leaves sessions alone whose transport is closed.        *)
SweepOpen(s) ==
    /\ job[Sweeper] = Idle
    /\ s \in todo
    /\ todo' = todo \ {s}
    /\ IF Registered(s) /\ conn[s] = "open"
       THEN /\ conn' = [conn EXCEPT ![s] = "closed"]
            /\ job' = [job EXCEPT ![Sweeper] = ReapOf(s)]
       ELSE UNCHANGED <<conn, job>>
    /\ UNCHANGED <<sessionVars, guard, entryVars, simVars, exists>>

Sweep(s) ==
    /\ job[Sweeper] = Idle
    /\ s \in todo
    /\ todo' = todo \ {s}
    /\ IF Registered(s)
       THEN /\ conn' = [conn EXCEPT ![s] = "closed"]
            /\ job' = [job EXCEPT ![Sweeper] = ReapOf(s)]
       ELSE UNCHANGED <<conn, job>>
    /\ UNCHANGED <<sessionVars, guard, entryVars, simVars, exists>>

-----------------------------------------------------------------------------
Exit(p) ==
    \/ Flush(p) \/ FlushFails(p) \/ RemoveEntity(p) \/ RemoveEntityFails(p) \/ ClearPresence(p)
    \/ LeaveUnbinds(p) \/ ReapUnbinds(p) \/ TakeoverUnbinds(p) \/ Kick(p) \/ CloseKicked(p)

Enter(p) ==
    \/ BeginEnterWorld(p) \/ PrepareEnter(p) \/ PrepareUnavailable(p) \/ PrepareRefused(p)
    \/ StreamBaseline(p) \/ RollbackStagedEnter(p) \/ CompleteEnterWorld(p)
    \/ Activate(p) \/ CommitEnter(p) \/ CommitFails(p)

Request(s) ==
    \/ LeaveLocks(s) \/ EnterLocks(s) \/ EnterRejected(s) \/ Delete(s) \/ RequestFails(s)

Reap(p) == ReapLocks(p) \/ ReapRemoves(p)

Lock(p) == (p \in Session /\ Request(p)) \/ Reap(p)

Client(s) ==
    \/ Connect(s) \/ Hello(s) \/ RequestLeave(s) \/ Disconnect(s) \/ ReadMove(s)
    \/ \E c \in Character : RequestEnter(s, c) \/ RequestDelete(s, c)

Serve(s) == SubmitMove(s) \/ Vanished(s) \/ Teardown(s)

Next ==
    \/ \E s \in Session :
          \/ Client(s) \/ Request(s) \/ Enter(s) \/ Serve(s)
          \/ Age(s) \/ Pong(s) \/ Sweep(s)
    \/ \E p \in Proc : Reap(p) \/ Exit(p)
    \/ SweepStarts

(* A goroutine that can go on does; a Go mutex is not withheld for ever from *)
(* one that waits for it; the simulation and the downstream seam do not      *)
(* refuse every retry of the sweep; a closed transport answers no ping, so   *)
(* its heartbeat runs out; the sweep is periodic.                            *)
Fairness ==
    /\ \A s \in Session :
         /\ WF_vars(Serve(s)) /\ WF_vars(Enter(s)) /\ WF_vars(Sweep(s))
         /\ WF_vars(conn[s] = "closed" /\ Age(s))
    /\ \A p \in Proc : WF_vars(Exit(p)) /\ SF_vars(Lock(p))
    /\ SF_vars(Flush(Sweeper)) /\ SF_vars(RemoveEntity(Sweeper))
    /\ WF_vars(SweepStarts)

Spec == Init /\ [][Next]_vars

FairSpec == Spec /\ Fairness

-----------------------------------------------------------------------------
(* Properties.                                                              *)

Entry == [char : Character, entity : 1 .. MaxEntities]

(* Every variable keeps its shape.                                           *)
TypeOK ==
    /\ registry \in [Session -> [state : States, char : Character \cup {None}]]
    /\ byChar \in [Character -> Session \cup {None}]
    /\ guard \in [Account -> Proc \cup {None}]
    /\ conn \in [Session -> {"open", "closed"}]
    /\ job \in [Proc -> [at : Points, task : Tasks, sid : Session \cup {None},
                         char : Character \cup {None}, entity : 0 .. MaxEntities]]
    /\ todo \subseteq Session
    /\ pending \in [Session -> Entry \cup {None}]
    /\ presence \in [Session -> [char : Character, entity : 1 .. MaxEntities, stale : BOOLEAN]
                                \cup {None}]
    /\ world \in [Character -> 0 .. MaxEntities]
    /\ lastEntity \in 0 .. MaxEntities
    /\ quiet \subseteq Character
    /\ unsaved \subseteq Character
    /\ exists \subseteq Character

(* An account is in the world through one session at a time, which is what   *)
(* WorldSessionForAccount calls an invariant failure otherwise.              *)
OnePerAccount == \A a \in Account : Cardinality(WorldSessions(a, None)) <= 1

(* No snapshot shows a session that is selected or in the world and unbound, *)
(* or bound and elsewhere, and the character index says the same.            *)
BindingsAgree ==
    /\ \A s \in Session : registry[s].char # None <=> registry[s].state \in WorldActive
    /\ \A s \in Session, c \in Character : registry[s].char = c <=> byChar[c] = s

(* While nobody holds the guard of an account, its sessions are wholly in    *)
(* the world or wholly out of it: one in the world is present with the       *)
(* live entity of its character, which is not deleted, and no other is       *)
(* present or half entered.                                                  *)
WholeBetweenHolds ==
    \A s \in Session : guard[AccountOf[s]] = None =>
        IF registry[s].state = "IN_WORLD"
        THEN /\ presence[s] # None
             /\ presence[s].char = registry[s].char
             /\ presence[s].entity = world[registry[s].char]
             /\ world[registry[s].char] # 0
             /\ registry[s].char \in exists
        ELSE registry[s].state # "CHARACTER_SELECTED" /\ presence[s] = None

(* A baseline is loaded only when no character of the account has progress   *)
(* that is not saved: the stale-PostgreSQL barrier of a takeover.            *)
BaselineIsFresh ==
    \A p \in Session : job[p].at \in {"begin", "stage", "stream"} =>
        \A c \in unsaved : OwnerOf[c] # AccountOf[p]

(* A closed transport is eventually followed by the end of its session, its  *)
(* presence included, however often a flush or a removal fails.              *)
DisconnectIsCleared ==
    \A s \in Session :
        conn[s] = "closed" /\ Registered(s) ~> registry[s].state = "GONE" /\ presence[s] = None
=============================================================================
