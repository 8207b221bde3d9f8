------------------------- MODULE WorldSessionProofs -------------------------
(***************************************************************************)
(* Theorems about WorldSession, for every set of sessions, accounts and    *)
(* characters: types, the character index, one session per account, whole  *)
(* sessions between two holds of the guard, and fresh baselines.           *)
(***************************************************************************)
EXTENDS WorldSession, FiniteSetTheorems, TLAPS

Job == [at : Points, task : Tasks, sid : Session \cup {None},
        char : Character \cup {None}, entity : 0 .. MaxEntities]

Exiting == {"flush", "remove", "clear", "unbind"}

Kicking == {"kick", "close"}

Entering == {"begin", "stage", "stream", "complete", "boot"}

Inside == Exiting \cup Kicking \cup Entering

(* What a job at a point carries.                                            *)
Carries(p, j) ==
    /\ j.task \in {"enter", "leave", "delete"} => p \in Session
    /\ j.task \in {"enter", "delete"} => j.char \in Character
    /\ j.task = "leave" => j.sid = p
    /\ j.task = "reap" => j.sid \in Session
    /\ j.task = "enter" /\ j.sid # None => AccountOf[j.sid] = AccountOf[p]
    /\ j.at \in Kicking \cup Entering => j.task = "enter"
    /\ j.at \in Kicking => j.sid \in Session
    /\ j.at \in Exiting => j.task \in {"enter", "leave", "reap"} /\ j.sid \in Session
    /\ j.at = "move" => p \in Session /\ j.char \in Character

(* The account whose guard a goroutine inside needs.                         *)
GuardOf(p, j) == IF j.task = "enter" THEN AccountOf[p] ELSE AccountOf[j.sid]

Holds(p) == job[p].at \in Inside => guard[GuardOf(p, job[p])] = p

(* A goroutine that enters has found nobody else of its account in the       *)
(* world, or the one session it takes over.                                  *)
Arbitrated(p) ==
    job[p].task = "enter" =>
        /\ job[p].at \in Exiting => WorldSessions(AccountOf[p], p) \subseteq {job[p].sid}
        /\ job[p].at \in Kicking \cup {"begin"} => WorldSessions(AccountOf[p], p) = {}

(* OnePerAccount without cardinalities.                                      *)
Unique ==
    \A s, t \in Session :
        /\ registry[s].state \in WorldActive
        /\ registry[t].state \in WorldActive
        /\ AccountOf[s] = AccountOf[t]
        => s = t

NewIsOut == \A s \in Session : job[s].at = "new" => registry[s].state \notin WorldActive

RegistryOK ==
    /\ registry \in [Session -> [state : States, char : Character \cup {None}]]
    /\ byChar \in [Character -> Session \cup {None}]
    /\ BindingsAgree

GuardOK == guard \in [Account -> Proc \cup {None}]

DataOK ==
    /\ conn \in [Session -> {"open", "closed"}]
    /\ todo \subseteq Session
    /\ pending \in [Session -> Entry \cup {None}]
    /\ presence \in [Session -> [char : Character, entity : 1 .. MaxEntities, stale : BOOLEAN]
                                \cup {None}]
    /\ world \in [Character -> 0 .. MaxEntities]
    /\ lastEntity \in 0 .. MaxEntities
    /\ quiet \subseteq Character
    /\ unsaved \subseteq Character
    /\ exists \subseteq Character

Jobs == job \in [Proc -> Job] /\ \A p \in Proc : Carries(p, job[p])

Order ==
    /\ NewIsOut
    /\ \A p \in Proc : Holds(p) /\ Arbitrated(p)
    /\ Unique

IInv == RegistryOK /\ GuardOK /\ DataOK /\ Jobs /\ Order

-----------------------------------------------------------------------------
(* Jobs *)

LEMMA IdleType ==
  /\ Idle \in Job
  /\ \A l \in Points : [Idle EXCEPT !.at = l] \in Job
  /\ \A l \in Points, t \in Tasks, s \in Session :
       [Idle EXCEPT !.at = l, !.task = t, !.sid = s] \in Job
  /\ \A l \in Points, t \in Tasks, c \in Character :
       [Idle EXCEPT !.at = l, !.task = t, !.char = c] \in Job
  /\ \A l \in Points, c \in Character, n \in 0 .. MaxEntities :
       [Idle EXCEPT !.at = l, !.char = c, !.entity = n] \in Job
  <1>1. Idle \in Job
    BY WorldConstants DEF Idle, Job, Points, Tasks
  <1> QED BY <1>1 DEF Job

LEMMA JobFields ==
  ASSUME NEW j \in Job
  PROVE  /\ j.at \in Points /\ j.task \in Tasks
         /\ j.sid \in Session \cup {None} /\ j.char \in Character \cup {None}
         /\ \A l \in Points : [j EXCEPT !.at = l] \in Job
         /\ \A l \in Points, s \in Session : [j EXCEPT !.at = l, !.sid = s] \in Job
  BY DEF Job

(* One goroutine moves on.                                                   *)
LEMMA JobStep ==
  ASSUME Jobs, NEW p \in Proc, NEW j \in Job, Carries(p, j),
         job' = [job EXCEPT ![p] = j]
  PROVE  Jobs' /\ job'[p] = j /\ \A q \in Proc \ {p} : job'[q] = job[q]
  <1>1. job' \in [Proc -> Job] /\ job'[p] = j /\ \A q \in Proc \ {p} : job'[q] = job[q]
    BY DEF Jobs
  <1>2. \A q \in Proc : Carries(q, job'[q])
    BY <1>1 DEF Jobs
  <1> QED BY <1>1, <1>2 DEF Jobs, Carries

-----------------------------------------------------------------------------
(* Registry operations *)

Shrinks ==
    \A s \in Session : registry'[s].state \in WorldActive => registry[s].state \in WorldActive

LEMMA SetState ==
  ASSUME RegistryOK, NEW s \in Session, NEW x \in States,
         x \in WorldActive <=> registry[s].state \in WorldActive,
         registry' = [registry EXCEPT ![s].state = x], byChar' = byChar
  PROVE  RegistryOK' /\ Shrinks
  <1>1. /\ registry' \in [Session -> [state : States, char : Character \cup {None}]]
        /\ registry'[s].state = x /\ registry'[s].char = registry[s].char
        /\ \A t \in Session \ {s} : registry'[t] = registry[t]
    BY DEF RegistryOK
  <1> QED BY <1>1 DEF RegistryOK, BindingsAgree, Shrinks

LEMMA RemoveKeeps ==
  ASSUME RegistryOK, NEW s \in Session, Remove(s)
  PROVE  /\ RegistryOK' /\ Shrinks
         /\ registry'[s].state = "GONE"
  <1> DEFINE r == [state |-> "GONE", char |-> None]
  <1>1. r \in [state : States, char : Character \cup {None}]
    BY DEF States
  <1>2. /\ registry' \in [Session -> [state : States, char : Character \cup {None}]]
        /\ registry'[s] = r
        /\ \A t \in Session \ {s} : registry'[t] = registry[t]
    BY <1>1 DEF RegistryOK, Remove
  <1>3. /\ byChar' \in [Character -> Session \cup {None}]
        /\ \A c \in Character : byChar'[c] = IF byChar[c] = s THEN None ELSE byChar[c]
    BY DEF RegistryOK, Remove
  <1>a. None \notin Session /\ None \notin Character
    BY WorldConstants
  <1>b. \A t \in Session : registry'[t].char # None <=> registry'[t].state \in WorldActive
    BY <1>2 DEF RegistryOK, BindingsAgree, WorldActive
  <1>c. ASSUME NEW t \in Session, NEW c \in Character
        PROVE  registry'[t].char = c <=> byChar'[c] = t
    <2>1. CASE t = s
      BY <2>1, <1>2, <1>3, <1>a
    <2>2. CASE t # s
      BY <2>2, <1>2, <1>3, <1>a DEF RegistryOK, BindingsAgree
    <2> QED BY <2>1, <2>2
  <1>4. BindingsAgree'
    BY <1>b, <1>c DEF BindingsAgree
  <1> QED BY <1>2, <1>3, <1>4 DEF RegistryOK, Shrinks, WorldActive

LEMMA UnbindKeeps ==
  ASSUME RegistryOK, NEW s \in Session, NEW c \in Character, NEW from,
         CanUnbind(s, c, from), Unbind(s, c)
  PROVE  /\ RegistryOK' /\ Shrinks
         /\ registry'[s].state = "AUTHENTICATED"
  <1> DEFINE r == [state |-> "AUTHENTICATED", char |-> None]
  <1>1. r \in [state : States, char : Character \cup {None}]
    BY DEF States
  <1>2. /\ registry' \in [Session -> [state : States, char : Character \cup {None}]]
        /\ registry'[s] = r
        /\ \A t \in Session \ {s} : registry'[t] = registry[t]
    BY <1>1 DEF RegistryOK, Unbind
  <1>3. /\ byChar' \in [Character -> Session \cup {None}]
        /\ byChar'[c] = None
        /\ \A d \in Character \ {c} : byChar'[d] = byChar[d]
    BY DEF RegistryOK, Unbind
  <1>4. registry[s].char = c /\ byChar[c] = s
    BY DEF CanUnbind, Bound
  <1>a. None \notin Session /\ None \notin Character
    BY WorldConstants
  <1>5. BindingsAgree'
    BY <1>2, <1>3, <1>4, <1>a DEF RegistryOK, BindingsAgree, WorldActive
  <1> QED BY <1>2, <1>3, <1>5 DEF RegistryOK, Shrinks, WorldActive

LEMMA SameRegistry ==
  ASSUME RegistryOK, UNCHANGED sessionVars
  PROVE  RegistryOK' /\ Shrinks
  BY DEF RegistryOK, BindingsAgree, Shrinks, sessionVars

LEMMA SessionsShrink ==
  ASSUME Shrinks, NEW a, NEW x
  PROVE  WorldSessions(a, x)' \subseteq WorldSessions(a, x)
  BY DEF Shrinks, WorldSessions

-----------------------------------------------------------------------------
(* The guard *)

(* Nobody but p gains or loses it.                                           *)
Kept(p) == \A a \in Account, q \in Proc \ {p} : guard[a] = q => guard'[a] = q

LEMMA SameGuard ==
  ASSUME GuardOK, UNCHANGED guard, NEW p
  PROVE  GuardOK' /\ Kept(p)
  BY DEF GuardOK, Kept

LEMMA TakeKeeps ==
  ASSUME GuardOK, NEW p \in Proc, NEW s \in Session, Free(s), Take(p, s)
  PROVE  GuardOK' /\ Kept(p) /\ guard'[AccountOf[s]] = p
  <1>1. AccountOf[s] \in Account /\ None \notin Proc
    BY WorldConstants DEF Proc
  <1> QED BY <1>1 DEF GuardOK, Kept, Free, Take

LEMMA ReleaseKeeps ==
  ASSUME GuardOK, NEW p \in Proc, Release(p)
  PROVE  GuardOK' /\ Kept(p)
  BY DEF GuardOK, Kept, Release

LEMMA GuardOfType ==
  ASSUME NEW p \in Proc, NEW j \in Job, Carries(p, j), j.at \in Inside
  PROVE  GuardOf(p, j) \in Account
  BY WorldConstants DEF Carries, Inside, GuardOf

-----------------------------------------------------------------------------
(* A step of one goroutine, and a step of none *)

LEMMA Step ==
  ASSUME IInv, NEW p \in Proc, NEW j \in Job, Carries(p, j), j.at # "new",
         job' = [job EXCEPT ![p] = j],
         RegistryOK', Shrinks, GuardOK', Kept(p), DataOK',
         j.at \in Inside => guard'[GuardOf(p, j)] = p,
         Arbitrated(p)'
  PROVE  IInv'
  <1>1. Jobs' /\ job'[p] = j /\ \A q \in Proc \ {p} : job'[q] = job[q]
    BY JobStep DEF IInv
  <1>2. NewIsOut'
    BY <1>1 DEF IInv, Order, NewIsOut, Shrinks, Proc
  <1>3. ASSUME NEW q \in Proc PROVE Holds(q)'
    <2>1. CASE q = p
      BY <2>1, <1>1 DEF Holds, GuardOf
    <2>2. CASE q # p
      <3>1. job'[q] = job[q] /\ Holds(q)
        BY <2>2, <1>1 DEF IInv, Order
      <3>2. SUFFICES ASSUME job[q].at \in Inside PROVE guard'[GuardOf(q, job[q])] = q
        BY <3>1 DEF Holds, GuardOf
      <3>3. GuardOf(q, job[q]) \in Account
        BY <3>2, GuardOfType DEF IInv, Jobs
      <3> QED BY <2>2, <3>1, <3>2, <3>3 DEF Kept, Holds
    <2> QED BY <2>1, <2>2
  <1>4. ASSUME NEW q \in Proc PROVE Arbitrated(q)'
    <2>1. CASE q # p
      <3>1. job'[q] = job[q] /\ Arbitrated(q)
        BY <2>1, <1>1 DEF IInv, Order
      <3>2. WorldSessions(AccountOf[q], q)' \subseteq WorldSessions(AccountOf[q], q)
        BY SessionsShrink
      <3> QED BY <3>1, <3>2 DEF Arbitrated
    <2> QED BY <2>1
  <1>5. Unique'
    BY DEF IInv, Order, Unique, Shrinks
  <1> QED BY <1>1, <1>2, <1>3, <1>4, <1>5 DEF IInv, Order

LEMMA Still ==
  ASSUME IInv, UNCHANGED <<guard, job>>, RegistryOK', Shrinks, DataOK'
  PROVE  IInv'
  <1>1. Jobs' /\ GuardOK'
    BY DEF IInv, Jobs, GuardOK, Carries
  <1>2. NewIsOut' /\ Unique'
    BY DEF IInv, Order, NewIsOut, Unique, Shrinks
  <1>3. ASSUME NEW q \in Proc PROVE Holds(q)' /\ Arbitrated(q)'
    <2>1. Holds(q) /\ Arbitrated(q)
      BY DEF IInv, Order
    <2>2. WorldSessions(AccountOf[q], q)' \subseteq WorldSessions(AccountOf[q], q)
      BY SessionsShrink
    <2> QED BY <2>1, <2>2 DEF Holds, GuardOf, Arbitrated
  <1> QED BY <1>1, <1>2, <1>3 DEF IInv, Order

LEMMA SameData ==
  ASSUME DataOK, UNCHANGED <<conn, todo, entryVars, simVars, exists>>
  PROVE  DataOK'
  BY DEF DataOK, entryVars, simVars

(* The goroutine rests, ends its connection, or ends.                        *)
LEMMA Leaves ==
  ASSUME IInv, NEW p \in Proc, NEW l \in {"idle", "teardown", "end"},
         job' = [job EXCEPT ![p] = [Idle EXCEPT !.at = l]],
         RegistryOK', Shrinks, Release(p) \/ UNCHANGED guard, DataOK'
  PROVE  IInv'
  <1> DEFINE j == [Idle EXCEPT !.at = l]
  <1>1. j \in Job
    BY IdleType DEF Points
  <1>2. j.at = l /\ j.task = "none"
    BY DEF Idle
  <1>3. Carries(p, j)
    BY <1>2 DEF Carries, Exiting, Kicking, Entering
  <1>4. l # "new" /\ l \notin Inside
    BY DEF Inside, Exiting, Kicking, Entering
  <1>5. GuardOK' /\ Kept(p)
    BY SameGuard, ReleaseKeeps DEF IInv
  <1>6. job'[p] = j
    BY DEF IInv, Jobs
  <1>7. Arbitrated(p)'
    BY <1>2, <1>6 DEF Arbitrated
  <1> HIDE DEF j
  <1> QED BY <1>1, <1>2, <1>3, <1>4, <1>5, <1>7, Step DEF j

LEMMA RestIs ==
  ASSUME NEW p
  PROVE  /\ Rest(p) => job' = [job EXCEPT ![p] = [Idle EXCEPT !.at = "idle"]]
         /\ Fail(p) => job' = [job EXCEPT ![p] = [Idle EXCEPT !.at = "teardown"]]
  BY DEF Rest, Fail, Idle

(* A goroutine inside the guard goes on to another point inside.             *)
LEMMA MovesOn ==
  ASSUME IInv, NEW p \in Proc, NEW l \in Inside, job[p].at \in Inside, Goto(p, l),
         l \in Exiting => job[p].at \in Exiting,
         l \in Kicking => job[p].task = "enter" /\ job[p].sid \in Session,
         l \in Entering => job[p].task = "enter",
         l \in Kicking \cup {"begin"} => WorldSessions(AccountOf[p], p)' = {},
         RegistryOK', Shrinks, UNCHANGED guard, DataOK'
  PROVE  IInv'
  <1> DEFINE j == [job[p] EXCEPT !.at = l]
  <1>1. job[p] \in Job /\ Carries(p, job[p]) /\ Holds(p) /\ Arbitrated(p)
    BY DEF IInv, Jobs, Order
  <1>2. l \in Points /\ l # "new" /\ l # "move"
    BY DEF Inside, Exiting, Kicking, Entering, Points
  <1>3. /\ j \in Job /\ j.at = l /\ j.task = job[p].task
        /\ j.sid = job[p].sid /\ j.char = job[p].char
    BY <1>1, <1>2, JobFields DEF Job
  <1>4. job' = [job EXCEPT ![p] = j]
    BY DEF Goto
  <1>5. job'[p] = j
    BY <1>4 DEF IInv, Jobs
  <1> HIDE DEF j
  <1>6. Carries(p, j)
    BY <1>1, <1>2, <1>3 DEF Carries, Inside
  <1>7. guard'[GuardOf(p, j)] = p
    BY <1>1, <1>3 DEF Holds, GuardOf
  <1>8. Arbitrated(p)'
    <2>1. WorldSessions(AccountOf[p], p)' \subseteq WorldSessions(AccountOf[p], p)
      BY SessionsShrink
    <2> QED BY <1>1, <1>3, <1>5, <2>1 DEF Arbitrated
  <1>9. GuardOK' /\ Kept(p)
    BY SameGuard DEF IInv
  <1> QED BY <1>2, <1>3, <1>4, <1>6, <1>7, <1>8, <1>9, Step

(* A goroutine asks for the guard.                                           *)
LEMMA Asks ==
  ASSUME IInv, NEW p \in Proc, NEW j \in Job, j.at \in {"lock", "move"}, Carries(p, j),
         job' = [job EXCEPT ![p] = j],
         UNCHANGED <<sessionVars, guard>>, DataOK'
  PROVE  IInv'
  <1>1. j.at # "new" /\ j.at \notin Inside
    BY DEF Inside, Exiting, Kicking, Entering
  <1>2. job'[p] = j
    BY DEF IInv, Jobs
  <1>3. Arbitrated(p)'
    BY <1>1, <1>2 DEF Arbitrated, Inside, Entering
  <1>4. RegistryOK' /\ Shrinks /\ GuardOK' /\ Kept(p)
    BY SameRegistry, SameGuard DEF IInv
  <1> QED BY <1>1, <1>3, <1>4, Step

-----------------------------------------------------------------------------
(* Connections and requests *)

LEMMA SessionIsProc == Session \subseteq Proc /\ Sweeper \in Proc /\ None \notin Proc
  BY WorldConstants DEF Proc

LEMMA ConnectKeeps ==
  ASSUME IInv, NEW s \in Session, Connect(s)
  PROVE  IInv'
  <1>1. registry[s].state \notin WorldActive
    BY DEF IInv, Order, NewIsOut, Connect
  <1>2. RegistryOK' /\ Shrinks
    BY <1>1, SetState DEF IInv, Connect, States, WorldActive
  <1>3. DataOK'
    BY DEF IInv, DataOK, Connect, entryVars, simVars
  <1> QED BY <1>2, <1>3, Leaves, RestIs, SessionIsProc DEF Connect

LEMMA HelloKeeps ==
  ASSUME IInv, NEW s \in Session, Hello(s)
  PROVE  IInv'
  <1>1. RegistryOK' /\ Shrinks
    BY SetState DEF IInv, Hello, Receives, States, WorldActive
  <1>2. DataOK'
    BY SameData DEF IInv, Hello
  <1> QED BY <1>1, <1>2, Still DEF Hello

LEMMA RequestEnterKeeps ==
  ASSUME IInv, NEW s \in Session, NEW c \in Character, RequestEnter(s, c)
  PROVE  IInv'
  <1> DEFINE j == [Idle EXCEPT !.at = "lock", !.task = "enter", !.char = c]
  <1>1. j \in Job
    BY IdleType DEF Points, Tasks
  <1>2. j.at = "lock" /\ j.task = "enter" /\ j.char = c /\ j.sid = None
    BY DEF Idle
  <1>3. Carries(s, j)
    BY <1>2 DEF Carries, Exiting, Kicking, Entering
  <1>4. job' = [job EXCEPT ![s] = j]
    BY DEF RequestEnter
  <1>5. DataOK'
    BY SameData DEF IInv, RequestEnter
  <1> HIDE DEF j
  <1> QED BY <1>1, <1>2, <1>3, <1>4, <1>5, Asks, SessionIsProc DEF RequestEnter

LEMMA RequestDeleteKeeps ==
  ASSUME IInv, NEW s \in Session, NEW c \in Character, RequestDelete(s, c)
  PROVE  IInv'
  <1> DEFINE j == [Idle EXCEPT !.at = "lock", !.task = "delete", !.char = c]
  <1>1. j \in Job
    BY IdleType DEF Points, Tasks
  <1>2. j.at = "lock" /\ j.task = "delete" /\ j.char = c /\ j.sid = None
    BY DEF Idle
  <1>3. Carries(s, j)
    BY <1>2 DEF Carries, Exiting, Kicking, Entering
  <1>4. job' = [job EXCEPT ![s] = j]
    BY DEF RequestDelete
  <1>5. DataOK'
    BY SameData DEF IInv, RequestDelete
  <1> HIDE DEF j
  <1> QED BY <1>1, <1>2, <1>3, <1>4, <1>5, Asks, SessionIsProc DEF RequestDelete

LEMMA RequestLeaveKeeps ==
  ASSUME IInv, NEW s \in Session, RequestLeave(s)
  PROVE  IInv'
  <1> DEFINE j == [Idle EXCEPT !.at = "lock", !.task = "leave", !.sid = s]
  <1>1. j \in Job
    BY IdleType DEF Points, Tasks
  <1>2. j.at = "lock" /\ j.task = "leave" /\ j.sid = s
    BY DEF Idle
  <1>3. Carries(s, j)
    BY <1>2 DEF Carries, Exiting, Kicking, Entering
  <1>4. job' = [job EXCEPT ![s] = j]
    BY DEF RequestLeave
  <1>5. DataOK'
    BY SameData DEF IInv, RequestLeave
  <1> HIDE DEF j
  <1> QED BY <1>1, <1>2, <1>3, <1>4, <1>5, Asks, SessionIsProc DEF RequestLeave

LEMMA VanishedKeeps ==
  ASSUME IInv, NEW s \in Session, Vanished(s)
  PROVE  IInv'
  <1>1. RegistryOK' /\ Shrinks /\ DataOK'
    BY SameRegistry, SameData DEF IInv, Vanished
  <1> QED BY <1>1, Leaves, RestIs, SessionIsProc DEF Vanished

LEMMA DisconnectKeeps ==
  ASSUME IInv, NEW s \in Session, Disconnect(s)
  PROVE  IInv'
  <1>1. RegistryOK' /\ Shrinks
    BY SameRegistry DEF IInv, Disconnect
  <1>2. DataOK'
    BY DEF IInv, DataOK, Disconnect, entryVars, simVars
  <1> QED BY <1>1, <1>2, Still DEF Disconnect

LEMMA ReadMoveKeeps ==
  ASSUME IInv, NEW s \in Session, ReadMove(s)
  PROVE  IInv'
  <1>1. RegistryOK' /\ Shrinks /\ DataOK' /\ UNCHANGED <<sessionVars, guard>>
    BY SameRegistry, SameData DEF IInv, ReadMove
  <1>2. CASE Fail(s)
    BY <1>1, <1>2, Leaves, RestIs, SessionIsProc DEF ReadMove
  <1>3. CASE presence[s] # None /\ ~Fail(s)
    <2> DEFINE j == [Idle EXCEPT !.at = "move", !.char = presence[s].char,
                                 !.entity = presence[s].entity]
    <2>1. presence[s].char \in Character /\ presence[s].entity \in 0 .. MaxEntities
      BY <1>3, WorldConstants DEF IInv, DataOK
    <2>2. j \in Job
      BY <2>1, IdleType DEF Points
    <2>3. j.at = "move" /\ j.task = "none" /\ j.char = presence[s].char
      BY DEF Idle
    <2>4. Carries(s, j)
      BY <2>1, <2>3 DEF Carries, Exiting, Kicking, Entering
    <2>5. job' = [job EXCEPT ![s] = j]
      BY <1>3 DEF ReadMove
    <2> HIDE DEF j
    <2> QED BY <1>1, <2>2, <2>3, <2>4, <2>5, Asks, SessionIsProc
  <1> QED BY <1>2, <1>3 DEF ReadMove

LEMMA SubmitMoveKeeps ==
  ASSUME IInv, NEW s \in Session, SubmitMove(s)
  PROVE  IInv'
  <1>1. RegistryOK' /\ Shrinks /\ UNCHANGED guard
    BY SameRegistry DEF IInv, SubmitMove
  <1>2. job[s].char \in Character
    BY SessionIsProc DEF IInv, Jobs, Carries, SubmitMove
  <1>3. DataOK'
    BY <1>2 DEF IInv, DataOK, SubmitMove, entryVars
  <1>4. Rest(s) \/ Fail(s)
    BY DEF SubmitMove
  <1> QED BY <1>1, <1>3, <1>4, Leaves, RestIs, SessionIsProc

-----------------------------------------------------------------------------
(* World exit *)

LEMMA JobOf ==
  ASSUME IInv, NEW p \in Proc
  PROVE  /\ job[p] \in Job /\ Carries(p, job[p]) /\ Holds(p) /\ Arbitrated(p)
         /\ job[p].at \in Exiting \cup Kicking => job[p].at \in Inside /\ job[p].sid \in Session
         /\ job[p].at \in Entering =>
              job[p].at \in Inside /\ p \in Session /\ job[p].char \in Character
  BY DEF IInv, Jobs, Order, Carries, Inside

LEMMA AfterReapIs ==
  ASSUME NEW p
  PROVE  \E l \in {"idle", "teardown", "end"} : AfterReap(p) = [Idle EXCEPT !.at = l]
  BY DEF AfterReap

LEMMA FlushKeeps ==
  ASSUME IInv, NEW p \in Proc, Flush(p)
  PROVE  IInv'
  <1>1. job[p].at \in Inside /\ job[p].at \in Exiting /\ job[p].sid \in Session
    BY JobOf DEF Flush, Exiting
  <1>2. presence[job[p].sid].char \in Character
    BY <1>1, WorldConstants DEF IInv, DataOK, Flush
  <1>3. DataOK'
    BY <1>2 DEF IInv, DataOK, Flush, entryVars
  <1>4. RegistryOK' /\ Shrinks /\ UNCHANGED guard /\ Goto(p, "remove")
    BY SameRegistry DEF IInv, Flush
  <1> QED BY <1>1, <1>3, <1>4, MovesOn DEF Inside, Exiting, Kicking, Entering

LEMMA RemoveEntityKeeps ==
  ASSUME IInv, NEW p \in Proc, RemoveEntity(p)
  PROVE  IInv'
  <1>1. job[p].at \in Inside /\ job[p].at \in Exiting /\ job[p].sid \in Session
    BY JobOf DEF RemoveEntity, Exiting
  <1>2. 0 \in 0 .. MaxEntities
    BY WorldConstants
  <1>3. DataOK'
    BY <1>2 DEF IInv, DataOK, RemoveEntity, entryVars
  <1>4. RegistryOK' /\ Shrinks /\ UNCHANGED guard /\ Goto(p, "clear")
    BY SameRegistry DEF IInv, RemoveEntity
  <1> QED BY <1>1, <1>3, <1>4, MovesOn DEF Inside, Exiting, Kicking, Entering

LEMMA ClearPresenceKeeps ==
  ASSUME IInv, NEW p \in Proc, ClearPresence(p)
  PROVE  IInv'
  <1>1. job[p].at \in Inside /\ job[p].at \in Exiting /\ job[p].sid \in Session
    BY JobOf DEF ClearPresence, Exiting
  <1>3. DataOK'
    BY <1>1 DEF IInv, DataOK, ClearPresence, simVars
  <1>4. RegistryOK' /\ Shrinks /\ UNCHANGED guard /\ Goto(p, "unbind")
    BY SameRegistry DEF IInv, ClearPresence
  <1> QED BY <1>1, <1>3, <1>4, MovesOn DEF Inside, Exiting, Kicking, Entering

LEMMA ExitFailsKeeps ==
  ASSUME IInv, NEW p \in Proc, FlushFails(p) \/ RemoveEntityFails(p)
  PROVE  IInv'
  <1>1. /\ UNCHANGED <<sessionVars, conn, todo, entryVars, simVars, exists>>
        /\ GiveUpExit(p)
    BY DEF FlushFails, RemoveEntityFails
  <1>2. RegistryOK' /\ Shrinks /\ DataOK'
    BY <1>1, SameRegistry, SameData DEF IInv
  <1>3. \E l \in {"idle", "teardown", "end"} : job' = [job EXCEPT ![p] = [Idle EXCEPT !.at = l]]
    <2>1. job' = [job EXCEPT ![p] = AfterReap(p)] \/ job' = [job EXCEPT ![p] = Idle]
      BY <1>1 DEF GiveUpExit
    <2>2. Idle = [Idle EXCEPT !.at = "idle"]
      BY DEF Idle
    <2> QED BY <2>1, <2>2, AfterReapIs
  <1> QED BY <1>1, <1>2, <1>3, Leaves DEF GiveUpExit

LEMMA LeaveUnbindsKeeps ==
  ASSUME IInv, NEW p \in Proc, LeaveUnbinds(p)
  PROVE  IInv'
  <1>1. p \in Session
    BY JobOf DEF LeaveUnbinds, Carries
  <1>2. DataOK'
    BY SameData DEF IInv, LeaveUnbinds
  <1>3. Release(p) /\ (Rest(p) \/ Fail(p))
    BY DEF LeaveUnbinds
  <1>4. RegistryOK' /\ Shrinks
    <2>1. CASE CanUnbind(p, registry[p].char, "IN_WORLD")
      <3>1. registry[p].char \in Character
        BY <1>1, <2>1 DEF IInv, RegistryOK, BindingsAgree, CanUnbind, WorldActive
      <3> QED BY <1>1, <2>1, <3>1, UnbindKeeps DEF IInv, LeaveUnbinds
    <2>2. CASE ~CanUnbind(p, registry[p].char, "IN_WORLD")
      BY <2>2, SameRegistry DEF IInv, LeaveUnbinds
    <2> QED BY <2>1, <2>2
  <1> QED BY <1>2, <1>3, <1>4, Leaves, RestIs

LEMMA ReapUnbindsKeeps ==
  ASSUME IInv, NEW p \in Proc, ReapUnbinds(p)
  PROVE  IInv'
  <1>1. job[p].sid \in Session
    BY JobOf DEF ReapUnbinds, Exiting
  <1>2. RegistryOK' /\ Shrinks
    BY <1>1, RemoveKeeps DEF IInv, ReapUnbinds
  <1>3. DataOK'
    BY SameData DEF IInv, ReapUnbinds
  <1> QED BY <1>2, <1>3, Leaves, AfterReapIs DEF ReapUnbinds

(* The one session the account had is no longer in the world.                *)
LEMMA OldIsOut ==
  ASSUME IInv, NEW p \in Proc, job[p].task = "enter", job[p].at \in Exiting, Shrinks,
         registry'[job[p].sid].state \notin WorldActive
  PROVE  WorldSessions(AccountOf[p], p)' = {}
  <1>1. WorldSessions(AccountOf[p], p) \subseteq {job[p].sid}
    BY JobOf DEF Arbitrated
  <1>2. WorldSessions(AccountOf[p], p)' \subseteq WorldSessions(AccountOf[p], p)
    BY SessionsShrink
  <1>3. job[p].sid \notin WorldSessions(AccountOf[p], p)'
    BY DEF WorldSessions
  <1> QED BY <1>1, <1>2, <1>3

LEMMA TakeoverUnbindsKeeps ==
  ASSUME IInv, NEW p \in Proc, TakeoverUnbinds(p)
  PROVE  IInv'
  <1> DEFINE old == job[p].sid
  <1>1. /\ old \in Session /\ job[p].at \in Exiting /\ job[p].at \in Inside
        /\ job[p].task = "enter"
    BY JobOf DEF TakeoverUnbinds, Exiting
  <1>2. DataOK'
    BY SameData DEF IInv, TakeoverUnbinds
  <1> HIDE DEF old
  <1>3. CASE Goto(p, "kick") /\ UNCHANGED guard /\ RegistryOK' /\ Shrinks
             /\ registry'[old].state \notin WorldActive
    <2>1. WorldSessions(AccountOf[p], p)' = {}
      BY <1>1, <1>3, OldIsOut DEF old
    <2> QED BY <1>1, <1>2, <1>3, <2>1, MovesOn DEF Inside, Exiting, Kicking, Entering, old
  <1>4. CASE Fail(p) /\ Release(p) /\ UNCHANGED sessionVars
    BY <1>2, <1>4, Leaves, RestIs, SameRegistry DEF IInv
  <1>5. CASE /\ CanUnbind(old, registry[old].char, "IN_WORLD")
             /\ Unbind(old, registry[old].char)
             /\ Goto(p, "kick")
             /\ UNCHANGED guard
    <2>1. registry[old].char \in Character
      BY <1>1, <1>5 DEF IInv, RegistryOK, BindingsAgree, CanUnbind, WorldActive
    <2>2. RegistryOK' /\ Shrinks /\ registry'[old].state = "AUTHENTICATED"
      BY <1>1, <1>5, <2>1, UnbindKeeps DEF IInv
    <2> QED BY <1>3, <1>5, <2>2 DEF WorldActive
  <1>6. CASE ~Registered(old) /\ Goto(p, "kick") /\ UNCHANGED <<sessionVars, guard>>
    <2>1. RegistryOK' /\ Shrinks /\ registry'[old].state \notin WorldActive
      BY <1>6, SameRegistry DEF IInv, Registered, WorldActive, sessionVars
    <2> QED BY <1>3, <1>6, <2>1
  <1> QED BY <1>4, <1>5, <1>6 DEF TakeoverUnbinds, old

LEMMA KickKeeps ==
  ASSUME IInv, NEW p \in Proc, Kick(p)
  PROVE  IInv'
  <1>1. job[p].at \in Inside /\ job[p].sid \in Session /\ job[p].task = "enter"
    BY JobOf DEF Kick, Kicking, Carries
  <1>2. RegistryOK' /\ Shrinks
    BY <1>1, RemoveKeeps DEF IInv, Kick
  <1>3. DataOK'
    BY SameData DEF IInv, Kick
  <1>4. WorldSessions(AccountOf[p], p)' = {}
    BY <1>1, <1>2, JobOf, SessionsShrink DEF Arbitrated, Kick, Kicking
  <1> QED BY <1>1, <1>2, <1>3, <1>4, MovesOn DEF Kick, Inside, Exiting, Kicking, Entering

LEMMA CloseKickedKeeps ==
  ASSUME IInv, NEW p \in Proc, CloseKicked(p)
  PROVE  IInv'
  <1>1. job[p].at \in Inside /\ job[p].sid \in Session /\ job[p].task = "enter"
    BY JobOf DEF CloseKicked, Kicking, Carries
  <1>2. RegistryOK' /\ Shrinks
    BY SameRegistry DEF IInv, CloseKicked
  <1>3. DataOK'
    BY <1>1 DEF IInv, DataOK, CloseKicked, entryVars, simVars
  <1>4. WorldSessions(AccountOf[p], p)' = {}
    BY <1>1, <1>2, JobOf, SessionsShrink DEF Arbitrated, CloseKicked, Kicking
  <1> QED BY <1>1, <1>2, <1>3, <1>4, MovesOn DEF CloseKicked, Inside, Exiting, Kicking, Entering

LEMMA ExitKeeps ==
  ASSUME IInv, NEW p \in Proc, Exit(p)
  PROVE  IInv'
  BY FlushKeeps, ExitFailsKeeps, RemoveEntityKeeps, ClearPresenceKeeps, LeaveUnbindsKeeps,
     ReapUnbindsKeeps, TakeoverUnbindsKeeps, KickKeeps, CloseKickedKeeps DEF Exit

-----------------------------------------------------------------------------
(* Requests and the reaper take the guard *)

LEMMA LeaveLocksKeeps ==
  ASSUME IInv, NEW p \in Session, LeaveLocks(p)
  PROVE  IInv'
  <1> DEFINE j == [job[p] EXCEPT !.at = "flush"]
  <1>1. p \in Proc /\ job[p] \in Job /\ Carries(p, job[p]) /\ job[p].task = "leave"
    BY SessionIsProc, JobOf DEF LeaveLocks, Locks
  <1>2. /\ j \in Job /\ j.at = "flush" /\ j.task = "leave" /\ j.sid = p
        /\ job' = [job EXCEPT ![p] = j]
    BY <1>1 DEF Job, Points, Carries, LeaveLocks, Goto
  <1>3. job'[p] = j
    BY <1>1, <1>2 DEF IInv, Jobs
  <1> HIDE DEF j
  <1>4. Carries(p, j)
    BY <1>2 DEF Carries, Exiting, Kicking, Entering
  <1>5. GuardOK' /\ Kept(p) /\ guard'[AccountOf[p]] = p
    BY <1>1, TakeKeeps DEF IInv, LeaveLocks, Locks
  <1>6. guard'[GuardOf(p, j)] = p
    BY <1>2, <1>5 DEF GuardOf
  <1>7. Arbitrated(p)'
    BY <1>2, <1>3 DEF Arbitrated
  <1>8. RegistryOK' /\ Shrinks /\ DataOK'
    BY SameRegistry, SameData DEF IInv, LeaveLocks
  <1> QED BY <1>1, <1>2, <1>4, <1>5, <1>6, <1>7, <1>8, Step

LEMMA EnterLocksKeeps ==
  ASSUME IInv, NEW p \in Session, EnterLocks(p)
  PROVE  IInv'
  <1> DEFINE others == WorldSessions(AccountOf[p], p)
  <1>1. p \in Proc /\ job[p] \in Job /\ Carries(p, job[p]) /\ job[p].task = "enter"
    BY SessionIsProc, JobOf DEF EnterLocks, Locks
  <1>2. GuardOK' /\ Kept(p) /\ guard'[AccountOf[p]] = p
    BY <1>1, TakeKeeps DEF IInv, EnterLocks, Locks
  <1>3. RegistryOK' /\ Shrinks /\ DataOK'
    BY SameRegistry, SameData DEF IInv, EnterLocks
  <1>4. WorldSessions(AccountOf[p], p)' \subseteq others
    BY <1>3, SessionsShrink
  <1>5. CASE others = {} /\ Goto(p, "begin")
    <2> DEFINE j == [job[p] EXCEPT !.at = "begin"]
    <2>1. /\ j \in Job /\ j.at = "begin" /\ j.task = "enter"
          /\ j.sid = job[p].sid /\ j.char = job[p].char
          /\ job' = [job EXCEPT ![p] = j]
      BY <1>1, <1>5 DEF Job, Points, Goto
    <2>2. job'[p] = j
      BY <1>1, <2>1 DEF IInv, Jobs
    <2> HIDE DEF j
    <2>3. Carries(p, j)
      BY <1>1, <2>1 DEF Carries, Exiting, Kicking, Entering
    <2>4. guard'[GuardOf(p, j)] = p
      BY <1>2, <2>1 DEF GuardOf
    <2>5. Arbitrated(p)'
      BY <1>4, <1>5, <2>1, <2>2 DEF Arbitrated, Exiting
    <2> QED BY <1>1, <1>2, <1>3, <2>1, <2>3, <2>4, <2>5, Step
  <1>6. CASE \E old \in others :
                /\ others = {old}
                /\ job' = [job EXCEPT ![p].at = "flush", ![p].sid = old]
    <2> PICK old \in others : /\ others = {old}
                              /\ job' = [job EXCEPT ![p].at = "flush", ![p].sid = old]
      BY <1>6
    <2>0. old \in Session /\ AccountOf[old] = AccountOf[p]
      BY DEF WorldSessions
    <2> DEFINE j == [job[p] EXCEPT !.at = "flush", !.sid = old]
    <2>1. /\ j \in Job /\ j.at = "flush" /\ j.task = "enter"
          /\ j.sid = old /\ j.char = job[p].char
      BY <1>1, <2>0 DEF Job, Points
    <2>2. job' = [job EXCEPT ![p] = j]
      BY <1>1 DEF IInv, Jobs
    <2>3. job'[p] = j
      BY <1>1, <2>1, <2>2 DEF IInv, Jobs
    <2> HIDE DEF j
    <2>4. Carries(p, j)
      BY <1>1, <2>0, <2>1 DEF Carries, Exiting, Kicking, Entering
    <2>5. guard'[GuardOf(p, j)] = p
      BY <1>2, <2>1 DEF GuardOf
    <2>6. Arbitrated(p)'
      BY <1>4, <2>1, <2>3 DEF Arbitrated, Kicking
    <2> QED BY <1>1, <1>2, <1>3, <2>1, <2>2, <2>4, <2>5, <2>6, Step
  <1> QED BY <1>5, <1>6 DEF EnterLocks

LEMMA RefusedKeeps ==
  ASSUME IInv, NEW p \in Session, EnterRejected(p) \/ RequestFails(p) \/ Delete(p)
  PROVE  IInv'
  <1>1. /\ UNCHANGED <<sessionVars, guard, conn, todo, entryVars, simVars>>
        /\ exists' \subseteq exists
        /\ Rest(p) \/ Fail(p)
    BY DEF EnterRejected, RequestFails, Delete
  <1>2. DataOK'
    BY <1>1 DEF IInv, DataOK, entryVars, simVars
  <1>3. RegistryOK' /\ Shrinks
    BY <1>1, SameRegistry DEF IInv
  <1> QED BY <1>1, <1>2, <1>3, Leaves, RestIs, SessionIsProc

LEMMA RequestKeeps ==
  ASSUME IInv, NEW p \in Session, Request(p)
  PROVE  IInv'
  BY LeaveLocksKeeps, EnterLocksKeeps, RefusedKeeps DEF Request

LEMMA ReapLocksKeeps ==
  ASSUME IInv, NEW p \in Proc, ReapLocks(p)
  PROVE  IInv'
  <1> DEFINE j == [job[p] EXCEPT !.at = "flush"]
             s == job[p].sid
  <1>1. job[p] \in Job /\ Carries(p, job[p]) /\ job[p].task = "reap" /\ s \in Session
    BY JobOf DEF ReapLocks, Carries
  <1>2. /\ j \in Job /\ j.at = "flush" /\ j.task = "reap" /\ j.sid = s
        /\ job' = [job EXCEPT ![p] = j]
    BY <1>1 DEF Job, Points, ReapLocks, Goto
  <1>3. job'[p] = j
    BY <1>2 DEF IInv, Jobs
  <1>5. GuardOK' /\ Kept(p) /\ guard'[AccountOf[s]] = p
    BY <1>1, TakeKeeps DEF IInv, ReapLocks
  <1> HIDE DEF j, s
  <1>4. Carries(p, j)
    BY <1>1, <1>2 DEF Carries, Exiting, Kicking, Entering
  <1>6. guard'[GuardOf(p, j)] = p
    BY <1>2, <1>5 DEF GuardOf
  <1>7. Arbitrated(p)'
    BY <1>2, <1>3 DEF Arbitrated
  <1>8. RegistryOK' /\ Shrinks /\ DataOK'
    BY SameRegistry, SameData DEF IInv, ReapLocks
  <1> QED BY <1>2, <1>4, <1>5, <1>6, <1>7, <1>8, Step

LEMMA ReapRemovesKeeps ==
  ASSUME IInv, NEW p \in Proc, ReapRemoves(p)
  PROVE  IInv'
  <1>1. job[p].sid \in Session
    BY JobOf DEF ReapRemoves, Carries
  <1>2. RegistryOK' /\ Shrinks
    BY <1>1, RemoveKeeps, SameRegistry DEF IInv, ReapRemoves
  <1>3. presence' = presence \/ presence' = [presence EXCEPT ![job[p].sid] = None]
    BY DEF ReapRemoves
  <1>4. DataOK'
    BY <1>1, <1>3 DEF IInv, DataOK, ReapRemoves, simVars
  <1> QED BY <1>2, <1>4, Leaves, AfterReapIs DEF ReapRemoves

LEMMA TeardownKeeps ==
  ASSUME IInv, NEW s \in Session, Teardown(s)
  PROVE  IInv'
  <1>1. s \in Proc
    BY SessionIsProc
  <1>2. DataOK'
    BY DEF IInv, DataOK, Teardown, entryVars, simVars
  <1>3. CASE job' = [job EXCEPT ![s] = AfterReap(s)]
    <2>1. Remove(s) \/ UNCHANGED sessionVars
      BY DEF Teardown
    <2>2. RegistryOK' /\ Shrinks
      BY <2>1, RemoveKeeps, SameRegistry DEF IInv
    <2> QED BY <1>1, <1>2, <1>3, <2>2, Leaves, AfterReapIs DEF Teardown
  <1>4. CASE job' = [job EXCEPT ![s] = ReapOf(s)] /\ UNCHANGED sessionVars
    <2>1. ReapOf(s) \in Job
      BY IdleType DEF ReapOf, Points, Tasks
    <2>2. ReapOf(s).at = "lock" /\ ReapOf(s).task = "reap" /\ ReapOf(s).sid = s
      BY DEF ReapOf, Idle
    <2>3. Carries(s, ReapOf(s))
      BY <2>2 DEF Carries, Exiting, Kicking, Entering
    <2> QED BY <1>1, <1>2, <1>4, <2>1, <2>2, <2>3, Asks DEF Teardown
  <1> QED BY <1>3, <1>4 DEF Teardown

LEMMA SweepKeeps ==
  ASSUME IInv, NEW s \in Session, Sweep(s)
  PROVE  IInv'
  <1>1. DataOK'
    BY DEF IInv, DataOK, Sweep, entryVars, simVars
  <1>2. CASE Registered(s)
    <2>1. ReapOf(s) \in Job
      BY IdleType DEF ReapOf, Points, Tasks
    <2>2. ReapOf(s).at = "lock" /\ ReapOf(s).task = "reap" /\ ReapOf(s).sid = s
      BY DEF ReapOf, Idle
    <2>3. Carries(Sweeper, ReapOf(s))
      BY <2>2 DEF Carries, Exiting, Kicking, Entering
    <2> QED BY <1>1, <1>2, <2>1, <2>2, <2>3, Asks, SessionIsProc DEF Sweep
  <1>3. CASE ~Registered(s)
    <2>1. RegistryOK' /\ Shrinks
      BY SameRegistry DEF IInv, Sweep
    <2> QED BY <1>1, <1>3, <2>1, Still DEF Sweep
  <1> QED BY <1>2, <1>3

LEMMA HeartbeatKeeps ==
  ASSUME IInv, NEW s \in Session, Age(s) \/ Pong(s) \/ SweepStarts
  PROVE  IInv'
  <1>1. /\ UNCHANGED <<sessionVars, guard, conn, job, pending, simVars, exists>>
        /\ todo' \subseteq Session
        /\ \/ UNCHANGED presence
           \/ /\ presence[s] # None
              /\ \E b \in BOOLEAN : presence' = [presence EXCEPT ![s].stale = b]
    BY DEF Age, Pong, SweepStarts, IInv, DataOK, entryVars
  <1>2. presence' \in [Session -> [char : Character, entity : 1 .. MaxEntities, stale : BOOLEAN]
                                  \cup {None}]
    BY <1>1 DEF IInv, DataOK
  <1>3. DataOK'
    BY <1>1, <1>2 DEF IInv, DataOK, simVars
  <1>4. RegistryOK' /\ Shrinks
    BY <1>1, SameRegistry DEF IInv
  <1> QED BY <1>1, <1>3, <1>4, Still

-----------------------------------------------------------------------------
(* Enter *)

(* The one step that puts a session in the world: the guard makes sure that  *)
(* no other session of the account is, and that nobody else is about to.     *)
LEMMA BindKeeps ==
  ASSUME IInv, NEW p \in Session, job[p].at = "begin",
         NEW c \in Character, c = job[p].char, byChar[c] = None, registry[p].char = None,
         registry' = [registry EXCEPT ![p] = [state |-> "CHARACTER_SELECTED", char |-> c]],
         byChar' = [byChar EXCEPT ![c] = p],
         Goto(p, "stage"), UNCHANGED guard, DataOK'
  PROVE  IInv'
  <1> DEFINE j == [job[p] EXCEPT !.at = "stage"]
             r == [state |-> "CHARACTER_SELECTED", char |-> c]
  <1>1. /\ p \in Proc /\ job[p] \in Job /\ Carries(p, job[p]) /\ Holds(p) /\ Arbitrated(p)
        /\ job[p].task = "enter"
    BY SessionIsProc, JobOf DEF Carries, Entering
  <1>2. /\ j \in Job /\ j.at = "stage" /\ j.task = "enter"
        /\ j.sid = job[p].sid /\ j.char = job[p].char
        /\ job' = [job EXCEPT ![p] = j]
    BY <1>1 DEF Job, Points, Goto
  <1>3. r \in [state : States, char : Character \cup {None}]
        /\ r.state = "CHARACTER_SELECTED" /\ r.char = c
    BY DEF States
  <1>4. registry' = [registry EXCEPT ![p] = r]
    OBVIOUS
  <1> HIDE DEF j, r
  <1>5. Carries(p, j)
    BY <1>1, <1>2 DEF Carries, Exiting, Kicking, Entering
  <1>6. Jobs' /\ job'[p] = j /\ \A q \in Proc \ {p} : job'[q] = job[q]
    BY <1>1, <1>2, <1>5, JobStep DEF IInv
  <1>7. /\ registry' \in [Session -> [state : States, char : Character \cup {None}]]
        /\ registry'[p] = r
        /\ \A s \in Session \ {p} : registry'[s] = registry[s]
    BY <1>3, <1>4 DEF IInv, RegistryOK
  <1>8. /\ byChar' \in [Character -> Session \cup {None}]
        /\ byChar'[c] = p
        /\ \A d \in Character \ {c} : byChar'[d] = byChar[d]
    BY DEF IInv, RegistryOK
  <1>9. RegistryOK'
    <2>1. \A s \in Session : registry'[s].char # None <=> registry'[s].state \in WorldActive
      BY <1>3, <1>7, WorldConstants DEF IInv, RegistryOK, BindingsAgree, WorldActive
    <2>2. ASSUME NEW s \in Session, NEW d \in Character
          PROVE  registry'[s].char = d <=> byChar'[d] = s
      <3>0. registry[s].char = d <=> byChar[d] = s
        BY DEF IInv, RegistryOK, BindingsAgree
      <3>1. CASE s = p
        BY <3>0, <3>1, <1>3, <1>7, <1>8, WorldConstants
      <3>2. CASE s # p
        BY <3>0, <3>2, <1>7, <1>8, WorldConstants
      <3> QED BY <3>1, <3>2
    <2> QED BY <1>7, <1>8, <2>1, <2>2 DEF RegistryOK, BindingsAgree
  <1>10. NewIsOut'
    BY <1>2, <1>6, <1>7 DEF IInv, Order, NewIsOut, Proc
  <1>11. ASSUME NEW q \in Proc PROVE Holds(q)'
    <2>1. Holds(q)
      BY DEF IInv, Order
    <2>2. CASE q = p
      BY <2>1, <2>2, <1>1, <1>2, <1>6 DEF Holds, GuardOf, Inside, Entering
    <2>3. CASE q # p
      BY <2>1, <2>3, <1>6 DEF Holds, GuardOf
    <2> QED BY <2>2, <2>3
  <1>12. ASSUME NEW q \in Proc PROVE Arbitrated(q)'
    <2>1. CASE q = p
      BY <2>1, <1>2, <1>6 DEF Arbitrated, Exiting, Kicking
    <2>2. CASE q # p
      <3>1. job'[q] = job[q] /\ Carries(q, job[q]) /\ Holds(q) /\ Arbitrated(q)
        BY <2>2, <1>6, JobOf
      <3>2. SUFFICES ASSUME job[q].task = "enter", job[q].at \in Exiting \cup Kicking \cup {"begin"}
                     PROVE  WorldSessions(AccountOf[q], q)' \subseteq WorldSessions(AccountOf[q], q)
        BY <3>1 DEF Arbitrated
      <3>3. guard[AccountOf[q]] = q /\ guard[AccountOf[p]] = p
        BY <3>1, <3>2, <1>1 DEF Holds, GuardOf, Inside, Entering
      <3>4. AccountOf[p] # AccountOf[q]
        BY <2>2, <3>3
      <3> QED BY <3>4, <1>7 DEF WorldSessions
    <2> QED BY <2>1, <2>2
  <1>13. Unique'
    <2>1. WorldSessions(AccountOf[p], p) = {}
      BY <1>1 DEF Arbitrated
    <2>2. \A s \in Session \ {p} : AccountOf[s] = AccountOf[p] => registry[s].state \notin WorldActive
      BY <2>1 DEF WorldSessions
    <2> QED BY <2>2, <1>7 DEF IInv, Order, Unique
  <1>14. GuardOK'
    BY DEF IInv, GuardOK
  <1> QED BY <1>6, <1>9, <1>10, <1>11, <1>12, <1>13, <1>14 DEF IInv, Order

LEMMA BeginKeeps ==
  ASSUME IInv, NEW p \in Session, BeginEnterWorld(p)
  PROVE  IInv'
  <1>1. job[p].char \in Character /\ job[p].at = "begin"
    BY SessionIsProc, JobOf DEF BeginEnterWorld, Entering
  <1>2. DataOK'
    BY SameData DEF IInv, BeginEnterWorld
  <1>3. CASE /\ registry[p] = [state |-> "AUTHENTICATED", char |-> None]
             /\ byChar[job[p].char] = None
    BY <1>1, <1>2, <1>3, BindKeeps DEF BeginEnterWorld
  <1>4. CASE Fail(p) /\ Release(p) /\ UNCHANGED sessionVars
    BY <1>2, <1>4, Leaves, RestIs, SameRegistry, SessionIsProc DEF IInv
  <1> QED BY <1>3, <1>4 DEF BeginEnterWorld

LEMMA DropKeeps ==
  ASSUME IInv, NEW p \in Session, job[p].char \in Character, NEW from, DropBinding(p, from)
  PROVE  RegistryOK' /\ Shrinks
  BY UnbindKeeps, SameRegistry DEF IInv, DropBinding

LEMMA AbortData ==
  ASSUME IInv, NEW p \in Session, AbortEnter(p), UNCHANGED <<conn, todo, exists>>,
         presence' = presence \/ presence' = [presence EXCEPT ![p] = None]
  PROVE  DataOK'
  <1>1. 0 \in 0 .. MaxEntities
    BY WorldConstants
  <1>2. presence' \in [Session -> [char : Character, entity : 1 .. MaxEntities, stale : BOOLEAN]
                                  \cup {None}]
    BY DEF IInv, DataOK
  <1>3. CASE UNCHANGED <<simVars, pending>>
    BY <1>2, <1>3 DEF IInv, DataOK, simVars
  <1>4. CASE /\ world' = [world EXCEPT ![pending[p].char] = 0]
             /\ unsaved' = unsaved \ {pending[p].char}
             /\ pending' = [pending EXCEPT ![p] = None]
             /\ UNCHANGED <<lastEntity, quiet>>
    BY <1>1, <1>2, <1>4 DEF IInv, DataOK
  <1> QED BY <1>3, <1>4 DEF AbortEnter

LEMMA InsideEnter ==
  ASSUME IInv, NEW p \in Session, job[p].at \in Entering
  PROVE  /\ p \in Proc /\ job[p].at \in Inside /\ job[p].task = "enter"
         /\ job[p].char \in Character
  BY SessionIsProc, JobOf DEF Carries

LEMMA PrepareEnterKeeps ==
  ASSUME IInv, NEW p \in Session, PrepareEnter(p)
  PROVE  IInv'
  <1>1. p \in Proc /\ job[p].at \in Inside /\ job[p].task = "enter" /\ job[p].char \in Character
    BY InsideEnter DEF PrepareEnter, Entering
  <1>2. lastEntity' \in 1 .. MaxEntities /\ lastEntity' \in 0 .. MaxEntities
    BY WorldConstants DEF IInv, DataOK, PrepareEnter
  <1>3. [char |-> job[p].char, entity |-> lastEntity'] \in Entry
    BY <1>1, <1>2 DEF Entry
  <1>4. DataOK'
    BY <1>1, <1>2, <1>3 DEF IInv, DataOK, PrepareEnter
  <1>5. RegistryOK' /\ Shrinks
    BY SameRegistry DEF IInv, PrepareEnter
  <1> QED BY <1>1, <1>4, <1>5, MovesOn DEF PrepareEnter, Inside, Exiting, Kicking, Entering

LEMMA StreamKeeps ==
  ASSUME IInv, NEW p \in Session, StreamBaseline(p)
  PROVE  IInv'
  <1>1. p \in Proc /\ job[p].at \in Inside /\ job[p].task = "enter"
    BY InsideEnter DEF StreamBaseline, Entering
  <1>2. RegistryOK' /\ Shrinks /\ DataOK'
    BY SameRegistry, SameData DEF IInv, StreamBaseline
  <1> QED BY <1>1, <1>2, MovesOn DEF StreamBaseline, Inside, Exiting, Kicking, Entering

LEMMA RetryKeeps ==
  ASSUME IInv, NEW p \in Session,
         PrepareUnavailable(p) \/ PrepareRefused(p) \/ RollbackStagedEnter(p)
  PROVE  IInv'
  <1>1. p \in Proc /\ job[p].char \in Character
    BY InsideEnter DEF PrepareUnavailable, PrepareRefused, RollbackStagedEnter, Entering
  <1>2. /\ DropBinding(p, "CHARACTER_SELECTED") /\ Release(p) /\ (Rest(p) \/ Fail(p))
        /\ UNCHANGED <<conn, todo, presence, exists>>
        /\ AbortEnter(p) \/ UNCHANGED <<simVars, pending>>
    BY DEF PrepareUnavailable, PrepareRefused, RollbackStagedEnter, entryVars
  <1>3. AbortEnter(p)
    BY <1>2 DEF AbortEnter
  <1>4. DataOK'
    BY <1>2, <1>3, AbortData
  <1>5. RegistryOK' /\ Shrinks
    BY <1>1, <1>2, DropKeeps
  <1> QED BY <1>1, <1>2, <1>4, <1>5, Leaves, RestIs

LEMMA CompleteKeeps ==
  ASSUME IInv, NEW p \in Session, CompleteEnterWorld(p)
  PROVE  IInv'
  <1>1. p \in Proc /\ job[p].at \in Inside /\ job[p].task = "enter"
    BY InsideEnter DEF CompleteEnterWorld, Entering
  <1>2. AbortEnter(p) /\ UNCHANGED <<conn, todo, presence, exists>>
    BY DEF CompleteEnterWorld, AbortEnter
  <1>3. DataOK'
    BY <1>2, AbortData
  <1>4. CASE CanUnbind(p, job[p].char, "CHARACTER_SELECTED")
    <2>1. RegistryOK' /\ Shrinks
      BY <1>4, SetState DEF IInv, CompleteEnterWorld, CanUnbind, States, WorldActive
    <2> QED BY <1>1, <1>3, <1>4, <2>1, MovesOn
            DEF CompleteEnterWorld, Inside, Exiting, Kicking, Entering
  <1>5. CASE ~CanUnbind(p, job[p].char, "CHARACTER_SELECTED")
    <2>1. RegistryOK' /\ Shrinks
      BY <1>5, SameRegistry DEF IInv, CompleteEnterWorld
    <2> QED BY <1>1, <1>3, <1>5, <2>1, Leaves, RestIs DEF CompleteEnterWorld
  <1> QED BY <1>4, <1>5

LEMMA ActivateKeeps ==
  ASSUME IInv, NEW p \in Session, Activate(p)
  PROVE  IInv'
  <1>1. pending[p] \in Entry
    BY DEF IInv, DataOK, Activate, CanActivate
  <1>2. [char |-> pending[p].char, entity |-> pending[p].entity, stale |-> FALSE] \in
           [char : Character, entity : 1 .. MaxEntities, stale : BOOLEAN]
    BY <1>1 DEF Entry
  <1>3. DataOK'
    BY <1>2 DEF IInv, DataOK, Activate, simVars
  <1>4. RegistryOK' /\ Shrinks
    BY SameRegistry DEF IInv, Activate
  <1> QED BY <1>3, <1>4, Still DEF Activate

LEMMA CommitKeeps ==
  ASSUME IInv, NEW p \in Session, CommitEnter(p)
  PROVE  IInv'
  <1>1. DataOK'
    BY DEF IInv, DataOK, CommitEnter, simVars
  <1>2. RegistryOK' /\ Shrinks
    BY SameRegistry DEF IInv, CommitEnter
  <1> QED BY <1>1, <1>2, Leaves, RestIs, SessionIsProc DEF CommitEnter

LEMMA CommitFailsKeeps ==
  ASSUME IInv, NEW p \in Session, CommitFails(p)
  PROVE  IInv'
  <1>1. p \in Proc /\ job[p].char \in Character
    BY InsideEnter DEF CommitFails, Entering
  <1>2. DataOK'
    BY AbortData DEF CommitFails
  <1>3. RegistryOK' /\ Shrinks
    BY <1>1, DropKeeps DEF CommitFails
  <1> QED BY <1>1, <1>2, <1>3, Leaves, RestIs DEF CommitFails

LEMMA EnterKeeps ==
  ASSUME IInv, NEW p \in Session, Enter(p)
  PROVE  IInv'
  BY BeginKeeps, PrepareEnterKeeps, RetryKeeps, StreamKeeps, CompleteKeeps, ActivateKeeps,
     CommitKeeps, CommitFailsKeeps DEF Enter

-----------------------------------------------------------------------------
(* Whole sessions: what the goroutine inside the guard has done so far      *)

Shown(s, c, e) ==
    /\ registry[s].state = "IN_WORLD"
    /\ presence[s] # None
    /\ presence[s].char = c
    /\ presence[s].entity = e

Live(s, c) == Shown(s, c, world[c]) /\ world[c] # 0

In(s) == Live(s, registry[s].char) /\ registry[s].char \in exists

Out(s) == registry[s].state \notin WorldActive /\ presence[s] = None

Staged(p, c) ==
    /\ pending[p] # None
    /\ pending[p].char = c
    /\ pending[p].entity = world[c]
    /\ world[c] # 0

(* The session that the goroutine inside changes.                            *)
Subject(p) == IF job[p].at \in Entering THEN p ELSE job[p].sid

Working(p) == job[p].at \in Inside

ExitsMidway(j) ==
    LET s == j.sid
        c == registry[s].char
    IN /\ j.at \in {"flush", "remove"} => In(s)
       /\ j.at = "remove" => c \in quiet /\ c \notin unsaved
       /\ j.at = "clear" => Shown(s, c, presence[s].entity) /\ world[c] = 0
       /\ j.at = "unbind" => registry[s].state = "IN_WORLD" /\ presence[s] = None
       /\ j.at \in Kicking => Out(s)

EntersMidway(p, j) ==
    /\ j.at \in Exiting \cup Kicking \cup {"begin"} => Out(p)
    /\ j.at \in {"stage", "stream", "complete"} =>
           registry[p] = [state |-> "CHARACTER_SELECTED", char |-> j.char] /\ presence[p] = None
    /\ j.at \in {"stream", "complete", "boot"} => Staged(p, j.char)
    /\ j.at = "boot" => /\ registry[p] = [state |-> "IN_WORLD", char |-> j.char]
                        /\ presence[p] = None \/ Live(p, j.char)
                        /\ j.char \notin unsaved

Midway(p) ==
    LET j == job[p]
    IN /\ ExitsMidway(j)
       /\ j.task = "enter" => j.char \in exists /\ EntersMidway(p, j)

Middle == \A p \in Proc : Working(p) => Midway(p)

Whole == \A s \in Session : (\A p \in Proc : Working(p) => Subject(p) # s) => In(s) \/ Out(s)

(* What a session has to do with is its account's, and of this process.      *)
Owners ==
    /\ \A s \in Session :
          /\ registry[s].char # None => OwnerOf[registry[s].char] = AccountOf[s]
          /\ presence[s] # None => /\ OwnerOf[presence[s].char] = AccountOf[s]
                                   /\ presence[s].entity <= lastEntity
          /\ pending[s] # None => /\ OwnerOf[pending[s].char] = AccountOf[s]
                                  /\ pending[s].entity <= lastEntity
          /\ job[s].at = "move" => job[s].entity \in 1 .. lastEntity
    /\ \A p \in Proc : job[p].task \in {"enter", "delete"} => OwnerOf[job[p].char] = AccountOf[p]
    /\ \A c \in Character : world[c] <= lastEntity

(* An intent that meets its entity is of a session that is in the world.     *)
Moves ==
    \A s \in Session : job[s].at = "move" /\ world[job[s].char] = job[s].entity =>
        Shown(s, job[s].char, job[s].entity)

(* Progress that is not saved belongs to a session that is in the world.     *)
Progress == \A c \in unsaved : \E s \in Session : Live(s, c)

Full == IInv /\ Owners /\ Middle /\ Whole /\ Moves /\ Progress

-----------------------------------------------------------------------------
(* Who works on an account *)

AccountAt(p) == GuardOf(p, job[p])

(* Nobody but p works on the account.                                        *)
Alone(p, a) ==
    /\ \A q \in Proc \ {p} : Working(q) => AccountAt(q) # a
    /\ Working(p) => AccountAt(p) = a

LEMMA SubjectOf ==
  ASSUME IInv, NEW p \in Proc, Working(p)
  PROVE  /\ Subject(p) \in Session /\ AccountOf[Subject(p)] = AccountAt(p)
         /\ AccountAt(p) \in Account /\ guard[AccountAt(p)] = p
         /\ job[p].task = "enter" => /\ p \in Session /\ AccountOf[p] = AccountAt(p)
                                     /\ job[p].char \in Character
         /\ job[p].at \in Exiting \cup Kicking => job[p].sid \in Session /\ Subject(p) = job[p].sid
         /\ job[p].at \in Entering => Subject(p) = p
  <1>1. job[p] \in Job /\ Carries(p, job[p]) /\ Holds(p)
    BY DEF IInv, Jobs, Order
  <1>2. AccountAt(p) \in Account
    BY <1>1, GuardOfType DEF AccountAt, Working
  <1>3. job[p].at \in Exiting \cup Kicking => job[p].at \notin Entering
    BY DEF Exiting, Kicking, Entering
  <1>4. None \notin Session
    BY WorldConstants
  <1>5. CASE job[p].at \in Entering
    BY <1>1, <1>2, <1>5 DEF Carries, Subject, AccountAt, GuardOf, Holds, Working, Exiting, Kicking, Entering
  <1>6. CASE job[p].at \in Exiting \cup Kicking
    BY <1>1, <1>2, <1>3, <1>4, <1>6 DEF Carries, Subject, AccountAt, GuardOf, Holds, Working
  <1> QED BY <1>5, <1>6 DEF Working, Inside

LEMMA WorksAlone ==
  ASSUME IInv, NEW p \in Proc, Working(p)
  PROVE  Alone(p, AccountAt(p))
  <1>1. guard[AccountAt(p)] = p
    BY SubjectOf
  <1>2. \A q \in Proc \ {p} : Working(q) => guard[AccountAt(q)] = q
    BY SubjectOf
  <1> QED BY <1>1, <1>2 DEF Alone

LEMMA FreeIsAlone ==
  ASSUME IInv, NEW p \in Proc, ~Working(p), NEW s \in Session, Free(s)
  PROVE  Alone(p, AccountOf[s])
  <1>1. \A q \in Proc : Working(q) => guard[AccountAt(q)] = q
    BY SubjectOf
  <1>2. None \notin Proc
    BY WorldConstants DEF Proc
  <1> QED BY <1>1, <1>2 DEF Alone, Free

(* Nobody works on a session of an account that nobody else works on.        *)
LEMMA NotASubject ==
  ASSUME IInv, Whole, NEW p \in Proc, NEW a, Alone(p, a), NEW s \in Session, AccountOf[s] = a,
         ~Working(p) \/ Subject(p) # s
  PROVE  In(s) \/ Out(s)
  <1>1. ASSUME NEW q \in Proc, Working(q) PROVE Subject(q) # s
    BY <1>1, SubjectOf DEF Alone
  <1> QED BY <1>1 DEF Whole

LEMMA ActiveIsBound ==
  ASSUME RegistryOK, NEW s \in Session
  PROVE  /\ registry[s] \in [state : States, char : Character \cup {None}]
         /\ registry[s].state \in WorldActive => /\ registry[s].char \in Character
                                                 /\ byChar[registry[s].char] = s
         /\ registry[s].state \notin WorldActive => registry[s].char = None
         /\ registry[s].state = "IN_WORLD" => registry[s].state \in WorldActive
  BY DEF RegistryOK, BindingsAgree, WorldActive

-----------------------------------------------------------------------------
(* A step that changes one account's sessions and characters *)

Elsewhere(a) ==
    /\ \A s \in Session : AccountOf[s] # a =>
          registry'[s] = registry[s] /\ presence'[s] = presence[s] /\ pending'[s] = pending[s]
    /\ \A c \in Character : OwnerOf[c] # a =>
          /\ world'[c] = world[c]
          /\ c \in exists' <=> c \in exists
          /\ c \in quiet' <=> c \in quiet
          /\ c \in unsaved' => c \in unsaved

LEMMA WholeElsewhere ==
  ASSUME IInv, Owners, NEW a, Elsewhere(a), NEW s \in Session, AccountOf[s] # a
  PROVE  (In(s) => In(s)') /\ (Out(s) => Out(s)')
  <1>1. registry'[s] = registry[s] /\ presence'[s] = presence[s]
    BY DEF Elsewhere
  <1>2. ASSUME In(s) PROVE In(s)'
    <2> DEFINE c == registry[s].char
    <2>1. c \in Character /\ OwnerOf[c] = AccountOf[s]
      BY <1>2, ActiveIsBound, WorldConstants DEF IInv, In, Live, Shown, Owners
    <2>2. world'[c] = world[c] /\ (c \in exists' <=> c \in exists)
      BY <2>1 DEF Elsewhere
    <2> QED BY <1>1, <1>2, <2>2 DEF In, Live, Shown
  <1> QED BY <1>1, <1>2 DEF Out

LEMMA MidwayElsewhere ==
  ASSUME IInv, Owners, NEW a, Elsewhere(a), NEW q \in Proc, Working(q), AccountAt(q) # a,
         job'[q] = job[q], Midway(q)
  PROVE  Midway(q)'
  <1> DEFINE j == job[q]
             s == j.sid
  <1>1. j.at \in Exiting \cup Kicking => s \in Session /\ AccountOf[s] # a
    BY SubjectOf
  <1>2. j.task = "enter" => /\ q \in Session /\ AccountOf[q] # a
                            /\ j.char \in Character /\ OwnerOf[j.char] # a
    BY SubjectOf DEF Owners
  <1>3. ExitsMidway(j) /\ (j.task = "enter" => j.char \in exists /\ EntersMidway(q, j))
    BY DEF Midway
  <1>4. ExitsMidway(j)'
    <2>1. SUFFICES ASSUME j.at \in Exiting \cup Kicking PROVE ExitsMidway(j)'
      BY DEF ExitsMidway, Exiting, Kicking
    <2>2. s \in Session /\ registry'[s] = registry[s] /\ presence'[s] = presence[s]
      BY <1>1, <2>1 DEF Elsewhere
    <2>3. (In(s) => In(s)') /\ (Out(s) => Out(s)')
      BY <1>1, <2>1, WholeElsewhere
    <2> DEFINE c == registry[s].char
    <2>4. registry[s].state = "IN_WORLD" => c \in Character /\ OwnerOf[c] # a
      BY <1>1, <2>1, <2>2, ActiveIsBound, WorldConstants DEF IInv, Owners
    <2>5. registry[s].state = "IN_WORLD" => /\ world'[c] = world[c]
                                            /\ c \in quiet' <=> c \in quiet
                                            /\ c \in unsaved' => c \in unsaved
      BY <2>4 DEF Elsewhere
    <2>6. In(s) => registry[s].state = "IN_WORLD"
      BY DEF In, Live, Shown
    <2> QED BY <1>3, <2>2, <2>3, <2>5, <2>6 DEF ExitsMidway, Shown
  <1>5. ASSUME j.task = "enter" PROVE (j.char \in exists /\ EntersMidway(q, j))'
    <2>1. /\ registry'[q] = registry[q] /\ presence'[q] = presence[q] /\ pending'[q] = pending[q]
          /\ world'[j.char] = world[j.char] /\ (j.char \in exists' <=> j.char \in exists)
          /\ j.char \in unsaved' => j.char \in unsaved
      BY <1>2, <1>5 DEF Elsewhere
    <2> QED BY <1>3, <1>5, <2>1 DEF EntersMidway, Out, Staged, Live, Shown
  <1> QED BY <1>4, <1>5 DEF Midway

LEMMA AccountStep ==
  ASSUME IInv, Owners, Middle, Whole, NEW p \in Proc, NEW a, Alone(p, a), Elsewhere(a),
         \A q \in Proc \ {p} : job'[q] = job[q],
         Working(p)' => Midway(p)',
         \A s \in Session : AccountOf[s] = a => (Working(p)' /\ Subject(p)' = s) \/ In(s)' \/ Out(s)'
  PROVE  Middle' /\ Whole'
  <1>1. ASSUME NEW q \in Proc, Working(q)' PROVE Midway(q)'
    <2>1. CASE q # p
      <3>1. job'[q] = job[q] /\ Working(q) /\ AccountAt(q) # a
        BY <1>1, <2>1 DEF Working, Alone
      <3> QED BY <3>1, MidwayElsewhere DEF Middle
    <2> QED BY <1>1, <2>1
  <1>2. ASSUME NEW s \in Session, \A q \in Proc : Working(q)' => Subject(q)' # s
        PROVE  In(s)' \/ Out(s)'
    <2>1. CASE AccountOf[s] = a
      BY <1>2, <2>1
    <2>2. CASE AccountOf[s] # a
      <3>1. ASSUME NEW q \in Proc, Working(q) PROVE Subject(q) # s
        <4>1. CASE q = p
          BY <2>2, <3>1, <4>1, SubjectOf DEF Alone
        <4>2. CASE q # p
          BY <1>2, <3>1, <4>2 DEF Working, Subject
        <4> QED BY <4>1, <4>2
      <3>2. In(s) \/ Out(s)
        BY <3>1 DEF Whole
      <3> QED BY <2>2, <3>2, WholeElsewhere
    <2> QED BY <2>1, <2>2
  <1> QED BY <1>1, <1>2 DEF Middle, Whole

(* One session of the account, and one character, change.                    *)
OneEntry(t, c) ==
    /\ \A s \in Session \ {t} :
          registry'[s] = registry[s] /\ presence'[s] = presence[s] /\ pending'[s] = pending[s]
    /\ \A d \in Character \ {c} :
          /\ world'[d] = world[d]
          /\ d \in quiet' <=> d \in quiet
          /\ d \in unsaved' => d \in unsaved
    /\ exists' = exists

LEMMA EntryStep ==
  ASSUME IInv, Owners, Middle, Whole, NEW p \in Proc, NEW t \in Session, NEW c \in Character,
         OneEntry(t, c),
         OwnerOf[c] = AccountOf[t] \/ (\A d \in Character : world'[d] = world[d] /\
                 (d \in quiet' <=> d \in quiet) /\ (d \in unsaved' => d \in unsaved)),
         Alone(p, AccountOf[t]),
         \A q \in Proc \ {p} : job'[q] = job[q],
         Working(p) => Subject(p) = t,
         Working(p)' => Midway(p)',
         \A s \in Session \ {t} : In(s) => registry[s].char # c \/ world'[c] = world[c],
         (Working(p)' /\ Subject(p)' = t) \/ In(t)' \/ Out(t)'
  PROVE  Middle' /\ Whole'
  <1>1. Elsewhere(AccountOf[t])
    BY DEF Elsewhere, OneEntry
  <1>2. ASSUME NEW s \in Session \ {t}, AccountOf[s] = AccountOf[t] PROVE In(s)' \/ Out(s)'
    <2>1. In(s) \/ Out(s)
      BY <1>2, NotASubject
    <2>2. registry'[s] = registry[s] /\ presence'[s] = presence[s] /\ exists' = exists
      BY DEF OneEntry
    <2>3. CASE In(s)
      <3>1. registry[s].char \in Character
        BY <2>3, ActiveIsBound DEF IInv, In, Live, Shown
      <3>2. world'[registry[s].char] = world[registry[s].char]
        BY <2>3, <3>1 DEF OneEntry
      <3> QED BY <2>2, <2>3, <3>2 DEF In, Live, Shown
    <2> QED BY <2>1, <2>2, <2>3 DEF Out
  <1> QED BY <1>1, <1>2, AccountStep

(* One session of the account changes, and nothing of the characters.        *)
LEMMA SessionStep ==
  ASSUME IInv, Owners, Middle, Whole, NEW p \in Proc, NEW t \in Session,
         \A s \in Session \ {t} :
            registry'[s] = registry[s] /\ presence'[s] = presence[s] /\ pending'[s] = pending[s],
         UNCHANGED <<simVars, exists>>,
         Alone(p, AccountOf[t]),
         \A q \in Proc \ {p} : job'[q] = job[q],
         Working(p) => Subject(p) = t,
         Working(p)' => Midway(p)',
         (Working(p)' /\ Subject(p)' = t) \/ In(t)' \/ Out(t)'
  PROVE  Middle' /\ Whole'
  <1>1. Elsewhere(AccountOf[t])
    BY DEF Elsewhere, simVars
  <1>2. ASSUME NEW s \in Session \ {t}, AccountOf[s] = AccountOf[t] PROVE In(s)' \/ Out(s)'
    <2>1. In(s) \/ Out(s)
      BY <1>2, NotASubject
    <2>2. registry'[s] = registry[s] /\ presence'[s] = presence[s] /\ exists' = exists /\ world' = world
      BY DEF simVars
    <2> QED BY <2>1, <2>2 DEF In, Out, Live, Shown
  <1> QED BY <1>1, <1>2, AccountStep

-----------------------------------------------------------------------------
(* Intents, progress and ownership *)

(* Shown, after a step.                                                      *)
ShownNext(s, c, e) ==
    /\ registry'[s].state = "IN_WORLD"
    /\ presence'[s] # None
    /\ presence'[s].char = c
    /\ presence'[s].entity = e

(* What is shown with its live entity stays so, or nobody asks for it.       *)
LEMMA SeenStep ==
  ASSUME IInv, Owners, Moves, Progress, unsaved' \subseteq unsaved, unsaved \subseteq Character,
         \A s \in Session, c \in Character, e \in 1 .. MaxEntities : Shown(s, c, e) /\ world[c] = e =>
            \/ ShownNext(s, c, e)
            \/ c \notin unsaved' /\ (world'[c] # e \/ job'[s].at # "move"),
         \A c \in Character : world'[c] # world[c] =>
            c \notin unsaved' /\ (world'[c] = 0 \/ world'[c] > lastEntity),
         \A s \in Session : job'[s].at = "move" => job'[s] = job[s]
  PROVE  Moves' /\ Progress'
  <1>1. ASSUME NEW s \in Session, job'[s].at = "move", world'[job'[s].char] = job'[s].entity
        PROVE  ShownNext(s, job'[s].char, job'[s].entity)
    <2> DEFINE c == job[s].char
               e == job[s].entity
    <2>1. job'[s] = job[s] /\ job[s] \in Job /\ Carries(s, job[s])
      BY <1>1 DEF IInv, Jobs, Proc
    <2>2. c \in Character /\ e \in 1 .. lastEntity
      BY <1>1, <2>1 DEF Carries, Owners
    <2>3. lastEntity \in 0 .. MaxEntities /\ MaxEntities \in Nat
      BY WorldConstants DEF IInv, DataOK
    <2>4. e \in 1 .. MaxEntities
      BY <2>2, <2>3
    <2>5. world[c] = e
      <3>1. world'[c] = e
        BY <1>1, <2>1
      <3>2. e # 0 /\ ~(e > lastEntity)
        BY <2>2, <2>3
      <3> QED BY <2>2, <3>1, <3>2
    <2>6. Shown(s, c, e)
      BY <1>1, <2>1, <2>5 DEF Moves
    <2> QED BY <1>1, <2>1, <2>2, <2>4, <2>5, <2>6
  <1>2. ASSUME NEW c \in unsaved' PROVE \E s \in Session : Live(s, c)'
    <2>1. PICK s \in Session : Live(s, c)
      BY <1>2 DEF Progress
    <2>2. c \in Character /\ world'[c] = world[c]
      BY <1>2
    <2>3. world[c] \in 1 .. MaxEntities
      <3>1. world[c] \in 0 .. MaxEntities
        BY <2>2 DEF IInv, DataOK
      <3>2. world[c] # 0
        BY <2>1 DEF Live
      <3> QED BY <3>1, <3>2, WorldConstants
    <2>4. ShownNext(s, c, world[c])
      BY <1>2, <2>1, <2>2, <2>3 DEF Live
    <2> QED BY <2>1, <2>2, <2>4 DEF Live, Shown, ShownNext
  <1> QED BY <1>1, <1>2 DEF Moves, Progress, Shown, ShownNext

LEMMA OwnersStep ==
  ASSUME IInv, Owners, lastEntity' >= lastEntity, lastEntity' \in 0 .. MaxEntities,
         \A s \in Session :
            /\ \/ registry'[s].char = None \/ registry'[s].char = registry[s].char
               \/ job[s].task = "enter" /\ registry'[s].char = job[s].char
            /\ presence'[s] # None =>
                  \/ /\ presence[s] # None
                     /\ presence'[s].char = presence[s].char /\ presence'[s].entity = presence[s].entity
                  \/ /\ pending[s] # None
                     /\ presence'[s].char = pending[s].char /\ presence'[s].entity = pending[s].entity
            /\ pending'[s] # None =>
                  \/ pending'[s] = pending[s]
                  \/ /\ job[s].task = "enter" /\ pending'[s].char = job[s].char
                     /\ pending'[s].entity <= lastEntity'
            /\ job'[s].at = "move" =>
                  \/ job'[s] = job[s]
                  \/ presence[s] # None /\ job'[s].entity = presence[s].entity,
         \A p \in Proc : job'[p].task \in {"enter", "delete"} =>
            \/ job[p].task \in {"enter", "delete"} /\ job'[p].char = job[p].char
            \/ OwnerOf[job'[p].char] = AccountOf[p],
         \A c \in Character : world'[c] = world[c] \/ world'[c] <= lastEntity'
  PROVE  Owners'
  <1>1. lastEntity \in Nat /\ lastEntity' \in Nat /\ MaxEntities \in Nat
    BY WorldConstants DEF IInv, DataOK
  <1>2. \A n \in Nat : n <= lastEntity => n <= lastEntity'
    BY <1>1
  <1>3. ASSUME NEW s \in Session
        PROVE  /\ registry'[s].char # None => OwnerOf[registry'[s].char] = AccountOf[s]
               /\ presence'[s] # None => /\ OwnerOf[presence'[s].char] = AccountOf[s]
                                         /\ presence'[s].entity <= lastEntity'
               /\ pending'[s] # None => /\ OwnerOf[pending'[s].char] = AccountOf[s]
                                        /\ pending'[s].entity <= lastEntity'
               /\ job'[s].at = "move" => job'[s].entity \in 1 .. lastEntity'
    <2>1. s \in Proc /\ (job[s].task = "enter" => OwnerOf[job[s].char] = AccountOf[s])
      BY DEF Owners, Proc
    <2>2. registry'[s].char # None => OwnerOf[registry'[s].char] = AccountOf[s]
      BY <2>1 DEF Owners
    <2>3. presence[s] # None => presence[s].entity \in 1 .. MaxEntities
      BY DEF IInv, DataOK
    <2>4. pending[s] # None => pending[s].entity \in 1 .. MaxEntities
      BY DEF IInv, DataOK, Entry
    <2>5. /\ presence[s] # None => presence[s].entity \in 1 .. lastEntity' /\ OwnerOf[presence[s].char] = AccountOf[s]
          /\ pending[s] # None => pending[s].entity <= lastEntity' /\ OwnerOf[pending[s].char] = AccountOf[s]
      <3>1. ASSUME NEW n \in 1 .. MaxEntities, n <= lastEntity PROVE n \in 1 .. lastEntity'
        BY <1>1, <3>1
      <3>2. \A n \in 1 .. lastEntity' : n <= lastEntity'
        BY <1>1
      <3> QED BY <2>3, <2>4, <3>1, <3>2 DEF Owners
    <2>6. presence'[s] # None => /\ OwnerOf[presence'[s].char] = AccountOf[s]
                                 /\ presence'[s].entity <= lastEntity'
      <3>1. \A n \in 1 .. lastEntity' : n <= lastEntity'
        BY <1>1
      <3> QED BY <2>5, <3>1
    <2>7. pending'[s] # None => /\ OwnerOf[pending'[s].char] = AccountOf[s]
                                /\ pending'[s].entity <= lastEntity'
      BY <2>1, <2>5
    <2>8. job'[s].at = "move" => job'[s].entity \in 1 .. lastEntity'
      <3>1. job[s].at = "move" => job[s].entity \in 1 .. lastEntity
        BY DEF Owners
      <3>2. \A n \in 1 .. lastEntity : n \in 1 .. lastEntity'
        BY <1>1
      <3> QED BY <2>5, <3>1, <3>2
    <2> QED BY <2>2, <2>6, <2>7, <2>8
  <1>4. \A p \in Proc : job'[p].task \in {"enter", "delete"} => OwnerOf[job'[p].char] = AccountOf[p]
    BY DEF Owners
  <1>5. \A c \in Character : world'[c] <= lastEntity'
    <2>1. \A c \in Character : world[c] \in Nat /\ world[c] <= lastEntity
      BY WorldConstants DEF IInv, DataOK, Owners
    <2> QED BY <1>2, <2>1
  <1> QED BY <1>3, <1>4, <1>5 DEF Owners

-----------------------------------------------------------------------------
(* Steps outside the guard *)

LEMMA Rests ==
  ASSUME IInv, NEW p \in Proc,
         \/ Rest(p) \/ Fail(p) \/ job' = [job EXCEPT ![p] = AfterReap(p)]
  PROVE  /\ ~Working(p)' /\ job'[p].task = "none" /\ job'[p].at # "move"
         /\ \A q \in Proc \ {p} : job'[q] = job[q]
  <1>1. PICK l \in {"idle", "teardown", "end"} : job' = [job EXCEPT ![p] = [Idle EXCEPT !.at = l]]
    BY RestIs DEF AfterReap
  <1>2. job'[p] = [Idle EXCEPT !.at = l] /\ \A q \in Proc \ {p} : job'[q] = job[q]
    BY <1>1 DEF IInv, Jobs
  <1> QED BY <1>2 DEF Idle, Working, Inside, Exiting, Kicking, Entering

LEMMA Goes ==
  ASSUME IInv, NEW p \in Proc, NEW l, Goto(p, l)
  PROVE  /\ job'[p].at = l /\ job'[p].task = job[p].task /\ job'[p].sid = job[p].sid
         /\ job'[p].char = job[p].char
         /\ \A q \in Proc \ {p} : job'[q] = job[q]
  <1>1. job[p] \in Job /\ job'[p] = [job[p] EXCEPT !.at = l] /\ \A q \in Proc \ {p} : job'[q] = job[q]
    BY DEF IInv, Jobs, Goto
  <1> QED BY <1>1 DEF Job

Calm(p) ==
    /\ UNCHANGED <<pending, simVars, exists>>
    /\ \A s \in Session :
          /\ \/ registry'[s] = registry[s]
             \/ registry[s].state \notin WorldActive /\ registry'[s].state \notin WorldActive
          /\ presence'[s] = None <=> presence[s] = None
          /\ presence[s] # None => /\ presence'[s].char = presence[s].char
                                   /\ presence'[s].entity = presence[s].entity
    /\ \A q \in Proc \ {p} : job'[q] = job[q]
    /\ \/ job'[p] = job[p]
       \/ /\ ~Working(p) /\ ~Working(p)'
          /\ job'[p].task \in {"enter", "delete"} => OwnerOf[job'[p].char] = AccountOf[p]
          /\ job'[p].at = "move" => /\ p \in Session
                                    /\ Shown(p, job'[p].char, job'[p].entity)

LEMMA CalmIsWhole ==
  ASSUME IInv, Owners, Middle, Whole, NEW p \in Proc, Calm(p)
  PROVE  Middle' /\ Whole'
  <1>1. UNCHANGED <<pending, world, quiet, unsaved, exists>>
    BY DEF Calm, simVars
  <1>2. ASSUME NEW s \in Session PROVE (In(s) => In(s)') /\ (Out(s) => Out(s)')
    <2>1. \/ registry'[s] = registry[s]
          \/ registry[s].state \notin WorldActive /\ registry'[s].state \notin WorldActive
      BY DEF Calm
    <2>2. /\ presence'[s] = None <=> presence[s] = None
          /\ presence[s] # None => /\ presence'[s].char = presence[s].char
                                   /\ presence'[s].entity = presence[s].entity
      BY DEF Calm
    <2> QED BY <1>1, <2>1, <2>2 DEF In, Out, Live, Shown, WorldActive
  <1>3. \A q \in Proc : Working(q)' \/ Working(q) => job'[q] = job[q]
    BY DEF Calm, Working
  <1>4. ASSUME NEW q \in Proc, Working(q) PROVE Midway(q)'
    <2> DEFINE j == job[q]
               s == j.sid
    <2>1. job'[q] = j /\ Midway(q)
      BY <1>3, <1>4 DEF Middle
    <2>2. ExitsMidway(j)'
      <3>1. SUFFICES ASSUME j.at \in Exiting \cup Kicking PROVE ExitsMidway(j)'
        BY <2>1 DEF ExitsMidway, Exiting, Kicking
      <3>2. s \in Session
        BY <1>4, <3>1, SubjectOf
      <3>3. (In(s) => In(s)') /\ (Out(s) => Out(s)')
        BY <1>2, <2>1, <3>2
      <3>4. registry[s].state = "IN_WORLD" => registry'[s] = registry[s]
        BY <3>2 DEF Calm, WorldActive
      <3>5. In(s) => registry[s].state = "IN_WORLD"
        BY DEF In, Live, Shown
      <3>6. /\ presence'[s] = None <=> presence[s] = None
            /\ presence[s] # None => /\ presence'[s].char = presence[s].char
                                     /\ presence'[s].entity = presence[s].entity
        BY <3>2 DEF Calm
      <3> QED BY <1>1, <2>1, <3>3, <3>4, <3>5, <3>6 DEF Midway, ExitsMidway, Shown
    <2>3. ASSUME j.task = "enter" PROVE (j.char \in exists /\ EntersMidway(q, j))'
      <3>1. q \in Session
        BY <1>4, <2>3, SubjectOf
      <3>2. Out(q) => Out(q)'
        BY <1>2, <3>1
      <3>3. registry[q].state \in WorldActive => registry'[q] = registry[q]
        BY <3>1 DEF Calm
      <3>4. /\ presence'[q] = None <=> presence[q] = None
            /\ presence[q] # None => /\ presence'[q].char = presence[q].char
                                     /\ presence'[q].entity = presence[q].entity
        BY <3>1 DEF Calm
      <3> QED BY <1>1, <2>1, <2>3, <3>2, <3>3, <3>4
              DEF Midway, EntersMidway, Staged, Live, Shown, WorldActive
    <2> QED BY <2>1, <2>2, <2>3 DEF Midway
  <1>5. ASSUME NEW s \in Session, \A q \in Proc : Working(q)' => Subject(q)' # s
        PROVE  In(s)' \/ Out(s)'
    <2>1. \A q \in Proc : Working(q) => Subject(q) # s
      BY <1>3, <1>5 DEF Working, Subject
    <2> QED BY <1>2, <2>1 DEF Whole
  <1> QED BY <1>3, <1>4, <1>5 DEF Middle, Whole, Working

LEMMA CalmIsSeen ==
  ASSUME IInv, Owners, Moves, Progress, NEW p \in Proc, Calm(p)
  PROVE  Moves' /\ Progress'
  <1>1. UNCHANGED <<world, unsaved>>
    BY DEF Calm, simVars
  <1>2. ASSUME NEW s \in Session, NEW c, NEW e, Shown(s, c, e) PROVE ShownNext(s, c, e)
    <2>1. registry'[s] = registry[s]
      BY <1>2 DEF Calm, Shown, WorldActive
    <2> QED BY <1>2, <2>1 DEF Calm, Shown, ShownNext
  <1>3. ASSUME NEW s \in Session, job'[s].at = "move", world[job'[s].char] = job'[s].entity
        PROVE  ShownNext(s, job'[s].char, job'[s].entity)
    <2>1. s \in Proc
      BY DEF Proc
    <2>2. Shown(s, job'[s].char, job'[s].entity)
      BY <1>3, <2>1 DEF Calm, Moves
    <2> QED BY <1>2, <2>2
  <1>4. \A c \in unsaved : \E s \in Session : ShownNext(s, c, world[c]) /\ world[c] # 0
    BY <1>2 DEF Progress, Live
  <1> QED BY <1>1, <1>3, <1>4 DEF Moves, Progress, Live, Shown, ShownNext

LEMMA CalmOwners ==
  ASSUME IInv, IInv', Owners, NEW p \in Proc, Calm(p)
  PROVE  Owners'
  <1>1. UNCHANGED <<pending, world, lastEntity>>
    BY DEF Calm, simVars
  <1>2. \A s \in Session : registry'[s].char = None \/ registry'[s].char = registry[s].char
    <2>1. RegistryOK'
      BY DEF IInv
    <2>2. \A s \in Session : registry'[s].state \notin WorldActive => registry'[s].char = None
      BY <2>1 DEF RegistryOK, BindingsAgree
    <2> QED BY <2>2 DEF Calm
  <1>3. ASSUME NEW s \in Session
        PROVE  job'[s].at = "move" => \/ job'[s] = job[s]
                                      \/ presence[s] # None /\ job'[s].entity = presence[s].entity
    BY DEF Calm, Shown, Proc
  <1>4. lastEntity \in 0 .. MaxEntities /\ lastEntity >= lastEntity
    BY WorldConstants DEF IInv, DataOK
  <1>5. \A q \in Proc : job'[q].task \in {"enter", "delete"} =>
            \/ job[q].task \in {"enter", "delete"} /\ job'[q].char = job[q].char
            \/ OwnerOf[job'[q].char] = AccountOf[q]
    BY DEF Calm
  <1>6. \A s \in Session : presence'[s] # None =>
            /\ presence[s] # None
            /\ presence'[s].char = presence[s].char /\ presence'[s].entity = presence[s].entity
    BY DEF Calm
  <1> QED BY <1>1, <1>2, <1>3, <1>4, <1>5, <1>6, OwnersStep

LEMMA CalmKeeps ==
  ASSUME Full, IInv', NEW p \in Proc, Calm(p)
  PROVE  Full'
  BY CalmIsWhole, CalmIsSeen, CalmOwners DEF Full

(* A request, with what it is for.                                           *)
LEMMA RequestIsCalm ==
  ASSUME IInv, NEW p \in Proc, NEW j, job' = [job EXCEPT ![p] = j], ~Working(p),
         j.at \notin Inside,
         j.task \in {"enter", "delete"} => OwnerOf[j.char] = AccountOf[p],
         j.at = "move" => p \in Session /\ Shown(p, j.char, j.entity),
         UNCHANGED <<sessionVars, entryVars, simVars, exists>>
  PROVE  Calm(p)
  <1>1. job'[p] = j /\ \A q \in Proc \ {p} : job'[q] = job[q]
    BY DEF IInv, Jobs
  <1> QED BY <1>1 DEF Calm, Working, sessionVars, entryVars

LEMMA RestIsCalm ==
  ASSUME IInv, NEW p \in Proc, ~Working(p),
         \/ Rest(p) \/ Fail(p) \/ job' = [job EXCEPT ![p] = AfterReap(p)],
         UNCHANGED <<entryVars, simVars, exists>>,
         \A s \in Session : \/ registry'[s] = registry[s]
                            \/ registry[s].state \notin WorldActive /\ registry'[s].state \notin WorldActive
  PROVE  Calm(p)
  BY Rests DEF Calm, entryVars

LEMMA NotInside ==
  \A p \in Proc : job[p].at \in {"new", "idle", "lock", "move", "teardown", "end"} => ~Working(p)
  BY DEF Working, Inside, Exiting, Kicking, Entering

LEMMA ClientIsCalm ==
  ASSUME Full, NEW s \in Session, Client(s)
  PROVE  Calm(s)
  <1> USE DEF Full
  <1>0. s \in Proc
    BY DEF Proc
  <1>1. CASE Connect(s)
    <2>1. registry'[s].state = "CONNECTED" /\ \A t \in Session \ {s} : registry'[t] = registry[t]
      BY <1>1 DEF Connect, IInv, RegistryOK
    <2>2. registry[s].state \notin WorldActive
      BY <1>1 DEF IInv, Order, NewIsOut, Connect
    <2> QED BY <1>0, <1>1, <2>1, <2>2, RestIsCalm, NotInside DEF Connect, WorldActive
  <1>2. CASE Hello(s)
    <2>1. registry'[s].state = "AUTHENTICATED" /\ \A t \in Session \ {s} : registry'[t] = registry[t]
      BY <1>2 DEF Hello, IInv, RegistryOK
    <2> QED BY <1>0, <1>2, <2>1 DEF Hello, Receives, Calm, WorldActive, entryVars
  <1>3. CASE RequestLeave(s)
    <2> DEFINE j == [Idle EXCEPT !.at = "lock", !.task = "leave", !.sid = s]
    <2>1. j.at = "lock" /\ j.task = "leave"
      BY DEF Idle
    <2> HIDE DEF j
    <2>2. job' = [job EXCEPT ![s] = j]
      BY <1>3 DEF RequestLeave, j
    <2> QED BY <1>0, <1>3, <2>1, <2>2, RequestIsCalm, NotInside
            DEF RequestLeave, Receives, Inside, Exiting, Kicking, Entering
  <1>4. CASE Disconnect(s)
    BY <1>0, <1>4 DEF Disconnect, Calm, sessionVars, entryVars
  <1>5. CASE ReadMove(s)
    <2>1. CASE Fail(s)
      BY <1>0, <1>5, <2>1, RestIsCalm, NotInside DEF ReadMove, Receives, sessionVars
    <2>2. CASE /\ presence[s] # None
               /\ job' = [job EXCEPT ![s] = [Idle EXCEPT !.at = "move", !.char = presence[s].char,
                                                         !.entity = presence[s].entity]]
      <3> DEFINE j == [Idle EXCEPT !.at = "move", !.char = presence[s].char,
                                   !.entity = presence[s].entity]
      <3>1. j.at = "move" /\ j.task = "none" /\ j.char = presence[s].char /\ j.entity = presence[s].entity
        BY DEF Idle
      <3> HIDE DEF j
      <3>2. job' = [job EXCEPT ![s] = j]
        BY <2>2 DEF j
      <3>3. Shown(s, j.char, j.entity)
        BY <1>5, <2>2, <3>1 DEF ReadMove, Receives, Shown
      <3> QED BY <1>0, <1>5, <3>1, <3>2, <3>3, RequestIsCalm, NotInside
              DEF ReadMove, Receives, Inside, Exiting, Kicking, Entering
    <2> QED BY <1>5, <2>1, <2>2 DEF ReadMove
  <1>6. ASSUME NEW c \in Character, RequestEnter(s, c) \/ RequestDelete(s, c) PROVE Calm(s)
    <2>1. PICK t \in {"enter", "delete"} :
              job' = [job EXCEPT ![s] = [Idle EXCEPT !.at = "lock", !.task = t, !.char = c]]
      BY <1>6 DEF RequestEnter, RequestDelete
    <2> DEFINE j == [Idle EXCEPT !.at = "lock", !.task = t, !.char = c]
    <2>2. j.at = "lock" /\ j.char = c
      BY DEF Idle
    <2> HIDE DEF j
    <2>3. job' = [job EXCEPT ![s] = j]
      BY <2>1 DEF j
    <2> QED BY <1>0, <1>6, <2>2, <2>3, RequestIsCalm, NotInside
            DEF RequestEnter, RequestDelete, Receives, Inside, Exiting, Kicking, Entering
  <1> QED BY <1>1, <1>2, <1>3, <1>4, <1>5, <1>6 DEF Client

LEMMA TeardownIsCalm ==
  ASSUME Full, NEW s \in Session, Vanished(s) \/ Teardown(s)
  PROVE  Calm(s)
  <1> USE DEF Full
  <1>0. s \in Proc
    BY DEF Proc
  <1>1. CASE Vanished(s)
    BY <1>0, <1>1, RestIsCalm, NotInside DEF Vanished, Receives, sessionVars
  <1>2. CASE Teardown(s)
    <2>1. ~Working(s) /\ UNCHANGED <<entryVars, simVars, exists>>
      BY <1>0, <1>2, NotInside DEF Teardown
    <2>2. CASE job' = [job EXCEPT ![s] = AfterReap(s)] /\ UNCHANGED sessionVars
      BY <1>0, <2>1, <2>2, RestIsCalm DEF sessionVars
    <2>3. CASE /\ registry[s].state = "CONNECTED" /\ Remove(s)
               /\ job' = [job EXCEPT ![s] = AfterReap(s)]
      <3>1. registry'[s].state = "GONE" /\ \A t \in Session \ {s} : registry'[t] = registry[t]
        BY <2>3 DEF Remove, IInv, RegistryOK
      <3> QED BY <1>0, <2>1, <2>3, <3>1, RestIsCalm DEF WorldActive
    <2>4. CASE job' = [job EXCEPT ![s] = ReapOf(s)] /\ UNCHANGED sessionVars
      <3>1. ReapOf(s).at = "lock" /\ ReapOf(s).task = "reap"
        BY DEF ReapOf, Idle
      <3> QED BY <1>0, <2>1, <2>4, <3>1, RequestIsCalm DEF Inside, Exiting, Kicking, Entering
    <2>5. CASE registry[s].state = "GONE"
      BY <1>2, <2>2, <2>5 DEF Teardown
    <2>6. CASE registry[s].state = "CONNECTED"
      BY <1>2, <2>3, <2>6 DEF Teardown
    <2>7. CASE registry[s].state # "GONE" /\ registry[s].state # "CONNECTED"
      BY <1>2, <2>4, <2>7 DEF Teardown
    <2> QED BY <2>5, <2>6, <2>7
  <1> QED BY <1>1, <1>2

LEMMA RefusalIsCalm ==
  ASSUME Full, NEW p \in Session, EnterRejected(p) \/ RequestFails(p)
  PROVE  Calm(p)
  <1>1. p \in Proc /\ ~Working(p)
    BY NotInside DEF Proc, EnterRejected, RequestFails, Locks
  <1> QED BY <1>1, RestIsCalm DEF Full, EnterRejected, RequestFails, sessionVars

LEMMA SweepIsCalm ==
  ASSUME Full, NEW s \in Session, Age(s) \/ Pong(s) \/ SweepStarts \/ Sweep(s)
  PROVE  Calm(Sweeper)
  <1> USE DEF Full
  <1>0. Sweeper \in Proc
    BY DEF Proc
  <1>1. CASE Age(s) \/ Pong(s) \/ SweepStarts
    <2>1. /\ UNCHANGED <<sessionVars, job, pending, simVars, exists>>
          /\ \/ UNCHANGED presence
             \/ /\ presence[s] # None
                /\ \E b \in BOOLEAN : presence' = [presence EXCEPT ![s].stale = b]
      BY <1>1 DEF Age, Pong, SweepStarts, entryVars
    <2>2. CASE UNCHANGED presence
      BY <1>0, <2>1, <2>2 DEF Calm, sessionVars
    <2>3. ASSUME presence[s] # None, NEW b \in BOOLEAN, presence' = [presence EXCEPT ![s].stale = b]
          PROVE  Calm(Sweeper)
      <3>1. presence[s] \in [char : Character, entity : 1 .. MaxEntities, stale : BOOLEAN]
        BY <2>3 DEF IInv, DataOK
      <3>2. presence'[s] = [presence[s] EXCEPT !.stale = b]
            /\ \A t \in Session \ {s} : presence'[t] = presence[t]
        BY <2>3 DEF IInv, DataOK
      <3>3. presence'[s] \in [char : Character, entity : 1 .. MaxEntities, stale : BOOLEAN]
            /\ presence'[s].char = presence[s].char /\ presence'[s].entity = presence[s].entity
        BY <3>1, <3>2
      <3>4. presence'[s] # None
        BY <3>3, WorldConstants
      <3> QED BY <1>0, <2>1, <2>3, <3>2, <3>3, <3>4 DEF Calm, sessionVars
    <2> QED BY <2>1, <2>2, <2>3
  <1>2. CASE Sweep(s)
    <2>1. ~Working(Sweeper) /\ UNCHANGED <<sessionVars, entryVars, simVars, exists>>
      BY <1>0, <1>2, NotInside DEF Sweep, Idle
    <2>2. CASE job' = [job EXCEPT ![Sweeper] = ReapOf(s)]
      <3>1. ReapOf(s).at = "lock" /\ ReapOf(s).task = "reap"
        BY DEF ReapOf, Idle
      <3> QED BY <1>0, <2>1, <2>2, <3>1, RequestIsCalm DEF Inside, Exiting, Kicking, Entering
    <2>3. CASE UNCHANGED job
      BY <1>0, <2>1, <2>3 DEF Calm, sessionVars, entryVars
    <2> QED BY <1>2, <2>2, <2>3 DEF Sweep
  <1> QED BY <1>1, <1>2

-----------------------------------------------------------------------------
(* Steps that change one session *)

(* What t shows with a live entity stays shown, or nobody asks for it.       *)
Fades(t) ==
    \/ \A c \in Character : ~Live(t, c)
    \/ registry'[t] = registry[t] /\ presence'[t] = presence[t]
    \/ presence[t].char \notin unsaved /\ job'[t].at # "move"

(* What t has afterwards it had before, or its enter was for it.             *)
Keeps(t) ==
    /\ \/ registry'[t].char \in {None, registry[t].char}
       \/ job[t].task = "enter" /\ registry'[t].char = job[t].char
    /\ \/ presence'[t] \in {None, presence[t]}
       \/ /\ pending[t] # None
          /\ presence'[t].char = pending[t].char /\ presence'[t].entity = pending[t].entity
    /\ pending'[t] \in {None, pending[t]}

(* One session t changes; p moves on with its job or has none any more.      *)
OneSession(p, t) ==
    /\ \A s \in Session \ {t} :
          registry'[s] = registry[s] /\ presence'[s] = presence[s] /\ pending'[s] = pending[s]
    /\ \A q \in Proc \ {p} : job'[q] = job[q]
    /\ job'[p].at # "move"
    /\ job'[p].task = "none" \/ (job'[p].task = job[p].task /\ job'[p].char = job[p].char)

LEMMA SessionKeeps ==
  ASSUME Full, IInv', NEW p \in Proc, NEW t \in Session, OneSession(p, t),
         UNCHANGED <<simVars, exists>>, Keeps(t), Fades(t),
         Alone(p, AccountOf[t]),
         Working(p) => Subject(p) = t,
         Working(p)' => Midway(p)',
         (Working(p)' /\ Subject(p)' = t) \/ In(t)' \/ Out(t)'
  PROVE  Full'
  <1> USE DEF Full
  <1>1. Middle' /\ Whole'
    BY SessionStep DEF OneSession
  <1>2. Moves' /\ Progress'
    <2>1. UNCHANGED <<world, unsaved>> /\ unsaved \subseteq Character
      BY DEF simVars, IInv, DataOK
    <2>2. ASSUME NEW s \in Session, NEW c \in Character, NEW e \in 1 .. MaxEntities,
                 Shown(s, c, e), world[c] = e
          PROVE  ShownNext(s, c, e) \/ (c \notin unsaved' /\ job'[s].at # "move")
      <3>1. Live(s, c)
        BY <2>2, WorldConstants DEF Live
      <3>2. CASE s # t
        BY <2>2, <3>2 DEF OneSession, Shown, ShownNext
      <3>3. CASE s = t
        BY <2>1, <2>2, <3>1, <3>3 DEF Fades, Shown, ShownNext
      <3> QED BY <3>2, <3>3
    <2>3. \A s \in Session : job'[s].at = "move" => job'[s] = job[s]
      BY DEF OneSession, Proc
    <2> QED BY <2>1, <2>2, <2>3, SeenStep
  <1>3. Owners'
    <2>1. UNCHANGED <<world, lastEntity>>
      BY DEF simVars
    <2>2. lastEntity \in 0 .. MaxEntities /\ lastEntity >= lastEntity
      BY WorldConstants DEF IInv, DataOK
    <2>3. ASSUME NEW s \in Session
          PROVE
            /\ \/ registry'[s].char = None \/ registry'[s].char = registry[s].char
               \/ job[s].task = "enter" /\ registry'[s].char = job[s].char
            /\ presence'[s] # None =>
                  \/ /\ presence[s] # None
                     /\ presence'[s].char = presence[s].char /\ presence'[s].entity = presence[s].entity
                  \/ /\ pending[s] # None
                     /\ presence'[s].char = pending[s].char /\ presence'[s].entity = pending[s].entity
            /\ pending'[s] # None => pending'[s] = pending[s]
            /\ job'[s].at = "move" => job'[s] = job[s]
      BY DEF OneSession, Keeps, Proc
    <2>4. \A q \in Proc : job'[q].task \in {"enter", "delete"} =>
              job[q].task \in {"enter", "delete"} /\ job'[q].char = job[q].char
      BY DEF OneSession
    <2> QED BY <2>1, <2>2, <2>3, <2>4, OwnersStep
  <1> QED BY <1>1, <1>2, <1>3

(* A leave or an enter takes the guard of an account whose sessions are whole. *)
LEMMA RequestsLockWhole ==
  ASSUME Full, IInv', NEW p \in Session, LeaveLocks(p) \/ EnterLocks(p)
  PROVE  Full'
  <1> USE DEF Full
  <1>0. p \in Proc /\ ~Working(p) /\ Free(p) /\ Alone(p, AccountOf[p])
    BY NotInside, FreeIsAlone DEF Proc, LeaveLocks, EnterLocks, Locks
  <1>1. UNCHANGED <<registry, presence, pending, simVars, exists>>
    BY DEF LeaveLocks, EnterLocks, sessionVars, entryVars
  <1>2. \A s \in Session : AccountOf[s] = AccountOf[p] => In(s) \/ Out(s)
    BY <1>0, NotASubject
  <1>3. job[p] \in Job
    BY <1>0 DEF IInv, Jobs
  <1>4. CASE LeaveLocks(p)
    <2>1. /\ job'[p].at = "flush" /\ job'[p].task = "leave" /\ job'[p].sid = p
          /\ job'[p].char = job[p].char
          /\ \A q \in Proc \ {p} : job'[q] = job[q]
      BY <1>0, <1>4, Goes DEF LeaveLocks, Locks, IInv, Jobs, Carries
    <2>2. In(p) /\ In(p)'
      BY <1>1, <1>2, <1>4 DEF LeaveLocks, Out, WorldActive, In, Live, Shown, simVars
    <2>3. Midway(p)' /\ Working(p)' /\ Subject(p)' = p
      BY <2>1, <2>2 DEF Midway, ExitsMidway, Working, Subject, Inside, Exiting, Kicking, Entering
    <2>4. OneSession(p, p) /\ Keeps(p) /\ Fades(p)
      BY <1>1, <1>4, <2>1 DEF OneSession, Keeps, Fades, LeaveLocks, Locks
    <2> QED BY <1>0, <1>1, <2>3, <2>4, SessionKeeps
  <1>5. CASE EnterLocks(p)
    <2> DEFINE others == WorldSessions(AccountOf[p], p)
    <2>1. Out(p) /\ Out(p)' /\ job[p].char \in exists
      BY <1>1, <1>2, <1>5 DEF EnterLocks, Out, WorldActive, In, Live, Shown
    <2>2. CASE Goto(p, "begin")
      <3>1. /\ job'[p].at = "begin" /\ job'[p].task = "enter" /\ job'[p].char = job[p].char
            /\ \A q \in Proc \ {p} : job'[q] = job[q]
        BY <1>0, <1>5, <2>2, Goes DEF EnterLocks, Locks
      <3>2. Midway(p)' /\ Working(p)' /\ Subject(p)' = p
        BY <1>1, <2>1, <3>1
           DEF Midway, ExitsMidway, EntersMidway, Working, Subject, Inside, Exiting, Kicking, Entering
      <3>3. OneSession(p, p) /\ Keeps(p) /\ Fades(p)
        BY <1>1, <1>5, <3>1 DEF OneSession, Keeps, Fades, EnterLocks, Locks
      <3> QED BY <1>0, <1>1, <3>2, <3>3, SessionKeeps
    <2>3. ASSUME NEW old \in others, registry[old].state = "IN_WORLD",
                 job' = [job EXCEPT ![p].at = "flush", ![p].sid = old]
          PROVE  Full'
      <3>1. old \in Session /\ AccountOf[old] = AccountOf[p]
        BY <2>3 DEF WorldSessions
      <3>2. job'[p] = [job[p] EXCEPT !.at = "flush", !.sid = old]
            /\ \A q \in Proc \ {p} : job'[q] = job[q]
        BY <1>0, <2>3 DEF IInv, Jobs
      <3>3. /\ job'[p].at = "flush" /\ job'[p].task = "enter" /\ job'[p].char = job[p].char
            /\ job'[p].sid = old
        BY <1>3, <1>5, <3>2 DEF EnterLocks, Locks, Job
      <3>4. In(old) /\ In(old)'
        BY <1>1, <1>2, <2>3, <3>1 DEF Out, WorldActive, In, Live, Shown, simVars
      <3>5. Midway(p)' /\ Working(p)' /\ Subject(p)' = old
        BY <1>1, <2>1, <3>3, <3>4
           DEF Midway, ExitsMidway, EntersMidway, Working, Subject, Inside, Exiting, Kicking, Entering
      <3>6. OneSession(p, old) /\ Keeps(old) /\ Fades(old)
        BY <1>1, <1>5, <3>2, <3>3 DEF OneSession, Keeps, Fades, EnterLocks, Locks
      <3> QED BY <1>0, <1>1, <3>1, <3>5, <3>6, SessionKeeps
    <2> QED BY <1>5, <2>2, <2>3 DEF EnterLocks
  <1> QED BY <1>4, <1>5

LEMMA ReapIsWhole ==
  ASSUME Full, IInv', NEW p \in Proc, Reap(p)
  PROVE  Full'
  <1> USE DEF Full
  <1>0. PICK s \in Session : s = job[p].sid
    BY DEF Reap, ReapLocks, ReapRemoves, IInv, Jobs, Carries
  <1>1. ~Working(p) /\ Free(s) /\ Alone(p, AccountOf[s])
    BY <1>0, NotInside, FreeIsAlone DEF Reap, ReapLocks, ReapRemoves
  <1>2. In(s) \/ Out(s)
    BY <1>1, NotASubject
  <1>3. CASE ReapLocks(p)
    <2>1. /\ job'[p].at = "flush" /\ job'[p].task = "reap" /\ job'[p].sid = s
          /\ job'[p].char = job[p].char
          /\ \A q \in Proc \ {p} : job'[q] = job[q]
      BY <1>0, <1>3, Goes DEF ReapLocks
    <2>2. UNCHANGED <<registry, presence, pending, simVars, exists>>
      BY <1>3 DEF ReapLocks, sessionVars, entryVars
    <2>3. In(s) /\ OwnedPresence(s)
      BY <1>0, <1>2, <1>3 DEF ReapLocks, OwnedPresence, Out
    <2>4. registry'[s] = registry[s] /\ presence'[s] = presence[s] /\ world' = world /\ exists' = exists
      BY <2>2 DEF simVars
    <2>5. In(s)'
      BY <2>3, <2>4 DEF In, Live, Shown
    <2>6. Midway(p)' /\ Working(p)' /\ Subject(p)' = s
      BY <2>1, <2>5 DEF Midway, ExitsMidway, Working, Subject, Inside, Exiting, Kicking, Entering
    <2>7. OneSession(p, s) /\ Keeps(s) /\ Fades(s)
      BY <1>3, <2>1, <2>2 DEF OneSession, Keeps, Fades, ReapLocks
    <2> QED BY <1>1, <2>2, <2>6, <2>7, SessionKeeps
  <1>4. CASE ReapRemoves(p)
    <2>1. /\ ~Working(p)' /\ job'[p].task = "none" /\ job'[p].at # "move"
          /\ \A q \in Proc \ {p} : job'[q] = job[q]
      BY <1>4, Rests DEF ReapRemoves
    <2>2. UNCHANGED <<pending, simVars, exists>>
      BY <1>4 DEF ReapRemoves
    <2>3. Out(s)
      BY <1>0, <1>2, <1>4 DEF ReapRemoves, OwnedPresence, In, Live, Shown
    <2>4. /\ \/ registry'[s] = registry[s] /\ presence'[s] = presence[s]
             \/ registry'[s] = [state |-> "GONE", char |-> None] /\ presence'[s] = None
          /\ \A t \in Session \ {s} : registry'[t] = registry[t] /\ presence'[t] = presence[t]
      BY <1>0, <1>1, <1>4 DEF ReapRemoves, Remove, sessionVars, IInv, RegistryOK, DataOK
    <2>5. Out(s)'
      BY <2>3, <2>4 DEF Out, WorldActive
    <2>6. Fades(s) /\ OneSession(p, s) /\ Keeps(s)
      BY <2>1, <2>2, <2>3, <2>4 DEF Fades, Live, Shown, Out, WorldActive, OneSession, Keeps
    <2> QED BY <1>1, <2>1, <2>2, <2>5, <2>6, SessionKeeps
  <1> QED BY <1>3, <1>4 DEF Reap

(* Registry and presences stay; an entity or what its flush knows changes.   *)
LEMMA EntryKeeps ==
  ASSUME Full, IInv', NEW p \in Proc, NEW t \in Session, NEW c \in Character,
         OwnerOf[c] = AccountOf[t], Alone(p, AccountOf[t]),
         UNCHANGED <<registry, presence, exists>>,
         \A s \in Session \ {t} : pending'[s] = pending[s],
         \A d \in Character \ {c} : world'[d] = world[d] /\ (d \in quiet' <=> d \in quiet),
         unsaved' \subseteq unsaved, lastEntity' >= lastEntity,
         \/ world'[c] = world[c]
         \/ c \notin unsaved' /\ world'[c] = 0
         \/ c \notin unsaved' /\ world'[c] > lastEntity /\ world'[c] <= lastEntity',
         \/ pending'[t] \in {None, pending[t]}
         \/ job[t].task = "enter" /\ pending'[t].char = job[t].char
            /\ pending'[t].entity <= lastEntity',
         \A q \in Proc \ {p} : job'[q] = job[q],
         job'[p].at # "move",
         job'[p].task = "none" \/ (job'[p].task = job[p].task /\ job'[p].char = job[p].char),
         Working(p) => Subject(p) = t,
         Working(p)' /\ Subject(p)' = t /\ Midway(p)',
         \A s \in Session \ {t} : In(s) => registry[s].char # c \/ world'[c] = world[c]
  PROVE  Full'
  <1> USE DEF Full
  <1>1. OneEntry(t, c)
    BY DEF OneEntry
  <1>2. Middle' /\ Whole'
    BY <1>1, EntryStep
  <1>3. \A s \in Session : job'[s].at = "move" => job'[s] = job[s]
    BY DEF Proc
  <1>4. Moves' /\ Progress'
    <2>1. \A s \in Session, d \in Character, e \in 1 .. MaxEntities :
              Shown(s, d, e) => ShownNext(s, d, e)
      BY DEF Shown, ShownNext
    <2>2. \A d \in Character : world'[d] # world[d] =>
              d \notin unsaved' /\ (world'[d] = 0 \/ world'[d] > lastEntity)
      OBVIOUS
    <2>3. unsaved \subseteq Character
      BY DEF IInv, DataOK
    <2> QED BY <1>3, <2>1, <2>2, <2>3, SeenStep
  <1>5. Owners'
    <2>1. lastEntity' \in 0 .. MaxEntities /\ 0 <= lastEntity'
      BY WorldConstants DEF IInv, DataOK
    <2>2. \A d \in Character : world'[d] = world[d] \/ world'[d] <= lastEntity'
      BY <2>1
    <2>3. \A q \in Proc : job'[q].task \in {"enter", "delete"} =>
              job[q].task \in {"enter", "delete"} /\ job'[q].char = job[q].char
      OBVIOUS
    <2> QED BY <1>3, <2>1, <2>2, <2>3, OwnersStep
  <1> QED BY <1>2, <1>4, <1>5

LEMMA GivesUp ==
  ASSUME IInv, NEW p \in Proc, GiveUpExit(p)
  PROVE  Rest(p) \/ job' = [job EXCEPT ![p] = AfterReap(p)]
  <1>1. CASE job[p].task = "reap"
    BY <1>1 DEF GiveUpExit, IInv, Jobs
  <1>2. CASE job[p].task # "reap"
    BY <1>2 DEF GiveUpExit, Rest, IInv, Jobs
  <1> QED BY <1>1, <1>2

(* Where a world exit stands.                                                *)
LEMMA ExitStands ==
  ASSUME Full, NEW p \in Proc, job[p].at \in Exiting \cup Kicking
  PROVE  \E s \in Session :
            /\ s = job[p].sid /\ Working(p) /\ Subject(p) = s /\ Alone(p, AccountOf[s])
            /\ ExitsMidway(job[p])
            /\ job[p].task = "enter" =>
                  p \in Session /\ job[p].char \in exists /\ Out(p) /\ AccountOf[p] = AccountOf[s]
            /\ registry[s].state = "IN_WORLD" =>
                  /\ registry[s].char \in Character /\ byChar[registry[s].char] = s
                  /\ OwnerOf[registry[s].char] = AccountOf[s]
                  /\ registry[s].state \in WorldActive
  <1> USE DEF Full
  <1>1. Working(p) /\ Midway(p)
    BY DEF Working, Inside, Middle
  <1>2. PICK s \in Session : s = job[p].sid
    BY <1>1, SubjectOf
  <1>3. Subject(p) = s /\ Alone(p, AccountOf[s])
    BY <1>1, <1>2, SubjectOf, WorksAlone
  <1>4. job[p].task = "enter" =>
            p \in Session /\ job[p].char \in exists /\ Out(p) /\ AccountOf[p] = AccountOf[s]
    BY <1>1, <1>2, <1>3, SubjectOf DEF Midway, EntersMidway
  <1>5. registry[s].state = "IN_WORLD" =>
            /\ registry[s].char \in Character /\ byChar[registry[s].char] = s
            /\ OwnerOf[registry[s].char] = AccountOf[s]
            /\ registry[s].state \in WorldActive
    BY ActiveIsBound, WorldConstants DEF IInv, Owners
  <1> QED BY <1>1, <1>2, <1>3, <1>4, <1>5 DEF Midway

LEMMA ExitFailsIsWhole ==
  ASSUME Full, IInv', NEW p \in Proc, FlushFails(p) \/ RemoveEntityFails(p)
  PROVE  Full'
  <1>1. PICK s \in Session : s = job[p].sid /\ Working(p) /\ Subject(p) = s /\ Alone(p, AccountOf[s])
                             /\ ExitsMidway(job[p])
    BY ExitStands DEF FlushFails, RemoveEntityFails, Exiting
  <1>2. In(s) /\ UNCHANGED <<registry, presence, pending, simVars, exists>>
    BY <1>1 DEF ExitsMidway, FlushFails, RemoveEntityFails, sessionVars, entryVars
  <1>3. In(s)'
    BY <1>2 DEF In, Live, Shown, simVars
  <1>4. /\ ~Working(p)' /\ job'[p].task = "none" /\ job'[p].at # "move"
        /\ \A q \in Proc \ {p} : job'[q] = job[q]
    BY GivesUp, Rests DEF Full, FlushFails, RemoveEntityFails
  <1>5. OneSession(p, s) /\ Keeps(s) /\ Fades(s)
    BY <1>2, <1>4 DEF OneSession, Keeps, Fades
  <1> QED BY <1>1, <1>2, <1>3, <1>4, <1>5, SessionKeeps

LEMMA FlushIsWhole ==
  ASSUME Full, IInv', NEW p \in Proc, Flush(p)
  PROVE  Full'
  <1>1. PICK s \in Session :
            /\ s = job[p].sid /\ Working(p) /\ Subject(p) = s /\ Alone(p, AccountOf[s])
            /\ ExitsMidway(job[p])
            /\ job[p].task = "enter" => job[p].char \in exists /\ Out(p)
            /\ registry[s].state = "IN_WORLD" =>
                  registry[s].char \in Character /\ OwnerOf[registry[s].char] = AccountOf[s]
    BY ExitStands DEF Flush, Exiting
  <1>2. In(s)
    BY <1>1 DEF ExitsMidway, Flush
  <1>3. PICK c \in Character : c = registry[s].char /\ c = presence[s].char /\ OwnerOf[c] = AccountOf[s]
    BY <1>1, <1>2 DEF In, Live, Shown
  <1>4. /\ quiet' = quiet \cup {c} /\ unsaved' = unsaved \ {c}
        /\ UNCHANGED <<registry, presence, pending, world, lastEntity, exists>>
    BY <1>1, <1>3 DEF Flush, sessionVars, entryVars
  <1>5. /\ job'[p].at = "remove" /\ job'[p].task = job[p].task /\ job'[p].sid = s
        /\ job'[p].char = job[p].char
        /\ \A q \in Proc \ {p} : job'[q] = job[q]
    BY <1>1, Goes DEF Flush, Full
  <1>6. In(s)'
    BY <1>2, <1>4 DEF In, Live, Shown
  <1>7. job[p].task = "enter" => job[p].char \in exists' /\ Out(p)'
    BY <1>1, <1>4 DEF Out
  <1>8. Working(p)' /\ Subject(p)' = s /\ Midway(p)'
    BY <1>3, <1>4, <1>5, <1>6, <1>7
       DEF Midway, ExitsMidway, EntersMidway, Working, Subject, Inside, Exiting, Kicking, Entering
  <1>9. lastEntity' >= lastEntity
    BY <1>4, WorldConstants DEF Full, IInv, DataOK
  <1> QED BY <1>1, <1>3, <1>4, <1>5, <1>8, <1>9, EntryKeeps

LEMMA RemoveEntityIsWhole ==
  ASSUME Full, IInv', NEW p \in Proc, RemoveEntity(p)
  PROVE  Full'
  <1>1. PICK s \in Session :
            /\ s = job[p].sid /\ Working(p) /\ Subject(p) = s /\ Alone(p, AccountOf[s])
            /\ ExitsMidway(job[p])
            /\ job[p].task = "enter" => job[p].char \in exists /\ Out(p)
            /\ registry[s].state = "IN_WORLD" =>
                  /\ registry[s].char \in Character /\ OwnerOf[registry[s].char] = AccountOf[s]
                  /\ byChar[registry[s].char] = s
    BY ExitStands DEF RemoveEntity, Exiting
  <1>2. In(s)
    BY <1>1 DEF ExitsMidway, RemoveEntity
  <1>3. PICK c \in Character : /\ c = registry[s].char /\ c = presence[s].char
                               /\ OwnerOf[c] = AccountOf[s] /\ byChar[c] = s
    BY <1>1, <1>2 DEF In, Live, Shown
  <1>4. /\ quiet' = quiet \ {c} /\ unsaved' = unsaved \ {c}
        /\ world' = [world EXCEPT ![c] = 0]
        /\ UNCHANGED <<registry, presence, pending, lastEntity, exists>>
    BY <1>1, <1>3 DEF RemoveEntity, sessionVars, entryVars
  <1>5. /\ job'[p].at = "clear" /\ job'[p].task = job[p].task /\ job'[p].sid = s
        /\ job'[p].char = job[p].char
        /\ \A q \in Proc \ {p} : job'[q] = job[q]
    BY <1>1, Goes DEF RemoveEntity, Full
  <1>6. world'[c] = 0 /\ \A d \in Character \ {c} : world'[d] = world[d]
    BY <1>4 DEF Full, IInv, DataOK
  <1>7. job[p].task = "enter" => job[p].char \in exists' /\ Out(p)'
    BY <1>1, <1>4 DEF Out
  <1>8. Shown(s, c, presence[s].entity)'
    BY <1>2, <1>3, <1>4 DEF In, Live, Shown
  <1>9. Working(p)' /\ Subject(p)' = s /\ Midway(p)'
    BY <1>3, <1>4, <1>5, <1>6, <1>7, <1>8
       DEF Midway, ExitsMidway, EntersMidway, Working, Subject, Inside, Exiting, Kicking, Entering
  <1>10. lastEntity' >= lastEntity
    BY <1>4, WorldConstants DEF Full, IInv, DataOK
  <1>11. ASSUME NEW r \in Session \ {s}, In(r) PROVE registry[r].char # c
    BY <1>3, <1>11 DEF Full, IInv, RegistryOK, BindingsAgree
  <1> QED BY <1>1, <1>3, <1>4, <1>5, <1>6, <1>9, <1>10, <1>11, EntryKeeps

LEMMA ClearIsWhole ==
  ASSUME Full, IInv', NEW p \in Proc, ClearPresence(p)
  PROVE  Full'
  <1>1. PICK s \in Session :
            /\ s = job[p].sid /\ Working(p) /\ Subject(p) = s /\ Alone(p, AccountOf[s])
            /\ ExitsMidway(job[p])
            /\ job[p].task = "enter" => p \in Session /\ job[p].char \in exists /\ Out(p)
    BY ExitStands DEF ClearPresence, Exiting
  <1>2. Shown(s, registry[s].char, presence[s].entity) /\ world[registry[s].char] = 0
    BY <1>1 DEF ExitsMidway, ClearPresence
  <1>3. /\ UNCHANGED <<registry, pending, simVars, exists>>
        /\ presence'[s] = None /\ \A r \in Session \ {s} : presence'[r] = presence[r]
    BY <1>1 DEF ClearPresence, sessionVars, Full, IInv, DataOK
  <1>4. /\ job'[p].at = "unbind" /\ job'[p].task = job[p].task /\ job'[p].sid = s
        /\ job'[p].char = job[p].char
        /\ \A q \in Proc \ {p} : job'[q] = job[q]
    BY <1>1, Goes DEF ClearPresence, Full
  <1>5. job[p].task = "enter" => job[p].char \in exists' /\ Out(p)'
    BY <1>1, <1>3 DEF Out
  <1>6. Working(p)' /\ Subject(p)' = s /\ Midway(p)'
    BY <1>2, <1>3, <1>4, <1>5
       DEF Midway, ExitsMidway, EntersMidway, Shown, Working, Subject, Inside, Exiting, Kicking, Entering
  <1>7. OneSession(p, s) /\ Keeps(s) /\ Fades(s)
    BY <1>2, <1>3, <1>4 DEF OneSession, Keeps, Fades, Live, Shown
  <1> QED BY <1>1, <1>3, <1>6, <1>7, SessionKeeps

(* A session that left the world entirely.                                   *)
LEMMA OutKeeps ==
  ASSUME Full, IInv', NEW p \in Proc, NEW s \in Session, Working(p), Subject(p) = s,
         presence[s] = None, UNCHANGED <<presence, pending, simVars, exists>>,
         \A r \in Session \ {s} : registry'[r] = registry[r],
         registry'[s].state \notin WorldActive,
         \A q \in Proc \ {p} : job'[q] = job[q],
         job'[p].at # "move",
         job'[p].task = "none" \/ (job'[p].task = job[p].task /\ job'[p].char = job[p].char),
         Working(p)' => Midway(p)'
  PROVE  Full'
  <1>1. Alone(p, AccountOf[s])
    BY SubjectOf, WorksAlone DEF Full
  <1>2. Out(s)' /\ registry'[s].char = None
    BY DEF Out, IInv, RegistryOK, BindingsAgree
  <1>3. OneSession(p, s) /\ Keeps(s) /\ Fades(s)
    BY <1>2 DEF OneSession, Keeps, Fades, Live, Shown
  <1> QED BY <1>1, <1>2, <1>3, SessionKeeps

LEMMA UnbindIsWhole ==
  ASSUME Full, IInv', NEW p \in Proc, LeaveUnbinds(p) \/ ReapUnbinds(p) \/ TakeoverUnbinds(p)
  PROVE  Full'
  <1>1. PICK s \in Session :
            /\ s = job[p].sid /\ Working(p) /\ Subject(p) = s
            /\ ExitsMidway(job[p])
            /\ job[p].task = "enter" => p \in Session /\ job[p].char \in exists /\ Out(p)
            /\ registry[s].state = "IN_WORLD" =>
                  registry[s].char \in Character /\ byChar[registry[s].char] = s
    BY ExitStands DEF LeaveUnbinds, ReapUnbinds, TakeoverUnbinds, Exiting
  <1>2. registry[s].state = "IN_WORLD" /\ presence[s] = None
    BY <1>1 DEF ExitsMidway, LeaveUnbinds, ReapUnbinds, TakeoverUnbinds
  <1>3. CanUnbind(s, registry[s].char, "IN_WORLD") /\ Registered(s)
    BY <1>1, <1>2 DEF CanUnbind, Bound, Registered
  <1>4. UNCHANGED <<presence, pending, simVars, exists>>
    BY DEF LeaveUnbinds, ReapUnbinds, TakeoverUnbinds, entryVars
  <1>5. Unbind(s, registry[s].char) \/ Remove(s) =>
           /\ registry'[s].state \notin WorldActive
           /\ \A r \in Session \ {s} : registry'[r] = registry[r]
    BY DEF Unbind, Remove, WorldActive, Full, IInv, RegistryOK
  <1>6. CASE LeaveUnbinds(p)
    <2>1. p = s
      BY <1>1, <1>6 DEF LeaveUnbinds, Full, IInv, Jobs, Carries
    <2>2. Unbind(s, registry[s].char) /\ Rest(p)
      BY <1>3, <1>6, <2>1 DEF LeaveUnbinds
    <2>3. /\ ~Working(p)' /\ job'[p].task = "none" /\ job'[p].at # "move"
          /\ \A q \in Proc \ {p} : job'[q] = job[q]
      BY <2>2, Rests DEF Full
    <2> QED BY <1>1, <1>2, <1>4, <1>5, <2>2, <2>3, OutKeeps
  <1>7. CASE ReapUnbinds(p)
    <2>1. /\ ~Working(p)' /\ job'[p].task = "none" /\ job'[p].at # "move"
          /\ \A q \in Proc \ {p} : job'[q] = job[q]
      BY <1>7, Rests DEF Full, ReapUnbinds
    <2>2. Remove(s)
      BY <1>1, <1>7 DEF ReapUnbinds
    <2> QED BY <1>1, <1>2, <1>4, <1>5, <2>1, <2>2, OutKeeps
  <1>8. CASE TakeoverUnbinds(p)
    <2>1. Unbind(s, registry[s].char) /\ Goto(p, "kick") /\ job[p].task = "enter"
      BY <1>1, <1>3, <1>8 DEF TakeoverUnbinds
    <2>2. /\ job'[p].at = "kick" /\ job'[p].task = "enter" /\ job'[p].sid = s
          /\ job'[p].char = job[p].char
          /\ \A q \in Proc \ {p} : job'[q] = job[q]
      BY <1>1, <2>1, Goes DEF Full
    <2>3. p # s
      BY <1>1, <1>2, <2>1 DEF Out, WorldActive
    <2>4. job[p].char \in exists' /\ Out(p)' /\ Out(s)'
      BY <1>1, <1>2, <1>4, <1>5, <2>1, <2>3 DEF Out
    <2>5. Midway(p)'
      BY <2>2, <2>4 DEF Midway, ExitsMidway, EntersMidway, Exiting, Kicking
    <2> QED BY <1>1, <1>2, <1>4, <1>5, <2>1, <2>2, <2>5, OutKeeps
  <1> QED BY <1>6, <1>7, <1>8

LEMMA KickIsWhole ==
  ASSUME Full, IInv', NEW p \in Proc, Kick(p) \/ CloseKicked(p)
  PROVE  Full'
  <1>1. PICK s \in Session :
            /\ s = job[p].sid /\ Working(p) /\ Subject(p) = s
            /\ ExitsMidway(job[p])
            /\ job[p].task = "enter" => p \in Session /\ job[p].char \in exists /\ Out(p)
    BY ExitStands DEF Kick, CloseKicked, Kicking
  <1>2. Out(s) /\ job[p].task = "enter"
    BY <1>1 DEF ExitsMidway, Kick, CloseKicked, Kicking, Full, IInv, Jobs, Carries
  <1>3. UNCHANGED <<presence, pending, simVars, exists>>
    BY DEF Kick, CloseKicked, entryVars
  <1>4. /\ registry'[s].state \notin WorldActive
        /\ \A r \in Session \ {s} : registry'[r] = registry[r]
    BY <1>1, <1>2 DEF Kick, CloseKicked, sessionVars, Remove, Out, WorldActive, Full, IInv, RegistryOK
  <1>5. PICK l \in {"close", "begin"} : Goto(p, l)
    BY DEF Kick, CloseKicked
  <1>6. /\ job'[p].at = l /\ job'[p].task = "enter" /\ job'[p].sid = s
        /\ job'[p].char = job[p].char
        /\ \A q \in Proc \ {p} : job'[q] = job[q]
    BY <1>1, <1>2, <1>5, Goes DEF Full
  <1>7. job[p].char \in exists' /\ Out(p)' /\ Out(s)'
    BY <1>1, <1>2, <1>3, <1>4 DEF Out
  <1>8. Midway(p)'
    BY <1>6, <1>7 DEF Midway, ExitsMidway, EntersMidway, Exiting, Kicking
  <1> QED BY <1>1, <1>2, <1>3, <1>4, <1>6, <1>8, OutKeeps DEF Out

LEMMA ExitIsWhole ==
  ASSUME Full, IInv', NEW p \in Proc, Exit(p)
  PROVE  Full'
  BY ExitFailsIsWhole, FlushIsWhole, RemoveEntityIsWhole, ClearIsWhole, UnbindIsWhole, KickIsWhole
     DEF Exit

-----------------------------------------------------------------------------
(* The rest of enter *)

(* Where an enter stands that has the guard to itself.                       *)
LEMMA EnterStands ==
  ASSUME Full, NEW p \in Session, job[p].at \in Entering
  PROVE  /\ p \in Proc /\ Working(p) /\ Subject(p) = p /\ Alone(p, AccountOf[p])
         /\ job[p].task = "enter" /\ job[p].char \in exists /\ job[p].char \in Character
         /\ OwnerOf[job[p].char] = AccountOf[p]
         /\ EntersMidway(p, job[p])
         /\ registry[p].char = job[p].char => byChar[job[p].char] = p
  <1> USE DEF Full
  <1>1. p \in Proc /\ Working(p) /\ Midway(p)
    BY DEF Proc, Working, Inside, Middle
  <1>2. Subject(p) = p /\ Alone(p, AccountOf[p])
    BY <1>1, SubjectOf, WorksAlone
  <1>3. job[p].task = "enter"
    BY <1>1 DEF IInv, Jobs, Carries
  <1>4. job[p].char \in Character /\ OwnerOf[job[p].char] = AccountOf[p]
    BY <1>1, <1>3, SubjectOf DEF Owners
  <1>5. registry[p].char = job[p].char => byChar[job[p].char] = p
    BY <1>4 DEF IInv, RegistryOK, BindingsAgree
  <1> QED BY <1>1, <1>2, <1>3, <1>4, <1>5 DEF Midway

LEMMA BeginIsWhole ==
  ASSUME Full, IInv', NEW p \in Session, BeginEnterWorld(p)
  PROVE  Full'
  <1> DEFINE c == job[p].char
  <1>1. /\ p \in Proc /\ Working(p) /\ Subject(p) = p /\ Alone(p, AccountOf[p])
        /\ job[p].task = "enter" /\ job[p].char \in exists /\ Out(p)
    BY EnterStands DEF BeginEnterWorld, Entering, EntersMidway
  <1>2. UNCHANGED <<presence, pending, simVars, exists>> /\ presence[p] = None
    BY <1>1 DEF BeginEnterWorld, entryVars, Out
  <1>3. CASE registry' = [registry EXCEPT ![p] = [state |-> "CHARACTER_SELECTED", char |-> job[p].char]]
             /\ Goto(p, "stage")
    <2>1. /\ job'[p].at = "stage" /\ job'[p].task = "enter" /\ job'[p].char = job[p].char
          /\ \A q \in Proc \ {p} : job'[q] = job[q]
      BY <1>1, <1>3, Goes DEF Full
    <2>2. /\ registry'[p] = [state |-> "CHARACTER_SELECTED", char |-> job[p].char]
          /\ \A s \in Session \ {p} : registry'[s] = registry[s]
      BY <1>3 DEF Full, IInv, RegistryOK
    <2>3. Working(p)' /\ Subject(p)' = p /\ Midway(p)'
      BY <1>1, <1>2, <2>1, <2>2
         DEF Midway, ExitsMidway, EntersMidway, Working, Subject, Inside, Exiting, Kicking, Entering
    <2>4. OneSession(p, p) /\ Keeps(p) /\ Fades(p)
      BY <1>1, <1>2, <2>1, <2>2 DEF OneSession, Keeps, Fades, Live, Shown
    <2> QED BY <1>1, <1>2, <2>3, <2>4, SessionKeeps
  <1>4. CASE Fail(p) /\ UNCHANGED sessionVars
    <2>1. /\ ~Working(p)' /\ job'[p].task = "none" /\ job'[p].at # "move"
          /\ \A q \in Proc \ {p} : job'[q] = job[q]
      BY <1>1, <1>4, Rests DEF Full
    <2> QED BY <1>1, <1>2, <1>4, <2>1, OutKeeps DEF Out, sessionVars
  <1> QED BY <1>3, <1>4 DEF BeginEnterWorld

(* Dropping the binding of an enter takes its session out.                   *)
LEMMA DropIsOut ==
  ASSUME Full, NEW p \in Session, job[p].at \in Entering, NEW from,
         registry[p] = [state |-> from, char |-> job[p].char], DropBinding(p, from)
  PROVE  /\ registry'[p] = [state |-> "AUTHENTICATED", char |-> None]
         /\ \A s \in Session \ {p} : registry'[s] = registry[s]
  <1>1. CanUnbind(p, job[p].char, from)
    BY EnterStands DEF CanUnbind, Bound
  <1> QED BY <1>1 DEF DropBinding, Unbind, Full, IInv, RegistryOK

LEMMA RetryIsWhole ==
  ASSUME Full, IInv', NEW p \in Session, PrepareUnavailable(p) \/ PrepareRefused(p)
  PROVE  Full'
  <1>1. /\ p \in Proc /\ Working(p) /\ Subject(p) = p /\ job[p].task = "enter"
        /\ registry[p] = [state |-> "CHARACTER_SELECTED", char |-> job[p].char] /\ presence[p] = None
    BY EnterStands DEF PrepareUnavailable, PrepareRefused, Entering, EntersMidway
  <1>2. UNCHANGED <<presence, pending, simVars, exists>>
    BY DEF PrepareUnavailable, PrepareRefused, entryVars
  <1>3. /\ registry'[p] = [state |-> "AUTHENTICATED", char |-> None]
        /\ \A s \in Session \ {p} : registry'[s] = registry[s]
    BY <1>1, DropIsOut DEF PrepareUnavailable, PrepareRefused, Entering
  <1>4. /\ ~Working(p)' /\ job'[p].task = "none" /\ job'[p].at # "move"
        /\ \A q \in Proc \ {p} : job'[q] = job[q]
    BY <1>1, Rests DEF Full, PrepareUnavailable, PrepareRefused
  <1> QED BY <1>1, <1>2, <1>3, <1>4, OutKeeps DEF WorldActive

LEMMA StreamIsWhole ==
  ASSUME Full, IInv', NEW p \in Session, StreamBaseline(p)
  PROVE  Full'
  <1>1. /\ p \in Proc /\ Working(p) /\ Subject(p) = p /\ Alone(p, AccountOf[p])
        /\ job[p].task = "enter" /\ job[p].char \in exists
        /\ EntersMidway(p, job[p])
    BY EnterStands DEF StreamBaseline, Entering
  <1>2. /\ registry[p] = [state |-> "CHARACTER_SELECTED", char |-> job[p].char] /\ presence[p] = None
        /\ Staged(p, job[p].char)
        /\ UNCHANGED <<registry, presence, pending, simVars, exists>>
    BY <1>1 DEF EntersMidway, StreamBaseline, sessionVars, entryVars
  <1>3. /\ job'[p].at = "complete" /\ job'[p].task = "enter" /\ job'[p].char = job[p].char
        /\ \A q \in Proc \ {p} : job'[q] = job[q]
    BY <1>1, Goes DEF StreamBaseline, Full
  <1>4. Working(p)' /\ Subject(p)' = p /\ Midway(p)'
    BY <1>1, <1>2, <1>3 DEF Midway, ExitsMidway, EntersMidway, Staged, simVars,
       Working, Subject, Inside, Exiting, Kicking, Entering
  <1>5. OneSession(p, p) /\ Keeps(p) /\ Fades(p)
    BY <1>1, <1>2, <1>3 DEF OneSession, Keeps, Fades
  <1> QED BY <1>1, <1>2, <1>4, <1>5, SessionKeeps

(* A character half entered has no progress: nobody shows it.                *)
LEMMA NotShown ==
  ASSUME Full, NEW p \in Session, NEW c \in Character, OwnerOf[c] = AccountOf[p],
         registry[p].state = "CHARACTER_SELECTED"
  PROVE  c \notin unsaved
  <1>1. SUFFICES ASSUME NEW s \in Session, Live(s, c) PROVE FALSE
    BY DEF Full, Progress
  <1>2. registry[s].state = "IN_WORLD" /\ AccountOf[s] = AccountOf[p]
    BY <1>1 DEF Live, Shown, Full, Owners
  <1> QED BY <1>2 DEF Full, IInv, Order, Unique, WorldActive

LEMMA CompleteIsWhole ==
  ASSUME Full, IInv', NEW p \in Session, CompleteEnterWorld(p)
  PROVE  Full'
  <1> DEFINE c == job[p].char
  <1>1. /\ p \in Proc /\ Working(p) /\ Subject(p) = p /\ Alone(p, AccountOf[p])
        /\ job[p].task = "enter" /\ c \in exists /\ c \in Character
        /\ OwnerOf[c] = AccountOf[p] /\ EntersMidway(p, job[p])
        /\ registry[p].char = c => byChar[c] = p
    BY EnterStands DEF CompleteEnterWorld, Entering
  <1>2. /\ registry[p] = [state |-> "CHARACTER_SELECTED", char |-> c] /\ presence[p] = None
        /\ Staged(p, c)
    BY <1>1 DEF EntersMidway, CompleteEnterWorld
  <1>3. CanUnbind(p, c, "CHARACTER_SELECTED") /\ c \notin unsaved
    BY <1>1, <1>2, NotShown DEF CanUnbind, Bound
  <1>4. /\ registry' = [registry EXCEPT ![p].state = "IN_WORLD"] /\ Goto(p, "boot")
        /\ UNCHANGED <<presence, pending, simVars, exists>>
    BY <1>3 DEF CompleteEnterWorld
  <1>5. /\ job'[p].at = "boot" /\ job'[p].task = "enter" /\ job'[p].char = c
        /\ \A q \in Proc \ {p} : job'[q] = job[q]
    BY <1>1, <1>4, Goes DEF Full
  <1>6. /\ registry'[p] = [state |-> "IN_WORLD", char |-> c]
        /\ \A s \in Session \ {p} : registry'[s] = registry[s]
    BY <1>2, <1>4 DEF Full, IInv, RegistryOK
  <1>7. Working(p)' /\ Subject(p)' = p /\ Midway(p)'
    BY <1>1, <1>2, <1>3, <1>4, <1>5, <1>6 DEF Midway, ExitsMidway, EntersMidway, Staged, simVars,
       Working, Subject, Inside, Exiting, Kicking, Entering
  <1>8. OneSession(p, p) /\ Keeps(p) /\ Fades(p)
    BY <1>1, <1>2, <1>4, <1>5, <1>6 DEF OneSession, Keeps, Fades, Live, Shown
  <1> QED BY <1>1, <1>4, <1>7, <1>8, SessionKeeps

LEMMA ActivateIsWhole ==
  ASSUME Full, IInv', NEW p \in Session, Activate(p)
  PROVE  Full'
  <1> DEFINE c == job[p].char
  <1>1. /\ p \in Proc /\ Working(p) /\ Subject(p) = p /\ Alone(p, AccountOf[p])
        /\ job[p].task = "enter" /\ c \in exists /\ job[p].at = "boot"
        /\ EntersMidway(p, job[p])
    BY EnterStands DEF Activate, Entering
  <1>2. /\ registry[p] = [state |-> "IN_WORLD", char |-> c] /\ presence[p] = None
        /\ Staged(p, c) /\ c \notin unsaved
    BY <1>1 DEF EntersMidway, Activate
  <1>3. /\ presence'[p] = [char |-> pending[p].char, entity |-> pending[p].entity, stale |-> FALSE]
        /\ \A s \in Session \ {p} : presence'[s] = presence[s]
        /\ UNCHANGED <<registry, pending, simVars, exists, job>>
    BY DEF Activate, Full, IInv, DataOK, sessionVars
  <1>4. presence'[p] # None
    <2>1. pending[p] \in Entry
      BY <1>2 DEF Staged, Full, IInv, DataOK
    <2>2. presence'[p] \in [char : Character, entity : 1 .. MaxEntities, stale : BOOLEAN]
      BY <1>3, <2>1 DEF Entry
    <2> QED BY <2>2, WorldConstants
  <1>5. Live(p, c)' /\ Staged(p, c)'
    BY <1>2, <1>3, <1>4 DEF Live, Shown, Staged, simVars
  <1>6. Working(p)' /\ Subject(p)' = p /\ Midway(p)'
    BY <1>1, <1>2, <1>3, <1>5 DEF Midway, ExitsMidway, EntersMidway, simVars,
       Working, Subject, Inside, Exiting, Kicking, Entering
  <1>7. OneSession(p, p) /\ Keeps(p) /\ Fades(p)
    BY <1>1, <1>2, <1>3 DEF OneSession, Keeps, Fades, Live, Shown, Staged
  <1> QED BY <1>1, <1>3, <1>6, <1>7, SessionKeeps

LEMMA CommitIsWhole ==
  ASSUME Full, IInv', NEW p \in Session, CommitEnter(p)
  PROVE  Full'
  <1> DEFINE c == job[p].char
  <1>1. /\ p \in Proc /\ Working(p) /\ Subject(p) = p /\ Alone(p, AccountOf[p])
        /\ job[p].task = "enter" /\ c \in exists /\ EntersMidway(p, job[p])
    BY EnterStands DEF CommitEnter, Entering
  <1>2. registry[p].char = c /\ Live(p, c)
    BY <1>1 DEF EntersMidway, CommitEnter
  <1>3. /\ UNCHANGED <<registry, presence, simVars, exists>>
        /\ pending'[p] = None /\ \A s \in Session \ {p} : pending'[s] = pending[s]
    BY DEF CommitEnter, sessionVars, Full, IInv, DataOK
  <1>4. /\ ~Working(p)' /\ job'[p].task = "none" /\ job'[p].at # "move"
        /\ \A q \in Proc \ {p} : job'[q] = job[q]
    BY <1>1, Rests DEF Full, CommitEnter
  <1>5. In(p)'
    BY <1>1, <1>2, <1>3 DEF In, Live, Shown, simVars
  <1>6. OneSession(p, p) /\ Keeps(p) /\ Fades(p)
    BY <1>3, <1>4 DEF OneSession, Keeps, Fades
  <1> QED BY <1>1, <1>3, <1>4, <1>5, <1>6, SessionKeeps

LEMMA PrepareIsWhole ==
  ASSUME Full, IInv', NEW p \in Session, PrepareEnter(p)
  PROVE  Full'
  <1>1. PICK c \in Character :
            /\ c = job[p].char /\ p \in Proc /\ Working(p) /\ Subject(p) = p /\ Alone(p, AccountOf[p])
            /\ job[p].task = "enter" /\ c \in exists
            /\ OwnerOf[c] = AccountOf[p] /\ EntersMidway(p, job[p])
            /\ registry[p].char = c => byChar[c] = p
    BY EnterStands DEF PrepareEnter, Entering
  <1>2. registry[p] = [state |-> "CHARACTER_SELECTED", char |-> c] /\ presence[p] = None
    BY <1>1 DEF EntersMidway, PrepareEnter
  <1>3. c \notin unsaved
    BY <1>1, <1>2, NotShown
  <1>4. lastEntity \in Nat /\ lastEntity' = lastEntity + 1
    BY WorldConstants DEF PrepareEnter, Full, IInv, DataOK
  <1>5. /\ world' = [world EXCEPT ![c] = lastEntity']
        /\ pending' = [pending EXCEPT ![p] = [char |-> c, entity |-> lastEntity']]
        /\ UNCHANGED <<registry, presence, quiet, unsaved, exists>>
    BY <1>1 DEF PrepareEnter, sessionVars
  <1>6. /\ world'[c] = lastEntity' /\ \A d \in Character \ {c} : world'[d] = world[d]
        /\ pending'[p] = [char |-> c, entity |-> lastEntity']
        /\ \A s \in Session \ {p} : pending'[s] = pending[s]
    BY <1>5 DEF Full, IInv, DataOK
  <1>7. pending'[p] # None
    <2>1. lastEntity' \in 1 .. MaxEntities
      BY <1>4, WorldConstants DEF PrepareEnter
    <2>2. pending'[p] \in [char : Character, entity : 1 .. MaxEntities]
      BY <1>6, <2>1
    <2> QED BY <2>2, WorldConstants
  <1>8. /\ job'[p].at = "stream" /\ job'[p].task = "enter" /\ job'[p].char = c
        /\ \A q \in Proc \ {p} : job'[q] = job[q]
    BY <1>1, Goes DEF PrepareEnter, Full
  <1>9. /\ world'[c] # 0 /\ world'[c] > lastEntity /\ world'[c] <= lastEntity'
        /\ lastEntity' >= lastEntity /\ pending'[p].entity <= lastEntity' /\ pending'[p].char = c
    BY <1>4, <1>6
  <1>10. Staged(p, c)'
    BY <1>6, <1>7, <1>9 DEF Staged
  <1>11. Working(p)' /\ Subject(p)' = p /\ Midway(p)'
    BY <1>1, <1>2, <1>5, <1>8, <1>10 DEF Midway, ExitsMidway, EntersMidway,
       Working, Subject, Inside, Exiting, Kicking, Entering
  <1>12. \A s \in Session \ {p} : In(s) => registry[s].char # c
    BY <1>1, <1>2 DEF Full, IInv, RegistryOK, BindingsAgree
  <1> QED BY <1>1, <1>3, <1>5, <1>6, <1>8, <1>9, <1>11, <1>12, EntryKeeps

(* Everything of a staged enter that fails is taken back, except an entity   *)
(* that the mailbox would not remove.                                        *)
LEMMA RollbackIsWhole ==
  ASSUME Full, IInv', NEW p \in Session, job[p].at \in {"stream", "boot"},
         AbortEnter(p), Rest(p) \/ Fail(p), UNCHANGED exists,
         presence'[p] = None, \A s \in Session \ {p} : presence'[s] = presence[s],
         \/ job[p].at = "stream" /\ DropBinding(p, "CHARACTER_SELECTED")
         \/ job[p].at = "boot" /\ DropBinding(p, "IN_WORLD")
  PROVE  Full'
  <1> USE DEF Full
  <1>1. PICK c \in Character :
            /\ c = job[p].char /\ p \in Proc /\ Working(p) /\ Subject(p) = p /\ Alone(p, AccountOf[p])
            /\ OwnerOf[c] = AccountOf[p] /\ EntersMidway(p, job[p])
            /\ registry[p].char = c => byChar[c] = p
    BY EnterStands DEF Entering
  <1>2. /\ registry[p] = [state |-> IF job[p].at = "stream" THEN "CHARACTER_SELECTED" ELSE "IN_WORLD",
                          char |-> c]
        /\ Staged(p, c)
        /\ presence[p] = None \/ (Live(p, c) /\ c \notin unsaved)
    BY <1>1 DEF EntersMidway
  <1>3. /\ registry'[p] = [state |-> "AUTHENTICATED", char |-> None]
        /\ \A s \in Session \ {p} : registry'[s] = registry[s]
    BY <1>1, <1>2, DropIsOut DEF Entering
  <1>4. Out(p)'
    BY <1>3 DEF Out, WorldActive
  <1>5. /\ ~Working(p)' /\ job'[p].task = "none" /\ job'[p].at # "move"
        /\ \A q \in Proc \ {p} : job'[q] = job[q]
    BY <1>1, Rests
  <1>6. CASE UNCHANGED <<simVars, pending>>
    <2>1. OneSession(p, p) /\ Keeps(p) /\ Fades(p)
      BY <1>2, <1>3, <1>5, <1>6 DEF OneSession, Keeps, Fades, Live, Shown
    <2> QED BY <1>1, <1>4, <1>5, <1>6, <2>1, SessionKeeps
  <1>7. CASE /\ world' = [world EXCEPT ![pending[p].char] = 0]
             /\ unsaved' = unsaved \ {pending[p].char}
             /\ pending' = [pending EXCEPT ![p] = None]
             /\ UNCHANGED <<lastEntity, quiet>>
    <2>1. /\ world'[c] = 0 /\ \A d \in Character \ {c} : world'[d] = world[d]
          /\ unsaved' = unsaved \ {c} /\ unsaved \subseteq Character
          /\ pending'[p] = None /\ \A s \in Session \ {p} : pending'[s] = pending[s]
      BY <1>2, <1>7 DEF Staged, IInv, DataOK
    <2>2. OneEntry(p, c)
      BY <1>3, <1>7, <2>1 DEF OneEntry
    <2>3. \A s \in Session \ {p} : In(s) => registry[s].char # c
      BY <1>1, <1>2 DEF IInv, RegistryOK, BindingsAgree
    <2>4. Middle' /\ Whole'
      BY <1>1, <1>4, <1>5, <2>2, <2>3, EntryStep
    <2>5. \A s \in Session : job'[s].at = "move" => job'[s] = job[s]
      BY <1>5 DEF Proc
    <2>6. ASSUME NEW s \in Session, NEW d \in Character, NEW e \in 1 .. MaxEntities,
                 Shown(s, d, e), world[d] = e
          PROVE  ShownNext(s, d, e) \/ (d \notin unsaved' /\ job'[s].at # "move")
      <3>1. CASE s # p
        BY <1>3, <2>6, <3>1 DEF Shown, ShownNext
      <3>2. CASE s = p
        BY <1>2, <1>5, <2>1, <2>6, <3>2 DEF Live, Shown
      <3> QED BY <3>1, <3>2
    <2>7. Moves' /\ Progress'
      BY <2>1, <2>5, <2>6, SeenStep
    <2>8. lastEntity' \in 0 .. MaxEntities /\ lastEntity' >= lastEntity /\ 0 <= lastEntity'
      BY <1>7, WorldConstants DEF IInv, DataOK
    <2>9. \A d \in Character : world'[d] = world[d] \/ world'[d] <= lastEntity'
      BY <2>1, <2>8
    <2>10. \A q \in Proc : job'[q].task \in {"enter", "delete"} =>
              job[q].task \in {"enter", "delete"} /\ job'[q].char = job[q].char
      BY <1>5
    <2>11. \A s \in Session : registry'[s].char = None \/ registry'[s].char = registry[s].char
      BY <1>3
    <2>12. Owners'
      BY <2>1, <2>5, <2>8, <2>9, <2>10, <2>11, OwnersStep
    <2> QED BY <2>4, <2>7, <2>12
  <1> QED BY <1>6, <1>7 DEF AbortEnter

LEMMA EnterIsWhole ==
  ASSUME Full, IInv', NEW p \in Session, Enter(p)
  PROVE  Full'
  <1>1. CASE RollbackStagedEnter(p)
    <2>1. presence[p] = None
      BY <1>1, EnterStands DEF RollbackStagedEnter, Entering, EntersMidway
    <2> QED BY <1>1, <2>1, RollbackIsWhole DEF RollbackStagedEnter
  <1>2. CASE CommitFails(p)
    <2>1. presence'[p] = None /\ \A s \in Session \ {p} : presence'[s] = presence[s]
      BY <1>2 DEF CommitFails, Full, IInv, DataOK
    <2> QED BY <1>2, <2>1, RollbackIsWhole DEF CommitFails
  <1> QED BY <1>1, <1>2, BeginIsWhole, PrepareIsWhole, RetryIsWhole, StreamIsWhole, CompleteIsWhole,
             ActivateIsWhole, CommitIsWhole DEF Enter

-----------------------------------------------------------------------------
(* Intents and deletions *)

LEMMA SubmitIsWhole ==
  ASSUME Full, IInv', NEW s \in Session, SubmitMove(s)
  PROVE  Full'
  <1> USE DEF Full
  <1>1. s \in Proc /\ ~Working(s)
    BY NotInside DEF SubmitMove, Proc
  <1>2. Rest(s) \/ Fail(s)
    BY DEF SubmitMove
  <1>3. UNCHANGED <<registry, presence, pending, world, lastEntity, quiet, exists>>
    BY DEF SubmitMove, sessionVars, entryVars
  <1>4. CASE UNCHANGED unsaved
    <2>1. Calm(s)
      BY <1>1, <1>2, <1>3, <1>4, RestIsCalm DEF entryVars, simVars
    <2> QED BY <1>1, <2>1, CalmKeeps
  <1>5. CASE unsaved' # unsaved
    <2>1. PICK c \in Character : c = job[s].char
      BY <1>1 DEF SubmitMove, IInv, Jobs, Carries
    <2>2. unsaved' = unsaved \cup {c} /\ c \notin quiet /\ world[c] = job[s].entity
      BY <1>5, <2>1 DEF SubmitMove
    <2>3. Live(s, c) /\ OwnerOf[c] = AccountOf[s]
      <3>1. Shown(s, c, world[c])
        BY <2>1, <2>2 DEF Moves, SubmitMove
      <3>2. job[s].entity # 0
        BY WorldConstants DEF Owners, SubmitMove, IInv, DataOK
      <3> QED BY <2>2, <3>1, <3>2 DEF Live, Shown, Owners
    <2>4. /\ ~Working(s)' /\ job'[s].task = "none" /\ job'[s].at # "move"
          /\ \A q \in Proc \ {s} : job'[q] = job[q]
      BY <1>1, <1>2, Rests
    <2>5. Live(s, c)'
      BY <1>3, <2>3 DEF Live, Shown
    <2>6. ASSUME NEW q \in Proc, Working(q)' PROVE Midway(q)'
      <3>1. job'[q] = job[q] /\ Working(q) /\ Midway(q)
        BY <2>4, <2>6 DEF Working, Middle
      <3>2. job[q].at = "remove" => registry[job[q].sid].char # c
        BY <2>2, <3>1 DEF Midway, ExitsMidway
      <3>3. ASSUME job[q].task = "enter", job[q].at = "boot" PROVE job[q].char # c
        <4>1. /\ q \in Session /\ AccountOf[q] = OwnerOf[job[q].char]
              /\ registry[q].state = "IN_WORLD"
          BY <3>1, <3>3, SubjectOf DEF Owners, Midway, EntersMidway
        <4>2. job[q].char = c => q = s
          BY <2>3, <4>1 DEF Live, Shown, IInv, Order, Unique, WorldActive
        <4> QED BY <1>1, <3>1, <4>2
      <3>4. \A t \in Session : (In(t) => In(t)') /\ (Out(t) => Out(t)')
        BY <1>3 DEF In, Out, Live, Shown
      <3>5. job[q].at \in Exiting \cup Kicking => job[q].sid \in Session
        BY <3>1, SubjectOf
      <3>6. ExitsMidway(job[q])'
        BY <1>3, <2>2, <3>1, <3>2, <3>4, <3>5
           DEF Midway, ExitsMidway, Shown, Exiting, Kicking
      <3>7. job[q].task = "enter" => q \in Session
        BY <3>1, SubjectOf
      <3>8. job[q].task = "enter" => (job[q].char \in exists /\ EntersMidway(q, job[q]))'
        BY <1>3, <2>2, <3>1, <3>3, <3>4, <3>7 DEF Midway, EntersMidway, Staged, Live, Shown
      <3> QED BY <3>1, <3>6, <3>8 DEF Midway
    <2>7. ASSUME NEW t \in Session, \A q \in Proc : Working(q)' => Subject(q)' # t
          PROVE  In(t)' \/ Out(t)'
      <3>1. \A q \in Proc : Working(q) => Subject(q) # t
        BY <1>1, <2>4, <2>7 DEF Working, Subject
      <3> QED BY <1>3, <3>1 DEF Whole, In, Out, Live, Shown
    <2>8. Moves'
      <3>1. \A t \in Session : job'[t].at = "move" => job'[t] = job[t]
        BY <2>4 DEF Proc
      <3> QED BY <1>3, <3>1 DEF Moves, Shown
    <2>9. Progress'
      BY <1>3, <2>2, <2>5 DEF Progress, Live, Shown
    <2>10. Owners'
      <3>1. lastEntity' \in 0 .. MaxEntities /\ lastEntity' >= lastEntity
        BY <1>3, WorldConstants DEF IInv, DataOK
      <3>2. \A t \in Session : job'[t].at = "move" => job'[t] = job[t]
        BY <2>4 DEF Proc
      <3>3. \A q \in Proc : job'[q].task \in {"enter", "delete"} =>
                job[q].task \in {"enter", "delete"} /\ job'[q].char = job[q].char
        BY <2>4
      <3> QED BY <1>3, <3>1, <3>2, <3>3, OwnersStep
    <2> QED BY <2>6, <2>7, <2>8, <2>9, <2>10 DEF Middle, Whole
  <1> QED BY <1>4, <1>5

LEMMA DeleteIsWhole ==
  ASSUME Full, IInv', NEW p \in Session, Delete(p)
  PROVE  Full'
  <1> USE DEF Full
  <1>1. p \in Proc /\ ~Working(p) /\ Alone(p, AccountOf[p])
    BY NotInside, FreeIsAlone DEF Proc, Delete, Locks
  <1>2. UNCHANGED <<registry, presence, pending, simVars>>
    BY DEF Delete, sessionVars, entryVars
  <1>3. CASE UNCHANGED exists
    <2>1. Calm(p)
      BY <1>1, <1>2, <1>3, RestIsCalm DEF Delete, entryVars
    <2> QED BY <1>1, <2>1, CalmKeeps
  <1>4. CASE byChar[job[p].char] = None /\ exists' = exists \ {job[p].char}
    <2>1. PICK c \in Character : c = job[p].char /\ OwnerOf[c] = AccountOf[p]
      BY <1>1 DEF Delete, Locks, IInv, Jobs, Carries, Owners
    <2>2. /\ ~Working(p)' /\ job'[p].task = "none" /\ job'[p].at # "move"
          /\ \A q \in Proc \ {p} : job'[q] = job[q]
      BY <1>1, Rests DEF Delete
    <2>3. \A s \in Session : registry[s].char # c
      BY <1>4, <2>1, WorldConstants DEF IInv, RegistryOK, BindingsAgree
    <2>4. Elsewhere(AccountOf[p])
      BY <1>2, <1>4, <2>1 DEF Elsewhere, simVars
    <2>5. ASSUME NEW s \in Session, AccountOf[s] = AccountOf[p] PROVE In(s)' \/ Out(s)'
      <3>1. In(s) \/ Out(s)
        BY <1>1, <2>5, NotASubject
      <3> QED BY <1>2, <1>4, <2>1, <2>3, <3>1 DEF In, Out, Live, Shown, simVars
    <2>6. Middle' /\ Whole'
      BY <1>1, <2>2, <2>4, <2>5, AccountStep
    <2>7. \A s \in Session : job'[s].at = "move" => job'[s] = job[s]
      BY <2>2 DEF Proc
    <2>8. Moves' /\ Progress'
      BY <1>2, <2>7 DEF Moves, Progress, Live, Shown, simVars
    <2>9. Owners'
      <3>1. lastEntity' \in 0 .. MaxEntities /\ lastEntity' >= lastEntity /\ world' = world
        BY <1>2, WorldConstants DEF IInv, DataOK, simVars
      <3>2. \A q \in Proc : job'[q].task \in {"enter", "delete"} =>
                job[q].task \in {"enter", "delete"} /\ job'[q].char = job[q].char
        BY <2>2
      <3> QED BY <1>2, <2>7, <3>1, <3>2, OwnersStep
    <2> QED BY <2>6, <2>8, <2>9
  <1> QED BY <1>3, <1>4 DEF Delete

-----------------------------------------------------------------------------
(* The whole system *)

LEMMA StutterIsWhole ==
  ASSUME Full, IInv', UNCHANGED vars
  PROVE  Full'
  <1>1. Calm(Sweeper) /\ Sweeper \in Proc
    BY DEF Calm, vars, simVars, Proc
  <1> QED BY <1>1, CalmKeeps

-----------------------------------------------------------------------------
(* Theorems *)

LEMMA InitIInv == Init => IInv
  <1> SUFFICES ASSUME Init PROVE IInv
    OBVIOUS
  <1>1. RegistryOK /\ GuardOK
    BY WorldConstants DEF Init, RegistryOK, GuardOK, BindingsAgree, States, WorldActive
  <1>2. DataOK
    BY WorldConstants DEF Init, DataOK
  <1>3. ASSUME NEW p \in Proc
        PROVE  /\ job[p] \in Job /\ Carries(p, job[p])
               /\ job[p].at \notin Inside /\ job[p].task = "none"
    <2>1. job[p] = Idle \/ job[p] = [Idle EXCEPT !.at = "new"]
      BY DEF Init
    <2>2. job[p] \in Job
      BY <2>1, IdleType DEF Points
    <2>3. job[p].task = "none" /\ job[p].at \in {"idle", "new"}
      BY <2>1 DEF Idle
    <2> QED BY <2>2, <2>3 DEF Carries, Inside, Exiting, Kicking, Entering
  <1>4. Jobs
    BY <1>3 DEF Init, Jobs
  <1>5. Order
    BY <1>3 DEF Init, Order, NewIsOut, Holds, Arbitrated, Unique, WorldActive
  <1> QED BY <1>1, <1>2, <1>4, <1>5 DEF IInv

LEMMA StutterKeeps ==
  ASSUME IInv, UNCHANGED vars
  PROVE  IInv'
  <1>1. RegistryOK' /\ Shrinks
    BY SameRegistry DEF IInv, vars, sessionVars
  <1>2. DataOK'
    BY SameData DEF IInv, vars, entryVars, simVars
  <1> QED BY <1>1, <1>2, Still DEF vars

LEMMA NextKeeps == IInv /\ [Next]_vars => IInv'
  <1> SUFFICES ASSUME IInv, [Next]_vars PROVE IInv'
    OBVIOUS
  <1>1. ASSUME NEW s \in Session, Client(s) PROVE IInv'
    BY <1>1, ConnectKeeps, HelloKeeps, RequestLeaveKeeps, DisconnectKeeps, ReadMoveKeeps,
       RequestEnterKeeps, RequestDeleteKeeps DEF Client
  <1>2. ASSUME NEW s \in Session, Serve(s) PROVE IInv'
    BY <1>2, SubmitMoveKeeps, VanishedKeeps, TeardownKeeps DEF Serve
  <1>3. ASSUME NEW p \in Proc, Reap(p) PROVE IInv'
    BY <1>3, ReapLocksKeeps, ReapRemovesKeeps DEF Reap
  <1>4. CASE SweepStarts
    <2>1. PICK s \in Session : TRUE
      BY <1>4 DEF SweepStarts
    <2> QED BY <1>4, HeartbeatKeeps
  <1> QED BY <1>1, <1>2, <1>3, <1>4, RequestKeeps, EnterKeeps, ExitKeeps, HeartbeatKeeps,
             SweepKeeps, StutterKeeps DEF Next

LEMMA Inductive == Spec => []IInv
  BY InitIInv, NextKeeps, PTL DEF Spec

LEMMA InitFull == Init => Full
  <1> SUFFICES ASSUME Init PROVE Full
    OBVIOUS
  <1>1. IInv
    BY InitIInv
  <1>2. \A p \in Proc : job[p].at \in {"new", "idle"} /\ job[p].task = "none"
    BY DEF Init, Idle
  <1>3. Owners
    <2>1. \A s \in Session : job[s].at # "move"
      BY <1>2 DEF Proc
    <2>2. \A c \in Character : world[c] <= lastEntity
      BY DEF Init
    <2> QED BY <1>2, <2>1, <2>2 DEF Init, Owners
  <1>4. Middle /\ Whole
    BY <1>2, NotInside DEF Init, Middle, Whole, Out, WorldActive
  <1>5. Moves /\ Progress
    BY <1>2 DEF Init, Moves, Progress, Proc
  <1> QED BY <1>1, <1>3, <1>4, <1>5 DEF Full

LEMMA NextFull == Full /\ [Next]_vars => Full'
  <1> SUFFICES ASSUME Full, [Next]_vars PROVE Full'
    OBVIOUS
  <1>0. IInv' /\ \A s \in Session : s \in Proc
    BY NextKeeps DEF Full, Proc
  <1>1. ASSUME NEW s \in Session, Client(s) PROVE Full'
    BY <1>0, <1>1, ClientIsCalm, CalmKeeps
  <1>2. ASSUME NEW s \in Session, Request(s) PROVE Full'
    BY <1>0, <1>2, RequestsLockWhole, RefusalIsCalm, DeleteIsWhole, CalmKeeps DEF Request
  <1>3. ASSUME NEW s \in Session, Serve(s) PROVE Full'
    BY <1>0, <1>3, SubmitIsWhole, TeardownIsCalm, CalmKeeps DEF Serve
  <1>4. ASSUME NEW s \in Session, Age(s) \/ Pong(s) \/ Sweep(s) PROVE Full'
    BY <1>0, <1>4, SweepIsCalm, CalmKeeps DEF Proc
  <1>5. CASE SweepStarts
    <2>1. PICK s \in Session : TRUE
      BY <1>5 DEF SweepStarts
    <2> QED BY <1>0, <1>5, <2>1, SweepIsCalm, CalmKeeps DEF Proc
  <1> QED BY <1>0, <1>1, <1>2, <1>3, <1>4, <1>5, EnterIsWhole, ReapIsWhole, ExitIsWhole, StutterIsWhole
          DEF Next

LEMMA FullInductive == Spec => []Full
  BY InitFull, NextFull, PTL DEF Spec

(* Every variable keeps its shape, whatever the sessions and characters.     *)
THEOREM TypeCorrect == Spec => []TypeOK
  <1>1. IInv => TypeOK
    BY DEF IInv, RegistryOK, GuardOK, DataOK, Jobs, Job, TypeOK
  <1> QED BY <1>1, Inductive, PTL

(* A session is bound exactly while it is selected or in the world, and the  *)
(* character index names the session: BeginEnterWorld, CompleteLeaveWorld,   *)
(* AbortEnterWorld and Remove never leave one half behind, in any order.     *)
THEOREM BindingsStayAgreed == Spec => []BindingsAgree
  <1>1. IInv => BindingsAgree
    BY DEF IInv, RegistryOK
  <1> QED BY <1>1, Inductive, PTL

(* However many devices enter, take over, leave and are reaped at once, an   *)
(* account has at most one session in the world.                             *)
THEOREM OneSessionPerAccount == Spec => []OnePerAccount
  <1>1. IInv => OnePerAccount
    <2> SUFFICES ASSUME IInv, NEW a \in Account
                 PROVE  Cardinality(WorldSessions(a, None)) <= 1
      BY DEF OnePerAccount
    <2> DEFINE W == WorldSessions(a, None)
    <2>1. \A s, t \in W : s = t
      BY DEF IInv, Order, Unique, WorldSessions
    <2>2. CASE W = {}
      BY <2>2, FS_EmptySet
    <2>3. CASE W # {}
      <3>1. PICK s \in W : TRUE
        BY <2>3
      <3>2. W = {s}
        BY <2>1, <3>1
      <3> QED BY <3>2, FS_Singleton
    <2> QED BY <2>2, <2>3
  <1> QED BY <1>1, Inductive, PTL

(* Between two holds of an account's guard its sessions are wholly in the    *)
(* world or wholly out of it: whatever enters, takeovers, leaves, reaps,     *)
(* deletions and their failures came before, the registry, the presence, the *)
(* simulation's entity and the character row say the same of each of them.   *)
THEOREM HoldsLeaveSessionsWhole == Spec => []WholeBetweenHolds
  <1>1. Full => WholeBetweenHolds
    <2> SUFFICES ASSUME Full, NEW s \in Session, guard[AccountOf[s]] = None
                 PROVE  In(s) \/ Out(s)
      BY DEF WholeBetweenHolds, In, Out, Live, Shown, WorldActive
    <2>1. ASSUME NEW p \in Proc, Working(p) PROVE Subject(p) # s
      BY <2>1, SubjectOf, WorldConstants DEF Full, Proc
    <2> QED BY <2>1 DEF Full, Whole
  <1> QED BY <1>1, FullInductive, PTL

(* The stale-PostgreSQL barrier holds for any number of devices: when an     *)
(* enter loads its baseline, every character of the account has been flushed *)
(* or has left the world, also when intents raced the takeover.              *)
THEOREM BaselinesAreFresh == Spec => []BaselineIsFresh
  <1>1. Full => BaselineIsFresh
    <2> SUFFICES ASSUME Full, NEW p \in Session, job[p].at \in {"begin", "stage", "stream"},
                        NEW c \in unsaved, OwnerOf[c] = AccountOf[p]
                 PROVE  FALSE
      BY DEF BaselineIsFresh
    <2>1. job[p].task = "enter" /\ EntersMidway(p, job[p]) /\ p \in Proc /\ c \in Character
      BY EnterStands DEF Entering, Full, IInv, DataOK
    <2>2. CASE job[p].at = "begin"
      <3>1. PICK s \in Session : Live(s, c)
        BY DEF Full, Progress
      <3>2. AccountOf[s] = AccountOf[p] /\ registry[s].state = "IN_WORLD"
        BY <3>1 DEF Full, Owners, Live, Shown
      <3>3. s # p /\ WorldSessions(AccountOf[p], p) = {}
        BY <2>1, <2>2, <3>2 DEF EntersMidway, Out, WorldActive, Full, IInv, Order, Arbitrated
      <3> QED BY <3>2, <3>3 DEF WorldSessions, WorldActive
    <2>3. CASE job[p].at \in {"stage", "stream"}
      BY <2>1, <2>3, NotShown DEF EntersMidway
    <2> QED BY <2>2, <2>3
  <1> QED BY <1>1, FullInductive, PTL
=============================================================================
