------------------------------ MODULE Outbound ------------------------------
(***************************************************************************)
(* What one session is sent (gateway/outbound.go, session/session.go): a    *)
(* queue with a critical and a state lane under one budget, goroutines that *)
(* wait for room and for their frame to be written, a pump that writes one  *)
(* frame at a time, terminal messages that share only the writer gate with  *)
(* it, and the client's acknowledgements.  The queue is closed at any time, *)
(* by the pump that fails, by whom it is too slow for, or from outside.     *)
(*                                                                         *)
(* An item is its number in the order of admission, its lane, which is its  *)
(* key for a state, and its size; a frame also has the number it was sent   *)
(* with, before it wraps.                                                   *)
(***************************************************************************)
EXTENDS AckWindow, FiniteSets, SequencesExt, FiniteSetsExt

CONSTANTS
  Senders,      \* goroutines that send synchronously
  Keys,         \* state keys
  Sizes,        \* bytes of an item
  MaxMessages, MaxBytes,
  FirstSeq,     \* frames sent before
  MaxItems,     \* bound: items made
  MaxVisits     \* bound: times the session enters the world

Critical == "critical"

ASSUME OutboundConstants ==
  /\ Critical \notin Keys
  /\ Sizes \subseteq Nat \ {0} /\ \A z \in Sizes : z =< MaxBytes
  /\ {MaxMessages, MaxBytes, FirstSeq, MaxItems, MaxVisits} \subseteq Nat /\ MaxMessages > 0

NoItem == [id |-> 0, key |-> Critical, size |-> 0]

VARIABLES
  queue,    \* crit, order, the item being written, the messages and bytes
            \* that are resident, and whether it is closed
  made,     \* items made
  sender,   \* of each sender: where its call is, with what
  pump,     \* where the pump is, and the item it took
  wake,
  gate,     \* who writes: "free", "pump" or "direct"
  direct,   \* a terminal message: "idle", "writing" or "ended"
  open,     \* the connection
  flow, visits,
  wire,     \* history: the last number written, and the items
  sent,     \* history: numbers taken, and of those the last that counts in
  counted,  \* the window, and the last of them the client acknowledged
  acked,
  dropped   \* history: items that were cancelled

vars == <<queue, made, sender, pump, wake, gate, direct, open, flow, visits, wire, sent, counted, acked, dropped>>
history == <<sent, counted, acked, wire>>

-----------------------------------------------------------------------------
(* The queue, under its lock.                                               *)

SizeOf(items) ==
  LET total[n \in 0..Len(items)] == IF n = 0 THEN 0 ELSE total[n - 1] + items[n].size
  IN total[Len(items)]

wouldOverflow(q, size) == q.messages + 1 > MaxMessages \/ q.bytes + size > MaxBytes

Place(q, item) == [q EXCEPT !.messages = @ + 1, !.bytes = @ + item.size]
Release(q, item) == [q EXCEPT !.messages = @ - 1, !.bytes = @ - item.size]

removeStateElemLocked(q, i) == Release([q EXCEPT !.order = RemoveAt(@, i)], q.order[i])

(* The oldest states make room for a critical item, as many as it takes.    *)
Evicted(q, size) ==
  LET without[n \in 0..Len(q.order)] == IF n = 0 THEN q ELSE removeStateElemLocked(without[n - 1], 1)
      enough == {n \in 0..Len(q.order) : ~wouldOverflow(without[n], size)}
  IN without[IF enough = {} THEN Len(q.order) ELSE Min(enough)]

admitCritical(q, item) == Place([q EXCEPT !.crit = Append(@, item)], item)

admitState(q, item) ==
  IF wouldOverflow(q, item.size) THEN q ELSE Place([q EXCEPT !.order = Append(@, item)], item)

QueuedState(q, key) == {i \in 1..Len(q.order) : q.order[i].key = key}

WithoutState(q, key) ==
  IF QueuedState(q, key) = {} THEN q ELSE removeStateElemLocked(q, CHOOSE i \in QueuedState(q, key) : TRUE)

(* Mutant: a frame that is being written has left the budget.               *)
dequeueReleased(q) ==
  IF q.crit # <<>> THEN Release([q EXCEPT !.crit = Tail(@), !.writing = Head(q.crit)], Head(q.crit))
  ELSE Release([q EXCEPT !.order = Tail(@), !.writing = Head(q.order)], Head(q.order))

dequeueLocked(q) ==
  IF q.crit # <<>> THEN [q EXCEPT !.crit = Tail(@), !.writing = Head(q.crit)]
  ELSE [q EXCEPT !.order = Tail(@), !.writing = Head(q.order)]

Closed == [crit |-> <<>>, order |-> <<>>, writing |-> NoItem, messages |-> 0, bytes |-> 0, closed |-> TRUE]

(* Everyone who waits for room looks again.                                 *)
broadcastCapacityLocked(s) == [p \in Senders |-> IF s[p].at = "waiting" THEN [s[p] EXCEPT !.at = "awake"] ELSE s[p]]

(* The sender of an item that is written, or that will not be, goes on.     *)
resolveLocked(s, items, result) ==
  [p \in Senders |-> IF s[p].at = "admitted" /\ s[p].item \in items THEN [s[p] EXCEPT !.at = result] ELSE s[p]]

(* Mutant: who waits for the frame that is being written waits on.          *)
closeButWriting ==
  /\ queue' = Closed
  /\ sender' = broadcastCapacityLocked(resolveLocked(sender, {i.id : i \in ToSet(queue.crit)}, "failed"))

closeLocked ==
  /\ queue' = Closed
  /\ sender' = broadcastCapacityLocked(
                 resolveLocked(sender, {i.id : i \in ToSet(queue.crit) \cup {queue.writing}}, "failed"))

-----------------------------------------------------------------------------
(* Producers.                                                               *)

(* Bound: who waits for room has an item to come.                           *)
MayMake == made + Cardinality({s \in Senders : sender[s].at \in {"waiting", "awake"}}) < MaxItems

Unadmitted(s, at) == sender' = [sender EXCEPT ![s].at = at]

(* One attempt at admission: the call goes on, waits, or is given up.       *)
Attempt(s, size, otherwise) ==
  LET e == Evicted(queue, size)
      told == IF e = queue THEN sender ELSE broadcastCapacityLocked(sender)
  IN IF ~wouldOverflow(e, size)
     THEN /\ made' = made + 1
          /\ queue' = admitCritical(e, [id |-> made + 1, key |-> Critical, size |-> size])
          /\ sender' = [told EXCEPT ![s] = [at |-> "admitted", item |-> made + 1, size |-> size]]
          /\ wake' = TRUE
          /\ UNCHANGED open
     ELSE IF otherwise = "wait"
     THEN /\ queue' = e
          /\ sender' = [told EXCEPT ![s] = [at |-> "waiting", item |-> 0, size |-> size]]
          /\ UNCHANGED <<made, wake, open>>
     ELSE /\ queue' = Closed
          /\ open' = FALSE
          /\ sender' = [broadcastCapacityLocked(resolveLocked(sender,
                          {i.id : i \in ToSet(queue.crit) \cup {queue.writing}}, "failed"))
                        EXCEPT ![s].at = "failed"]
          /\ UNCHANGED <<made, wake>>

SendCritical(s) ==
  /\ sender[s].at = "idle"
  /\ MayMake
  /\ IF queue.closed THEN Unadmitted(s, "failed") /\ UNCHANGED <<queue, made, wake, open>>
     ELSE \E size \in Sizes : Attempt(s, size, "wait")
  /\ UNCHANGED <<pump, gate, direct, flow, visits, history, dropped>>

Look(s) ==
  /\ sender[s].at = "awake"
  /\ IF queue.closed THEN Unadmitted(s, "failed") /\ UNCHANGED <<queue, made, wake, open>>
     ELSE Attempt(s, sender[s].size, "wait")
  /\ UNCHANGED <<pump, gate, direct, flow, visits, history, dropped>>

EnqueueTimeout(s) ==
  /\ sender[s].at \in {"waiting", "awake"}
  /\ IF queue.closed THEN Unadmitted(s, "failed") /\ UNCHANGED <<queue, made, wake, open>>
     ELSE Attempt(s, sender[s].size, "close")
  /\ UNCHANGED <<pump, gate, direct, flow, visits, history, dropped>>

CancelSend(s) ==
  /\ sender[s].at \in {"waiting", "awake"}
  /\ Unadmitted(s, "cancelled")
  /\ UNCHANGED <<queue, made, pump, wake, gate, direct, open, flow, visits, history, dropped>>

TryCritical(size) ==
  LET e == Evicted(queue, size)
  IN /\ ~queue.closed
     /\ MayMake
     /\ IF ~wouldOverflow(e, size)
        THEN /\ made' = made + 1
             /\ queue' = admitCritical(e, [id |-> made + 1, key |-> Critical, size |-> size])
             /\ sender' = IF e = queue THEN sender ELSE broadcastCapacityLocked(sender)
             /\ wake' = TRUE
             /\ UNCHANGED open
        ELSE closeLocked /\ open' = FALSE /\ UNCHANGED <<made, wake>>
     /\ UNCHANGED <<pump, gate, direct, flow, visits, history, dropped>>

(* The newest state replaces the one of its key, at the end of the lane, or *)
(* both are lost.                                                           *)
TryState(key, size) ==
  /\ ~queue.closed
  /\ MayMake
  /\ made' = made + 1
  /\ queue' = admitState(WithoutState(queue, key), [id |-> made + 1, key |-> key, size |-> size])
  /\ sender' = broadcastCapacityLocked(sender)
  /\ wake' = TRUE
  /\ UNCHANGED <<pump, gate, direct, open, flow, visits, history, dropped>>

Pending(key) == {i.id : i \in {j \in ToSet(queue.order) \cup {queue.writing} : j.key = key}}

(* Mutant: what is being written is not looked at.                          *)
CancelQueued(key) ==
  /\ ~queue.closed
  /\ queue' = WithoutState(queue, key)
  /\ sender' = broadcastCapacityLocked(sender)
  /\ dropped' = dropped \cup Pending(key)
  /\ UNCHANGED <<made, pump, wake, gate, direct, open, flow, visits, history>>

CancelState(key) ==
  /\ ~queue.closed
  /\ IF queue.writing.key = key THEN UNCHANGED <<queue, sender, dropped>>
     ELSE /\ queue' = WithoutState(queue, key)
          /\ sender' = IF queue' = queue THEN sender ELSE broadcastCapacityLocked(sender)
          /\ dropped' = dropped \cup Pending(key)
  /\ UNCHANGED <<made, pump, wake, gate, direct, open, flow, visits, history>>

Stop ==
  /\ ~queue.closed
  /\ closeLocked
  /\ UNCHANGED <<made, pump, wake, gate, direct, open, flow, visits, history, dropped>>

CloseNow ==
  /\ open
  /\ open' = FALSE
  /\ IF queue.closed THEN UNCHANGED <<queue, sender>> ELSE closeLocked
  /\ UNCHANGED <<made, pump, wake, gate, direct, flow, visits, history, dropped>>

-----------------------------------------------------------------------------
(* The pump.                                                                *)

At(place) == [at |-> place, item |-> NoItem]

Loop ==
  /\ pump.at = "loop"
  /\ IF queue.closed THEN pump' = At("ended") /\ UNCHANGED queue
     ELSE IF queue.crit = <<>> /\ queue.order = <<>> THEN pump' = At("asleep") /\ UNCHANGED queue
     ELSE queue' = dequeueLocked(queue) /\ pump' = [at |-> "gate", item |-> queue'.writing]
  /\ UNCHANGED <<made, sender, wake, gate, direct, open, flow, visits, history, dropped>>

Wake ==
  /\ pump.at = "asleep"
  /\ wake \/ queue.closed
  /\ wake' = (wake /\ queue.closed)
  /\ pump' = At("loop")
  /\ UNCHANGED <<queue, made, sender, gate, direct, open, flow, visits, history, dropped>>

(* A frame is built inside the gate, so that its number is its place.       *)
BuildFrame(next) ==
  /\ flow' = next
  /\ sent' = sent + 1
  /\ counted' = IF flow.inWorld THEN sent + 1 ELSE counted

EnterGate ==
  /\ pump.at = "gate"
  /\ gate = "free"
  /\ \/ /\ \E next \in NextFlowControlledServerSeq(flow) : BuildFrame(next)
        /\ gate' = "pump"
        /\ pump' = [pump EXCEPT !.at = "writing"]
     \/ /\ NextFlowControlledServerSeq(flow) = {}
        /\ pump' = At("failed")
        /\ UNCHANGED <<flow, sent, counted, gate>>
  /\ UNCHANGED <<queue, made, sender, wake, direct, open, visits, wire, acked, dropped>>

GateTimeout ==
  /\ pump.at = "gate"
  /\ gate # "free"
  /\ pump' = At("failed")
  /\ UNCHANGED <<queue, made, sender, wake, gate, direct, open, flow, visits, history, dropped>>

(* The queue may have been closed meanwhile, and the write may fail at any  *)
(* time.                                                                    *)
EndWrite ==
  /\ pump.at = "writing"
  /\ gate' = "free"
  /\ \/ /\ open
        /\ wire' = [n |-> sent, items |-> wire.items \cup {pump.item}]
        /\ pump' = [pump EXCEPT !.at = "written"]
     \/ pump' = At("failed") /\ UNCHANGED wire
  /\ UNCHANGED <<queue, made, sender, wake, direct, open, flow, visits, sent, counted, acked, dropped>>

completeLocked ==
  /\ queue' = Release([queue EXCEPT !.writing = NoItem], pump.item)
  /\ sender' = broadcastCapacityLocked(resolveLocked(sender, {pump.item.id}, "sent"))

Complete ==
  /\ pump.at = "written"
  /\ IF queue.closed THEN pump' = At("ended") /\ UNCHANGED <<queue, sender>>
     ELSE completeLocked /\ pump' = At("loop")
  /\ UNCHANGED <<made, wake, gate, direct, open, flow, visits, history, dropped>>

(* Mutant: the pump gives up and leaves the queue to others.                *)
FailQuietly ==
  /\ pump.at = "failed"
  /\ pump' = At("ended")
  /\ open' = FALSE
  /\ UNCHANGED <<queue, sender, made, wake, gate, direct, flow, visits, history, dropped>>

(* failSlow and closeWriteError.                                            *)
Fail ==
  /\ pump.at = "failed"
  /\ pump' = At("ended")
  /\ IF queue.closed THEN UNCHANGED <<queue, sender, open>> ELSE closeLocked /\ open' = FALSE
  /\ UNCHANGED <<made, wake, gate, direct, flow, visits, history, dropped>>

-----------------------------------------------------------------------------
(* Terminal messages: kicked, and the end of the authorization.             *)

WriteDirect ==
  /\ direct = "idle"
  /\ gate = "free"
  /\ gate' = "direct"
  /\ direct' = "writing"
  /\ flow' = NextServerSeq(flow)
  /\ sent' = sent + 1
  /\ UNCHANGED <<queue, made, sender, pump, wake, open, visits, wire, counted, acked, dropped>>

EndDirect ==
  /\ direct = "writing"
  /\ direct' = "ended"
  /\ gate' = "free"
  /\ \/ open /\ wire' = [wire EXCEPT !.n = sent]
     \/ UNCHANGED wire
  /\ UNCHANGED <<queue, made, sender, pump, wake, open, flow, visits, sent, counted, acked, dropped>>

-----------------------------------------------------------------------------
(* The session enters and leaves the world, and the client acknowledges     *)
(* frames it was sent: in any order, again, or none, but none from half the *)
(* modulus ago.                                                             *)

EnterWorld ==
  /\ ~flow.inWorld
  /\ visits < MaxVisits
  /\ visits' = visits + 1
  /\ flow' = CompleteEnterWorld(flow)
  /\ counted' = sent
  /\ acked' = sent
  /\ UNCHANGED <<queue, made, sender, pump, wake, gate, direct, open, wire, sent, dropped>>

LeaveWorld ==
  /\ flow.inWorld
  /\ flow' = CompleteLeaveWorld(flow)
  /\ UNCHANGED <<queue, made, sender, pump, wake, gate, direct, open, visits, history, dropped>>

handleAck(n) ==
  /\ flow.inWorld
  /\ acked - n < Modulus \div 2
  /\ flow' = ApplyAck(flow, n % Modulus)
  /\ acked' = IF n \in acked..counted THEN n ELSE acked
  /\ UNCHANGED <<queue, made, sender, pump, wake, gate, direct, open, visits, wire, sent, counted, dropped>>

-----------------------------------------------------------------------------
Init ==
  /\ queue = [Closed EXCEPT !.closed = FALSE]
  /\ made = 0
  /\ sender = [s \in Senders |-> [at |-> "idle", item |-> 0, size |-> 0]]
  /\ pump = At("loop") /\ wake = FALSE
  /\ gate = "free" /\ direct = "idle" /\ open = TRUE
  /\ flow = [inWorld |-> FALSE, serverSeq |-> FirstSeq % Modulus, lastAck |-> 0, lastFlowSent |-> 0]
  /\ visits = 0
  /\ wire = [n |-> FirstSeq, items |-> {}] /\ sent = FirstSeq /\ counted = FirstSeq /\ acked = FirstSeq
  /\ dropped = {}

run == Loop \/ Wake \/ EnterGate \/ GateTimeout \/ EndWrite \/ Complete \/ Fail

Producer ==
  \/ \E s \in Senders : SendCritical(s) \/ Look(s) \/ EnqueueTimeout(s) \/ CancelSend(s)
  \/ \E size \in Sizes : TryCritical(size) \/ \E key \in Keys : TryState(key, size)
  \/ \E key \in Keys : CancelState(key)

Client == EnterWorld \/ LeaveWorld \/ \E n \in FirstSeq..wire.n : handleAck(n)

(* Who still reads from the client closes no queue; and nobody is told      *)
(* anything on a connection that is closed.                                 *)
Next ==
  \/ Producer \/ run \/ Stop \/ CloseNow
  \/ ~queue.closed /\ Client
  \/ open /\ WriteDirect
  \/ EndDirect

(* The pump runs, writes end within their budget, and timers fire.          *)
Progress == run \/ EndDirect \/ \E s \in Senders : Look(s) \/ EnqueueTimeout(s)

Spec == Init /\ [][Next]_vars /\ WF_vars(Progress)

-----------------------------------------------------------------------------
(* Properties.                                                              *)

(* Whatever is evicted, replaced, cancelled, written or thrown away, the    *)
(* budget is what is in the queue and in the writer's hand, never more than *)
(* allowed, and nothing once the queue is closed.                           *)
BudgetKept ==
  LET resident == queue.crit \o queue.order \o (IF queue.writing = NoItem THEN <<>> ELSE <<queue.writing>>)
  IN /\ queue.messages = Len(resident) /\ queue.messages =< MaxMessages
     /\ queue.bytes = SizeOf(resident) /\ queue.bytes =< MaxBytes

(* The numbers of frames are their order on the wire, also of terminal      *)
(* ones; only critical items overtake, and only states; and no state that   *)
(* was cancelled, and not reported as in flight, is sent after all.         *)
FramesInOrder ==
  [][/\ wire'.n > wire.n
     /\ \A item \in wire'.items \ wire.items, earlier \in wire.items :
          earlier.id > item.id => earlier.key = Critical /\ item.key # Critical
     /\ \A item \in wire'.items \ wire.items : item.id \notin dropped]_wire

(* A synchronous send that succeeds was written, and a critical item that   *)
(* was admitted is never dropped while the queue is open.                   *)
NoSilentLoss ==
  LET written == {i.id : i \in wire.items}
      held == {i.id : i \in ToSet(queue.crit) \cup {queue.writing}}
  IN \A s \in Senders :
       /\ sender[s].at = "sent" => sender[s].item \in written
       /\ sender[s].at = "admitted" => sender[s].item \in held /\ ~queue.closed

(* In the world the window is exactly what was sent and not acknowledged,   *)
(* whatever wrapped, came twice, came late or belonged to an earlier visit, *)
(* and holds no more than it may, terminal frames aside.                    *)
LagIsTrue ==
  flow.inWorld => /\ Lag(flow) = counted - acked
                  /\ Lag(flow) =< MaxUnacked + (IF direct = "idle" THEN 0 ELSE 1)

(* Every synchronous send returns, and the pump of a closed queue ends.     *)
SendersReturn ==
  LET Sending == \E s \in Senders : sender[s].at \in {"waiting", "awake", "admitted"}
  IN (Sending ~> ~Sending) /\ (queue.closed ~> pump.at = "ended")

=============================================================================
