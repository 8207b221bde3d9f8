--------------------------- MODULE OutboundProofs ---------------------------
(***************************************************************************)
(* Theorems of Outbound.tla for every modulus, window, queue, number of     *)
(* senders and bound.                                                       *)
(***************************************************************************)
EXTENDS Outbound, SequenceTheorems, WellFoundedInduction, TLAPS

-----------------------------------------------------------------------------
(* Induction over the naturals *)

LEMMA LeastElement ==
  ASSUME NEW T \in SUBSET Nat, T # {}
  PROVE  \E x \in T : \A y \in T : x <= y
<1>1. PICK x \in T : \A y \in T : ~(<<y, x>> \in OpToRel(<, Nat))
  BY WFMin, NatLessThanWellFounded
<1>2. ASSUME NEW y \in T PROVE x <= y
  <2>1. x \in Nat /\ y \in Nat
    OBVIOUS
  <2>2. ~(y < x)
    BY <1>1, <2>1 DEF OpToRel
  <2> QED
    BY <2>1, <2>2
<1> QED
  BY <1>2

(* Induction: the property is given as the set of the numbers that have it.  *)
LEMMA SetInduction ==
  ASSUME NEW T, 0 \in T, \A n \in Nat : n \in T => n + 1 \in T
  PROVE  Nat \subseteq T
<1> SUFFICES ASSUME Nat \ T # {} PROVE FALSE
  OBVIOUS
<1>1. PICK x \in Nat \ T : \A y \in Nat \ T : x <= y
  BY LeastElement, Zenon
<1>2. x # 0 /\ x - 1 \in Nat /\ x - 1 \notin Nat \ T
  BY <1>1
<1> QED
  BY <1>1, <1>2

-----------------------------------------------------------------------------
(* Remainders *)

LEMMA DivMod ==
  ASSUME NEW a \in Int, NEW d \in Nat \ {0}
  PROVE  /\ a \div d \in Int
         /\ a % d \in 0..(d - 1)
         /\ a % d = a - d * (a \div d)
<1>1. a % d = a - d * (a \div d)
  BY SMTT(20)
<1>2. a \div d \in Int /\ a % d \in 0..(d - 1)
  OBVIOUS
<1> QED
  BY <1>1, <1>2

LEMMA ModIs ==
  ASSUME NEW d \in Nat \ {0}, NEW q \in Int, NEW r \in 0..(d - 1)
  PROVE  (d * q + r) % d = r
BY SMTT(20)

LEMMA ModSmall ==
  ASSUME NEW d \in Nat \ {0}, NEW a \in 0..(d - 1)
  PROVE  a % d = a
OBVIOUS

(* Remainders of two numbers differ as the numbers do.                      *)
LEMMA ModDiff ==
  ASSUME NEW d \in Nat \ {0}, NEW a \in Int, NEW b \in Int
  PROVE  ((a % d) - (b % d)) % d = (a - b) % d
<1> DEFINE qa == a \div d
           ra == a % d
           qb == b \div d
           rb == b % d
           q == (ra - rb) \div d
           r == (ra - rb) % d
<1>1. qa \in Int /\ ra \in Int /\ ra = a - d * qa
  BY DivMod
<1>2. qb \in Int /\ rb \in Int /\ rb = b - d * qb
  BY DivMod
<1>3. q \in Int /\ r \in 0..(d - 1) /\ r = (ra - rb) - d * q
  <2> DEFINE diff == ra - rb
  <2>1. diff \in Int
    <3> HIDE DEF ra, rb
    <3> QED
      BY <1>1, <1>2
  <2> HIDE DEF diff
  <2>2. diff \div d \in Int /\ diff % d \in 0..(d - 1) /\ diff % d = diff - d * (diff \div d)
    BY <2>1, DivMod
  <2> QED
    BY <2>2, Zenon DEF diff
<1>4. ((a % d) - (b % d)) % d = r
  OBVIOUS
<1> HIDE DEF qa, ra, qb, rb, q, r
<1>5. a - b = d * (qa - qb + q) + r
  <2>1. d * (qa - qb + q) = d * qa - d * qb + d * q
    BY <1>1, <1>2, <1>3
  <2> QED
    BY <1>1, <1>2, <1>3, <2>1
<1>6. (d * (qa - qb + q) + r) % d = r
  <2> DEFINE p == qa - qb + q
  <2>1. p \in Int
    BY <1>1, <1>2, <1>3
  <2> HIDE DEF p
  <2>2. (d * p + r) % d = r
    BY <1>3, <2>1, ModIs
  <2> QED
    BY <2>2 DEF p
<1> QED
  BY <1>4, <1>5, <1>6

(* The successor of a remainder.                                            *)
LEMMA ModNext ==
  ASSUME NEW d \in Nat \ {0}, NEW a \in Int
  PROVE  ((a % d) + 1) % d = (a + 1) % d
<1> DEFINE q == a \div d
           r == a % d
           p == (r + 1) \div d
           s == (r + 1) % d
<1>1. q \in Int /\ r \in Int /\ r = a - d * q
  BY DivMod
<1>2. p \in Int /\ s \in 0..(d - 1) /\ s = (r + 1) - d * p
  <2> HIDE DEF r
  <2> QED
    BY <1>1, DivMod
<1>3. ((a % d) + 1) % d = s
  OBVIOUS
<1> HIDE DEF q, r, p, s
<1>4. a + 1 = d * (q + p) + s
  <2>1. d * (q + p) = d * q + d * p
    BY <1>1, <1>2
  <2> QED
    BY <1>1, <1>2, <2>1
<1>5. (d * (q + p) + s) % d = s
  <2> DEFINE t == q + p
  <2>1. t \in Int
    BY <1>1, <1>2
  <2> HIDE DEF t
  <2>2. (d * t + s) % d = s
    BY <1>2, <2>1, ModIs
  <2> QED
    BY <2>2 DEF t
<1> QED
  BY <1>3, <1>4, <1>5

-----------------------------------------------------------------------------
(* Serial numbers *)

LEMMA Constants ==
  /\ Modulus \in Nat \ {0}
  /\ Modulus \div 2 \in Nat /\ 2 * (Modulus \div 2) = Modulus
  /\ MaxUnacked \in Nat /\ MaxUnacked >= 1 /\ MaxUnacked + 2 =< Modulus \div 2
  /\ FirstSeq \in Nat
BY WindowConstants, OutboundConstants

(* Numbers less than half the modulus apart compare as they do unwrapped.   *)
LEMMA AfterIsGreater ==
  ASSUME NEW x \in Int, NEW y \in Int,
         -(Modulus \div 2) < x - y, x - y < Modulus \div 2
  PROVE  After(Modulus, x % Modulus, y % Modulus) <=> x > y
<1> DEFINE h == Modulus \div 2
           e == ((x % Modulus) - (y % Modulus)) % Modulus
<1>1. h \in Nat /\ 2 * h = Modulus /\ Modulus \in Nat \ {0}
  BY Constants
<1>2. e = (x - y) % Modulus
  BY <1>1, ModDiff
<1>3. After(Modulus, x % Modulus, y % Modulus) <=> e # 0 /\ e < h
  BY DEF After
<1>4. CASE x >= y
  <2>1. x - y \in 0..(Modulus - 1)
    BY <1>1, <1>4
  <2>2. e = x - y
    BY <1>1, <1>2, <2>1, ModSmall
  <2> HIDE DEF e, h
  <2> QED
    BY <1>3, <1>4, <2>2 DEF h
<1>5. CASE ~(x >= y)
  <2> DEFINE r == x - y + Modulus
  <2>1. r \in 0..(Modulus - 1) /\ r > h
    BY <1>1, <1>5
  <2>2. x - y = Modulus * (-1) + r
    BY <1>1
  <2>3. (Modulus * (-1) + r) % Modulus = r
    <3> HIDE DEF r
    <3> QED
      BY <1>1, <2>1, ModIs
  <2>4. e = r
    BY <1>2, <2>2, <2>3
  <2> HIDE DEF e, h, r
  <2> QED
    BY <1>1, <1>3, <1>5, <2>1, <2>4
<1> QED
  BY <1>4, <1>5

(* The lag of a window from b to a.                                         *)
LEMMA LagIs ==
  ASSUME NEW a \in Int, NEW b \in Int, b =< a, a - b < Modulus
  PROVE  ((a % Modulus) - (b % Modulus)) % Modulus = a - b
<1>1. ((a % Modulus) - (b % Modulus)) % Modulus = (a - b) % Modulus
  BY Constants, ModDiff
<1>2. a - b \in 0..(Modulus - 1)
  BY Constants
<1> QED
  BY <1>1, <1>2, Constants, ModSmall

-----------------------------------------------------------------------------
(* The inductive invariant: the numbers the session has are those that were *)
(* taken, wrapped; in the world every frame counts but the terminal one,    *)
(* and with it no more are on their way than the window has.                *)

Extra == IF direct = "idle" THEN 0 ELSE 1

CountersOK ==
  /\ sent \in Nat /\ counted \in Nat /\ acked \in Nat
  /\ direct \in {"idle", "writing", "ended"}
  /\ wire = [n |-> wire.n, items |-> wire.items]
  /\ wire.n \in Nat /\ wire.n =< sent

FlowOK ==
  /\ flow \in Flows
  /\ flow.serverSeq = sent % Modulus

WindowOK ==
  flow.inWorld =>
    /\ flow.lastFlowSent = counted % Modulus
    /\ flow.lastAck = acked % Modulus
    /\ acked =< counted /\ counted =< sent /\ sent =< counted + Extra
    /\ sent - acked =< MaxUnacked + Extra

IInv == CountersOK /\ FlowOK /\ WindowOK

flowVars == <<direct, flow, wire, sent, counted, acked>>

LEMMA ModSeq == \A n \in Int : n % Modulus \in SeqNumbers
BY Constants DEF SeqNumbers

LEMMA InitWindow == Init => IInv
<1> SUFFICES ASSUME Init PROVE IInv
  OBVIOUS
<1>1. 0 \in SeqNumbers /\ FirstSeq % Modulus \in SeqNumbers /\ FirstSeq \in Nat
  BY Constants DEF SeqNumbers
<1> QED
  BY <1>1 DEF Init, IInv, CountersOK, FlowOK, WindowOK, Flows

LEMMA WindowUnchanged ==
  ASSUME IInv, UNCHANGED flowVars
  PROVE  IInv'
BY DEF IInv, CountersOK, FlowOK, WindowOK, flowVars, Extra

(* The lag that the code computes is the one the counters tell.             *)
LEMMA LagIsCounted ==
  ASSUME IInv, flow.inWorld
  PROVE  Lag(flow) = counted - acked
<1>1. /\ flow.lastFlowSent = counted % Modulus /\ flow.lastAck = acked % Modulus
      /\ counted \in Int /\ acked \in Int /\ acked =< counted
      /\ counted - acked < Modulus
  BY Constants DEF IInv, CountersOK, WindowOK, Extra
<1>2. ((counted % Modulus) - (acked % Modulus)) % Modulus = counted - acked
  BY <1>1, LagIs
<1> QED
  BY <1>1, <1>2 DEF Lag

(* A number is taken.                                                       *)
LEMMA NextNumber ==
  ASSUME IInv
  PROVE  /\ NextServerSeq(flow) = [flow EXCEPT !.serverSeq = (sent + 1) % Modulus]
         /\ (sent + 1) % Modulus \in SeqNumbers
<1>1. (flow.serverSeq + 1) % Modulus = (sent + 1) % Modulus
  BY Constants, ModNext DEF IInv, CountersOK, FlowOK
<1> QED
  BY <1>1, ModSeq DEF NextServerSeq, IInv, CountersOK

LEMMA FrameKeeps ==
  ASSUME IInv, EnterGate
  PROVE  IInv'
<1>1. CASE UNCHANGED <<flow, sent, counted>>
  BY <1>1, WindowUnchanged DEF EnterGate, flowVars
<1>2. ASSUME NEW next \in NextFlowControlledServerSeq(flow), BuildFrame(next)
      PROVE  IInv'
  <2>a. /\ flow' = next /\ sent' = sent + 1
        /\ counted' = (IF flow.inWorld THEN sent + 1 ELSE counted)
        /\ UNCHANGED <<direct, wire, acked>>
    BY <1>2 DEF BuildFrame, EnterGate
  <2>b. CountersOK'
    BY <2>a DEF IInv, CountersOK
  <2> DEFINE seq == (sent + 1) % Modulus
             taken == [flow EXCEPT !.serverSeq = seq]
  <2>c. NextServerSeq(flow) = taken /\ seq \in SeqNumbers
    BY NextNumber
  <2> HIDE DEF seq
  <2>d. taken \in Flows /\ taken.serverSeq = seq /\ taken.inWorld = flow.inWorld
    BY <2>c DEF IInv, FlowOK, Flows
  <2>1. CASE ~flow.inWorld
    <3>1. next = taken
      BY <1>2, <2>1, <2>c DEF NextFlowControlledServerSeq
    <3> QED
      BY <2>1, <2>a, <2>b, <2>d, <3>1 DEF IInv, FlowOK, WindowOK, seq
  <2>2. CASE flow.inWorld
    <3>1. next = [taken EXCEPT !.lastFlowSent = taken.serverSeq] /\ Lag(flow) < MaxUnacked
      BY <1>2, <2>2, <2>c DEF NextFlowControlledServerSeq
    <3> HIDE DEF taken
    <3>2. /\ next \in Flows /\ next.serverSeq = seq /\ next.lastFlowSent = seq
          /\ next.inWorld = taken.inWorld /\ next.lastAck = taken.lastAck
      BY <2>c, <2>d, <3>1 DEF Flows
    <3>3. taken.lastAck = flow.lastAck
      BY DEF taken, IInv, FlowOK, Flows
    <3>4. counted - acked < MaxUnacked
      BY <2>2, <3>1, LagIsCounted
    <3>5. FlowOK'
      BY <2>a, <3>2 DEF FlowOK, seq
    <3>6. WindowOK'
      <4>1. Extra' = Extra /\ Extra \in 0..1
        BY <2>a DEF Extra
      <4>2. flow'.lastFlowSent = counted' % Modulus /\ flow'.lastAck = acked' % Modulus
        BY <2>a, <2>2, <3>2, <3>3 DEF IInv, WindowOK, seq
      <4>3. /\ acked =< counted /\ counted =< sent /\ sent =< counted + Extra
            /\ counted' = sent + 1 /\ sent' = sent + 1 /\ acked' = acked
        BY <2>a, <2>2 DEF IInv, WindowOK
      <4>4. sent \in Nat /\ counted \in Nat /\ acked \in Nat /\ MaxUnacked \in Nat
        BY Constants DEF IInv, CountersOK
      <4>5. /\ acked' =< counted' /\ counted' =< sent' /\ sent' =< counted' + Extra'
            /\ sent' - acked' =< MaxUnacked + Extra'
        BY <3>4, <4>1, <4>3, <4>4
      <4> QED
        BY <4>2, <4>5 DEF WindowOK
    <3> QED
      BY <2>b, <3>5, <3>6 DEF IInv
  <2> QED
    BY <2>1, <2>2
<1> QED
  BY <1>1, <1>2 DEF EnterGate

(* Terminal frames take a number too, and there is at most one.             *)
LEMMA DirectKeeps ==
  ASSUME IInv, WriteDirect
  PROVE  IInv'
<1> DEFINE seq == (sent + 1) % Modulus
<1>1. /\ direct = "idle" /\ direct' = "writing" /\ sent' = sent + 1
      /\ flow' = [flow EXCEPT !.serverSeq = seq] /\ seq \in SeqNumbers
      /\ UNCHANGED <<wire, counted, acked>>
  BY NextNumber DEF WriteDirect
<1> HIDE DEF seq
<1>2. /\ flow' \in Flows /\ flow'.serverSeq = seq /\ flow'.inWorld = flow.inWorld
      /\ flow'.lastAck = flow.lastAck /\ flow'.lastFlowSent = flow.lastFlowSent
  BY <1>1 DEF IInv, FlowOK, Flows
<1>3. Extra = 0 /\ Extra' = 1
  BY <1>1 DEF Extra
<1>4. CountersOK'
  BY <1>1 DEF IInv, CountersOK
<1>5. FlowOK'
  BY <1>1, <1>2 DEF FlowOK, seq
<1>6. WindowOK'
  BY <1>1, <1>2, <1>3, Constants DEF IInv, CountersOK, WindowOK
<1> QED
  BY <1>4, <1>5, <1>6 DEF IInv

LEMMA WireKeeps ==
  ASSUME IInv, EndWrite \/ EndDirect
  PROVE  IInv'
<1>1. /\ UNCHANGED <<flow, sent, counted, acked>>
      /\ direct' = direct \/ (direct # "idle" /\ direct' = "ended")
      /\ wire' = wire \/ (wire' = [n |-> sent, items |-> wire'.items])
  <2>1. CASE EndWrite
    BY <2>1 DEF EndWrite
  <2>2. CASE EndDirect
    <3>1. wire' = wire \/ wire' = [wire EXCEPT !.n = sent]
      BY <2>2 DEF EndDirect
    <3>2. wire = [n |-> wire.n, items |-> wire.items]
      BY DEF IInv, CountersOK
    <3>3. wire' = [wire EXCEPT !.n = sent] => wire' = [n |-> sent, items |-> wire'.items]
      BY <3>2
    <3> QED
      BY <2>2, <3>1, <3>3 DEF EndDirect
  <2> QED
    BY <2>1, <2>2
<1>2. Extra' = Extra
  BY <1>1 DEF Extra
<1>3. CountersOK'
  BY <1>1 DEF IInv, CountersOK
<1> QED
  BY <1>1, <1>2, <1>3 DEF IInv, FlowOK, WindowOK

LEMMA EnterKeeps ==
  ASSUME IInv, EnterWorld
  PROVE  IInv'
<1>1. /\ flow' = [flow EXCEPT !.inWorld = TRUE, !.lastAck = flow.serverSeq,
                               !.lastFlowSent = flow.serverSeq]
      /\ counted' = sent /\ acked' = sent
      /\ UNCHANGED <<direct, wire, sent>>
  BY DEF EnterWorld, CompleteEnterWorld
<1>2. /\ flow' \in Flows /\ flow'.serverSeq = flow.serverSeq
      /\ flow'.lastAck = flow.serverSeq /\ flow'.lastFlowSent = flow.serverSeq
  BY <1>1 DEF IInv, FlowOK, Flows
<1>3. Extra' = Extra /\ Extra \in 0..1
  BY <1>1 DEF Extra
<1>4. CountersOK'
  BY <1>1 DEF IInv, CountersOK
<1>5. FlowOK' /\ WindowOK'
  BY <1>1, <1>2, <1>3, Constants DEF IInv, CountersOK, FlowOK, WindowOK
<1> QED
  BY <1>4, <1>5 DEF IInv

LEMMA LeaveKeeps ==
  ASSUME IInv, LeaveWorld
  PROVE  IInv'
<1>1. /\ flow' = [flow EXCEPT !.inWorld = FALSE, !.lastAck = 0, !.lastFlowSent = 0]
      /\ UNCHANGED <<direct, wire, sent, counted, acked>>
  BY DEF LeaveWorld, CompleteLeaveWorld, history
<1>2. 0 \in SeqNumbers
  BY Constants DEF SeqNumbers
<1>3. flow' \in Flows /\ flow'.serverSeq = flow.serverSeq /\ ~flow'.inWorld
  BY <1>1, <1>2 DEF IInv, FlowOK, Flows
<1> QED
  BY <1>1, <1>3 DEF IInv, CountersOK, FlowOK, WindowOK

(* An acknowledgement moves the window exactly when it is for a frame that  *)
(* was sent and not acknowledged.                                           *)
LEMMA AckKeeps ==
  ASSUME IInv, NEW n \in FirstSeq..wire.n, handleAck(n)
  PROVE  IInv'
<1> DEFINE h == Modulus \div 2
<1>1. /\ flow.inWorld /\ acked - n < h
      /\ flow' = ApplyAck(flow, n % Modulus)
      /\ acked' = (IF n \in acked..counted THEN n ELSE acked)
      /\ UNCHANGED <<direct, wire, sent, counted>>
  BY DEF handleAck
<1>2. /\ n \in Nat /\ sent \in Nat /\ counted \in Nat /\ acked \in Nat /\ n =< sent
  BY Constants DEF IInv, CountersOK
<1>3. Extra \in 0..1 /\ Extra' = Extra
  BY <1>1 DEF Extra
<1>4. /\ acked =< counted /\ counted =< sent /\ sent =< counted + Extra
      /\ sent - acked =< MaxUnacked + Extra
      /\ flow.lastFlowSent = counted % Modulus /\ flow.lastAck = acked % Modulus
  BY <1>1 DEF IInv, WindowOK
<1>5. h \in Nat /\ MaxUnacked \in Nat /\ MaxUnacked + 2 =< h
  BY Constants
<1>6. After(Modulus, n % Modulus, flow.lastAck) <=> n > acked
  <2>1. -h < n - acked /\ n - acked < h
    <3> HIDE DEF h
    <3> QED
      BY <1>1, <1>2, <1>3, <1>4, <1>5
  <2> QED
    BY <1>2, <1>4, <2>1, AfterIsGreater
<1>7. n > acked => (After(Modulus, n % Modulus, flow.lastFlowSent) <=> n > counted)
  <2>1. n > acked => -h < n - counted /\ n - counted < h
    <3> HIDE DEF h
    <3> QED
      BY <1>2, <1>3, <1>4, <1>5
  <2> QED
    BY <1>2, <1>4, <2>1, AfterIsGreater
<1>8. flow' = IF n > acked /\ ~(n > counted) THEN [flow EXCEPT !.lastAck = n % Modulus] ELSE flow
  BY <1>1, <1>6, <1>7 DEF ApplyAck
<1>9. /\ flow' \in Flows /\ flow'.serverSeq = flow.serverSeq
      /\ flow'.lastFlowSent = flow.lastFlowSent
      /\ flow'.lastAck = acked' % Modulus
  <2>1. CASE n > acked /\ ~(n > counted)
    <3>1. flow' = [flow EXCEPT !.lastAck = n % Modulus] /\ n % Modulus \in SeqNumbers
      BY <1>2, <1>8, <2>1, ModSeq
    <3>2. acked' = n
      BY <1>1, <1>2, <2>1
    <3> QED
      BY <3>1, <3>2 DEF IInv, FlowOK, Flows
  <2>2. CASE ~(n > acked /\ ~(n > counted))
    <3>1. flow' = flow
      BY <1>8, <2>2
    <3>2. acked' = acked
      BY <1>1, <1>2, <2>2
    <3> QED
      BY <1>4, <3>1, <3>2 DEF IInv, FlowOK
  <2> QED
    BY <2>1, <2>2
<1>10. acked' \in Nat /\ acked =< acked' /\ acked' =< counted
  BY <1>1, <1>2, <1>4
<1>11. CountersOK'
  BY <1>1, <1>10 DEF IInv, CountersOK
<1>12. FlowOK'
  BY <1>1, <1>9 DEF IInv, FlowOK
<1>13. WindowOK'
  <2>1. sent' - acked' =< MaxUnacked + Extra'
    BY <1>1, <1>2, <1>3, <1>4, <1>5, <1>10
  <2> QED
    BY <1>1, <1>3, <1>4, <1>9, <1>10, <2>1 DEF WindowOK
<1> QED
  BY <1>11, <1>12, <1>13 DEF IInv

-----------------------------------------------------------------------------

LEMMA NextKeeps ==
  ASSUME IInv, [Next]_vars
  PROVE  IInv'
<1>1. CASE UNCHANGED vars
  BY <1>1, WindowUnchanged DEF vars, flowVars
<1>2. CASE Producer
  <2>1. UNCHANGED flowVars
    BY <1>2 DEF Producer, SendCritical, Look, EnqueueTimeout, CancelSend, TryCritical, TryState,
                CancelState, history, flowVars
  <2> QED
    BY <2>1, WindowUnchanged
<1>3. CASE Loop \/ Wake \/ GateTimeout \/ Complete \/ Fail \/ Stop \/ CloseNow
  <2>1. UNCHANGED flowVars
    BY <1>3 DEF Loop, Wake, GateTimeout, Complete, Fail, Stop, CloseNow, history, flowVars
  <2> QED
    BY <2>1, WindowUnchanged
<1>4. CASE Client
  BY <1>4, EnterKeeps, LeaveKeeps, AckKeeps DEF Client
<1>5. CASE EnterGate \/ EndWrite \/ WriteDirect \/ EndDirect
  BY <1>5, FrameKeeps, DirectKeeps, WireKeeps
<1> QED
  BY <1>1, <1>2, <1>3, <1>4, <1>5 DEF Next, run

(* In the world the lag that flow control computes from wrapped numbers is  *)
(* what was sent and not acknowledged, and exceeds the window by a terminal *)
(* frame at most, however often numbers wrap and whatever acknowledgements  *)
(* come twice, late or from the future.                                     *)
THEOREM WindowStaysTrue == Spec => []LagIsTrue
<1>1. IInv => LagIsTrue
  <2> SUFFICES ASSUME IInv, flow.inWorld
               PROVE  /\ Lag(flow) = counted - acked
                      /\ Lag(flow) =< MaxUnacked + Extra
    BY DEF LagIsTrue, Extra
  <2>1. Lag(flow) = counted - acked
    BY LagIsCounted
  <2>2. Extra \in 0..1
    BY DEF Extra
  <2> QED
    BY <2>1, <2>2, Constants DEF IInv, CountersOK, WindowOK
<1> QED
  BY <1>1, InitWindow, NextKeeps, PTL DEF Spec

-----------------------------------------------------------------------------
(* The queue *)

Item == [id: Nat \ {0}, key: Keys \cup {Critical}, size: Sizes]

(* Numbers grow from the front of a lane to its back.                       *)
Sorted(lane) == \A a, b \in 1..Len(lane) : a < b => lane[a].id < lane[b].id

LEMMA ItemIsItem ==
  /\ NoItem \notin Item
  /\ NoItem.size = 0
  /\ \A item \in Item : item.size \in Nat /\ item.id \in Nat \ {0}
BY OutboundConstants DEF Item, NoItem

(* r is s without its i-th item.                                            *)
Less(r, s, i) ==
  /\ i \in 1..Len(s)
  /\ Len(r) = Len(s) - 1
  /\ \A k \in 1..Len(r) : r[k] = IF k < i THEN s[k] ELSE s[k + 1]

LEMMA TailLess ==
  ASSUME NEW S, NEW s \in Seq(S), s # <<>>
  PROVE  /\ Tail(s) \in Seq(S) /\ Less(Tail(s), s, 1)
         /\ Head(s) = s[1] /\ Head(s) \in S
BY DEF Less

LEMMA RemoveAtLess ==
  ASSUME NEW S, NEW s \in Seq(S), NEW i \in 1..Len(s)
  PROVE  RemoveAt(s, i) \in Seq(S) /\ Less(RemoveAt(s, i), s, i)
<1> DEFINE f == SubSeq(s, 1, i - 1)
           g == SubSeq(s, i + 1, Len(s))
<1>1. /\ f \in Seq(S) /\ Len(f) = i - 1 /\ \A k \in 1..(i - 1) : f[k] = s[k]
  OBVIOUS
<1>2. /\ g \in Seq(S) /\ Len(g) = Len(s) - i
      /\ \A k \in 1..(Len(s) - i) : g[k] = s[k + i]
  OBVIOUS
<1>3. RemoveAt(s, i) = f \o g
  BY DEF RemoveAt
<1> HIDE DEF f, g
<1>4. /\ f \o g \in Seq(S) /\ Len(f \o g) = Len(s) - 1
      /\ \A k \in 1..(i - 1) : (f \o g)[k] = f[k]
      /\ \A k \in i..(Len(s) - 1) : (f \o g)[k] = g[k - i + 1]
  <2>0. f \in Seq(S) /\ g \in Seq(S)
    BY <1>1, <1>2
  <2>a. f \o g \in Seq(S)
    BY <2>0, ConcatProperties
  <2>b. Len(f \o g) = Len(f) + Len(g)
    BY <2>0, ConcatProperties
  <2>1. f \o g \in Seq(S) /\ Len(f \o g) = Len(f) + Len(g)
    BY <2>a, <2>b
  <2>2. \A k \in 1..Len(f) : (f \o g)[k] = f[k]
    BY <1>1, <1>2
  <2>3. ASSUME NEW k \in i..(Len(s) - 1) PROVE (f \o g)[k] = g[k - i + 1]
    <3>1. k \in Len(f) + 1..Len(f) + Len(g) /\ k - Len(f) = k - i + 1
      BY <1>1, <1>2
    <3>2. (f \o g)[k] = g[k - Len(f)]
      BY <1>1, <1>2, <3>1
    <3> QED
      BY <3>1, <3>2
  <2> QED
    BY <1>1, <1>2, <2>1, <2>2, <2>3
<1>5. ASSUME NEW k \in 1..(Len(s) - 1)
      PROVE  (f \o g)[k] = IF k < i THEN s[k] ELSE s[k + 1]
  <2>1. CASE k < i
    BY <1>1, <1>4, <2>1
  <2>2. CASE ~(k < i)
    <3>1. k \in i..(Len(s) - 1) /\ k - i + 1 \in 1..(Len(s) - i) /\ (k - i + 1) + i = k + 1
      BY <2>2
    <3> QED
      BY <1>2, <1>4, <2>2, <3>1
  <2> QED
    BY <2>1, <2>2
<1> QED
  BY <1>3, <1>4, <1>5 DEF Less

-----------------------------------------------------------------------------
(* Sizes: SizeOf(s) is the last entry of a table of sums                    *)

IsSum(f, s, n) == f = [k \in 0..n |-> IF k = 0 THEN 0 ELSE f[k - 1] + s[k].size]

LEMMA SumExists ==
  ASSUME NEW s, NEW n \in Nat
  PROVE  \E f : IsSum(f, s, n)
<1> DEFINE T == {m \in Nat : \E f : IsSum(f, s, m)}
<1>1. 0 \in T
  <2> DEFINE f == [k \in 0..0 |-> 0]
  <2>1. IsSum(f, s, 0)
    BY DEF IsSum
  <2> QED
    BY <2>1
<1>2. ASSUME NEW m \in Nat, m \in T PROVE m + 1 \in T
  <2>1. PICK f : f = [k \in 0..m |-> IF k = 0 THEN 0 ELSE f[k - 1] + s[k].size]
    BY <1>2 DEF IsSum
  <2> DEFINE g == [k \in 0..(m + 1) |->
                     IF k = m + 1 THEN f[m] + s[m + 1].size ELSE f[k]]
  <2>2. ASSUME NEW k \in 0..(m + 1)
        PROVE  g[k] = IF k = 0 THEN 0 ELSE g[k - 1] + s[k].size
    <3>1. CASE k = 0
      BY <2>1, <3>1
    <3>2. CASE k = m + 1
      BY <3>2
    <3>3. CASE k # 0 /\ k # m + 1
      <4>1. k \in 0..m /\ k - 1 \in 0..m /\ k - 1 \in 0..(m + 1) /\ k - 1 # m + 1
        BY <3>3
      <4>2. f[k] = f[k - 1] + s[k].size
        BY <2>1, <3>3, <4>1
      <4> QED
        BY <3>3, <4>1, <4>2
    <3> QED
      BY <3>1, <3>2, <3>3
  <2>3. g = [k \in 0..(m + 1) |-> IF k = 0 THEN 0 ELSE g[k - 1] + s[k].size]
    <3>1. g = [k \in 0..(m + 1) |-> g[k]]
      OBVIOUS
    <3> HIDE DEF g
    <3> QED
      BY <2>2, <3>1
  <2> HIDE DEF g
  <2> QED
    BY <2>3 DEF IsSum
<1> HIDE DEF T
<1>3. n \in T
  BY <1>1, <1>2, SetInduction
<1> QED
  BY <1>3 DEF T

LEMMA SizeIs ==
  ASSUME NEW s \in Seq(Item)
  PROVE  \E f : /\ f[0] = 0
                /\ \A k \in 1..Len(s) : f[k] = f[k - 1] + s[k].size
                /\ \A k \in 0..Len(s) : f[k] \in Nat
                /\ SizeOf(s) = f[Len(s)]
<1> DEFINE F(f) == [n \in 0..Len(s) |-> IF n = 0 THEN 0 ELSE f[n - 1] + s[n].size]
           f == CHOOSE f : f = F(f)
<1>1. SizeOf(s) = f[Len(s)]
  BY DEF SizeOf
<1>2. f = F(f)
  <2>1. \E g : IsSum(g, s, Len(s))
    BY SumExists
  <2>2. \E g : g = F(g)
    BY <2>1 DEF IsSum
  <2> QED
    BY <2>2
<1> HIDE DEF f
<1>3. /\ f[0] = 0
      /\ \A k \in 1..Len(s) : f[k] = f[k - 1] + s[k].size
  BY <1>2
<1> DEFINE T == {k \in Nat : k =< Len(s) => f[k] \in Nat}
<1>4. Nat \subseteq T
  <2>1. 0 \in T
    BY <1>3
  <2>2. ASSUME NEW k \in Nat, k \in T PROVE k + 1 \in T
    <3>1. SUFFICES ASSUME k + 1 =< Len(s) PROVE f[k + 1] \in Nat
      OBVIOUS
    <3>2. k + 1 \in 1..Len(s) /\ f[k] \in Nat /\ s[k + 1].size \in Nat /\ (k + 1) - 1 = k
      BY <2>2, <3>1, ItemIsItem
    <3>3. f[k + 1] = f[k] + s[k + 1].size
      BY <1>3, <3>2
    <3> QED
      BY <3>2, <3>3
  <2> HIDE DEF T
  <2> QED
    BY <2>1, <2>2, SetInduction
<1>5. \A k \in 0..Len(s) : f[k] \in Nat
  BY <1>4
<1> QED
  BY <1>1, <1>3, <1>5

LEMMA SizeType ==
  ASSUME NEW s \in Seq(Item)
  PROVE  SizeOf(s) \in Nat
BY SizeIs

LEMMA SizeEmpty == SizeOf(<<>>) = 0
<1>1. <<>> \in Seq(Item) /\ Len(<<>>) = 0
  OBVIOUS
<1> QED
  BY <1>1, SizeIs

(* A sequence and another that begins like it have the same sums there.     *)
LEMMA SameSums ==
  ASSUME NEW f, NEW g, NEW n \in Nat, f[0] = g[0],
         \A k \in 1..n : f[k - 1] = g[k - 1] => f[k] = g[k]
  PROVE  \A k \in 0..n : f[k] = g[k]
<1> DEFINE T == {k \in Nat : k =< n => f[k] = g[k]}
<1>1. 0 \in T
  OBVIOUS
<1>2. ASSUME NEW k \in Nat, k \in T PROVE k + 1 \in T
  <2>1. SUFFICES ASSUME k + 1 =< n PROVE f[k + 1] = g[k + 1]
    OBVIOUS
  <2>2. k + 1 \in 1..n /\ (k + 1) - 1 = k /\ f[k] = g[k]
    BY <1>2, <2>1
  <2> QED
    BY <2>2
<1> HIDE DEF T
<1>3. Nat \subseteq T
  BY <1>1, <1>2, SetInduction
<1> QED
  BY <1>3 DEF T

LEMMA SizeAppend ==
  ASSUME NEW s \in Seq(Item), NEW x \in Item
  PROVE  SizeOf(Append(s, x)) = SizeOf(s) + x.size
<1> DEFINE r == Append(s, x)
           n == Len(s)
<1>1. /\ r \in Seq(Item) /\ n \in Nat /\ Len(r) = n + 1 /\ r[n + 1] = x
      /\ \A k \in 1..n : r[k] = s[k]
  OBVIOUS
<1> HIDE DEF r
<1>2. PICK f : /\ f[0] = 0
               /\ \A k \in 1..n : f[k] = f[k - 1] + s[k].size
               /\ SizeOf(s) = f[n]
  BY SizeIs
<1>3. PICK g : /\ g[0] = 0
               /\ \A k \in 1..Len(r) : g[k] = g[k - 1] + r[k].size
               /\ SizeOf(r) = g[Len(r)]
  BY <1>1, SizeIs
<1> HIDE DEF n
<1>4. \A k \in 1..n : f[k - 1] = g[k - 1] => f[k] = g[k]
  BY <1>1, <1>2, <1>3
<1>5. f[n] = g[n]
  <2>0. n \in Nat /\ f[0] = g[0]
    BY <1>1, <1>2, <1>3
  <2>1. \A k \in 0..n : f[k] = g[k]
    BY <1>4, <2>0, SameSums, ZenonT(30)
  <2> QED
    BY <1>1, <2>1
<1>6. g[n + 1] = g[n] + x.size
  BY <1>1, <1>3
<1> QED
  BY <1>1, <1>2, <1>3, <1>5, <1>6 DEF r, n

LEMMA SizeLess ==
  ASSUME NEW s \in Seq(Item), NEW r \in Seq(Item), NEW i, Less(r, s, i)
  PROVE  /\ SizeOf(r) = SizeOf(s) - s[i].size
         /\ SizeOf(r) \in Nat /\ SizeOf(s) \in Nat /\ s[i] \in Item
<1> DEFINE n == Len(s)
<1>1. /\ n \in Nat /\ i \in 1..n /\ Len(r) = n - 1 /\ s[i] \in Item /\ s[i].size \in Nat
      /\ \A k \in 1..(n - 1) : r[k] = IF k < i THEN s[k] ELSE s[k + 1]
  BY ItemIsItem DEF Less
<1>2. PICK f : /\ f[0] = 0
               /\ \A k \in 1..n : f[k] = f[k - 1] + s[k].size
               /\ \A k \in 0..n : f[k] \in Nat
               /\ SizeOf(s) = f[n]
  BY SizeIs
<1>3. PICK g : /\ g[0] = 0
               /\ \A k \in 1..Len(r) : g[k] = g[k - 1] + r[k].size
               /\ \A k \in 0..Len(r) : g[k] \in Nat
               /\ SizeOf(r) = g[Len(r)]
  BY SizeIs
<1>a. \A k \in 1..n : s[k].size \in Nat
  BY ItemIsItem
<1> HIDE DEF n
<1> DEFINE h == [k \in 0..(n - 1) |-> IF k < i THEN f[k] ELSE f[k + 1] - s[i].size]
<1>4. h[0] = g[0]
  BY <1>1, <1>2, <1>3
<1>5. ASSUME NEW k \in 1..(n - 1), h[k - 1] = g[k - 1] PROVE h[k] = g[k]
  <2>1. g[k] = g[k - 1] + r[k].size /\ k - 1 \in 0..(n - 1) /\ k \in 0..(n - 1) /\ k \in 1..n
        /\ k + 1 \in 1..n /\ (k + 1) - 1 = k
    <3>1. /\ k - 1 \in 0..(n - 1) /\ k \in 0..(n - 1) /\ k \in 1..n /\ k + 1 \in 1..n
          /\ (k + 1) - 1 = k /\ k \in 1..Len(r)
      BY <1>1
    <3>2. g[k] = g[k - 1] + r[k].size
      BY <1>3, <3>1
    <3> QED
      BY <3>1, <3>2
  <2>2. CASE k < i
    <3>1. h[k] = f[k] /\ h[k - 1] = f[k - 1] /\ r[k] = s[k] /\ f[k] = f[k - 1] + s[k].size
      BY <1>1, <1>2, <2>1, <2>2
    <3> QED
      BY <1>5, <2>1, <3>1
  <2>3. CASE k = i
    <3>1. h[k] = f[k + 1] - s[i].size
      BY <2>1, <2>3
    <3>2. h[k - 1] = f[k - 1]
      BY <1>1, <2>1, <2>3
    <3> HIDE DEF h
    <3>3. r[k] = s[k + 1]
      BY <1>1, <2>1, <2>3
    <3>4. f[k + 1] = f[k] + s[k + 1].size /\ f[k] = f[k - 1] + s[i].size
      BY <1>2, <2>1, <2>3
    <3>5. f[k] \in Nat /\ f[k - 1] \in Nat /\ s[i].size \in Nat /\ s[k + 1].size \in Nat
          /\ f[k + 1] \in Nat
      <4>1. s[i].size \in Nat /\ s[k + 1].size \in Nat
        BY <1>1, <1>a, <2>1
      <4>2. k \in 0..n /\ k - 1 \in 0..n /\ k + 1 \in 0..n
        BY <1>1
      <4> QED
        BY <1>2, <4>1, <4>2
    <3>6. h[k] = h[k - 1] + s[k + 1].size
      <4>1. PICK a \in Nat, b \in Nat, c \in Nat, x \in Nat, y \in Nat :
              a = f[k - 1] /\ b = f[k] /\ c = f[k + 1] /\ x = s[i].size /\ y = s[k + 1].size
        BY <3>5
      <4>2. c = b + y /\ b = a + x
        BY <3>4, <4>1
      <4>3. c - x = a + y
        BY <4>2
      <4> QED
        BY <3>1, <3>2, <4>1, <4>3
    <3> QED
      BY <1>5, <2>1, <3>3, <3>6
  <2>4. CASE k > i
    <3>1. /\ h[k] = f[k + 1] - s[i].size /\ r[k] = s[k + 1]
          /\ f[k + 1] = f[k] + s[k + 1].size
      <4>1. ~(k < i)
        BY <1>1, <2>4
      <4>2. h[k] = f[k + 1] - s[i].size
        BY <2>1, <4>1
      <4> HIDE DEF h
      <4>3. r[k] = s[k + 1]
        BY <1>1, <4>1
      <4>4. f[k + 1] = f[k] + s[k + 1].size
        BY <1>2, <2>1
      <4> QED
        BY <4>2, <4>3, <4>4
    <3>4. h[k - 1] = f[k] - s[i].size
      <4>1. ~(k - 1 < i) /\ (k - 1) + 1 = k
        BY <1>1, <2>4
      <4> QED
        BY <2>1, <4>1
    <3>2. f[k] \in Nat /\ f[k + 1] \in Nat /\ s[i].size \in Nat /\ s[k + 1].size \in Nat
      <4>1. s[i].size \in Nat /\ s[k + 1].size \in Nat
        BY <1>1, <1>a, <2>1
      <4>2. k \in 0..n /\ k + 1 \in 0..n
        BY <1>1
      <4> QED
        BY <1>2, <4>1, <4>2
    <3> HIDE DEF h
    <3>3. h[k] = h[k - 1] + s[k + 1].size
      <4>1. PICK a \in Nat, b \in Nat, x \in Nat, y \in Nat :
              a = f[k] /\ b = f[k + 1] /\ x = s[i].size /\ y = s[k + 1].size
        BY <3>2
      <4>2. b = a + y /\ h[k] = b - x /\ h[k - 1] = a - x
        BY <3>1, <3>4, <4>1
      <4>3. h[k] = h[k - 1] + y
        BY <4>2
      <4> QED
        BY <4>1, <4>3
    <3> QED
      BY <1>5, <2>1, <3>1, <3>3
  <2> QED
    BY <1>1, <2>2, <2>3, <2>4
<1>6. n - 1 \in Nat
  BY <1>1
<1>7. h[n - 1] = g[n - 1]
  <2> HIDE DEF h
  <2>1. \A k \in 0..(n - 1) : h[k] = g[k]
    BY <1>4, <1>5, <1>6, SameSums
  <2> QED
    BY <1>6, <2>1
<1>8. h[n - 1] = f[n] - s[i].size
  <2>1. CASE i = n
    <3>1. h[n - 1] = f[n - 1] /\ f[n] = f[n - 1] + s[i].size
      BY <1>1, <1>2, <1>6, <2>1
    <3>2. f[n - 1] \in Nat /\ s[i].size \in Nat
      BY <1>1, <1>2, <1>6
    <3> QED
      BY <3>1, <3>2
  <2>2. CASE i # n
    <3>1. ~(n - 1 < i) /\ (n - 1) + 1 = n /\ n - 1 \in 0..(n - 1)
      BY <1>1, <2>2
    <3> QED
      BY <3>1
  <2> QED
    BY <2>1, <2>2
<1>9. SizeOf(r) = SizeOf(s) - s[i].size
  BY <1>1, <1>2, <1>3, <1>7, <1>8 DEF n
<1> QED
  BY <1>1, <1>9, SizeType

-----------------------------------------------------------------------------
(* The invariant of the queue *)

Shape(q) ==
  /\ q = [crit |-> q.crit, order |-> q.order, writing |-> q.writing,
          messages |-> q.messages, bytes |-> q.bytes, closed |-> q.closed]
  /\ q.crit \in Seq(Item)
  /\ q.order \in Seq(Item)
  /\ q.writing \in Item \cup {NoItem}
  /\ q.closed \in BOOLEAN
  /\ q.closed => q = Closed

Budget(q) ==
  /\ q.messages = Len(q.crit) + Len(q.order) + (IF q.writing = NoItem THEN 0 ELSE 1)
  /\ q.bytes = SizeOf(q.crit) + SizeOf(q.order) + q.writing.size
  /\ q.messages =< MaxMessages
  /\ q.bytes =< MaxBytes

(* The lanes crit and order, of m items made and those in d dropped.        *)
Lanes(crit, order, m, d) ==
  /\ Sorted(crit) /\ Sorted(order)
  /\ \A a \in 1..Len(crit) :
       crit[a].key = Critical /\ crit[a].id =< m /\ crit[a].id \notin d
  /\ \A a \in 1..Len(order) :
       order[a].key # Critical /\ order[a].id =< m /\ order[a].id \notin d
  /\ \A a \in 1..Len(crit), b \in 1..Len(order) : crit[a].id # order[b].id
  /\ \A a, b \in 1..Len(order) : order[a].key = order[b].key => a = b

(* What the pump took went ahead of what waits.                             *)
Ahead(item, crit, order) ==
  /\ \A a \in 1..Len(crit) : item.id < crit[a].id
  /\ \A a \in 1..Len(order) :
       /\ item.id # order[a].id
       /\ item.id > order[a].id => item.key = Critical

Whole(q, m, d) == Shape(q) /\ Budget(q) /\ Lanes(q.crit, q.order, m, d)

(* e is q with fewer states.                                                *)
Thinned(e, q, m, d) ==
  /\ Whole(e, m, d)
  /\ e.crit = q.crit /\ e.writing = q.writing /\ e.closed = q.closed
  /\ \A item : Ahead(item, q.crit, q.order) => Ahead(item, e.crit, e.order)

Q(c, o, w, m, b, x) ==
  [crit |-> c, order |-> o, writing |-> w, messages |-> m, bytes |-> b, closed |-> x]

(* Lanes from which an item goes, or to which the newest comes.             *)
LEMMA SortedLess ==
  ASSUME NEW s \in Seq(Item), NEW r \in Seq(Item), NEW i, Less(r, s, i), Sorted(s)
  PROVE  Sorted(r)
<1> SUFFICES ASSUME NEW a \in 1..Len(r), NEW b \in 1..Len(r), a < b PROVE r[a].id < r[b].id
  BY DEF Sorted
<1>1. /\ i \in 1..Len(s) /\ Len(r) = Len(s) - 1 /\ Len(s) \in Nat
      /\ r[a] = (IF a < i THEN s[a] ELSE s[a + 1]) /\ r[b] = (IF b < i THEN s[b] ELSE s[b + 1])
  <2>1. Len(s) \in Nat
    OBVIOUS
  <2> QED
    BY <2>1, Zenon DEF Less
<1> DEFINE x == IF a < i THEN a ELSE a + 1
           y == IF b < i THEN b ELSE b + 1
<1>2. x \in 1..Len(s) /\ y \in 1..Len(s) /\ x < y
  BY <1>1
<1>3. r[a] = s[x] /\ r[b] = s[y]
  BY <1>1
<1> HIDE DEF x, y
<1> QED
  BY <1>2, <1>3 DEF Sorted

LEMMA SourceIndex ==
  ASSUME NEW s \in Seq(Item), NEW r \in Seq(Item), NEW i, Less(r, s, i), NEW a \in 1..Len(r)
  PROVE  \E x \in 1..Len(s) : r[a] = s[x] /\ x # i /\ x = IF a < i THEN a ELSE a + 1
<1>1. /\ i \in 1..Len(s) /\ Len(r) = Len(s) - 1 /\ Len(s) \in Nat
      /\ r[a] = (IF a < i THEN s[a] ELSE s[a + 1])
  <2>1. Len(s) \in Nat
    OBVIOUS
  <2> QED
    BY <2>1, Zenon DEF Less
<1>2. CASE a < i
  <2>1. a \in 1..Len(s) /\ a # i /\ r[a] = s[a] /\ a = IF a < i THEN a ELSE a + 1
    BY <1>1, <1>2
  <2> QED
    BY <2>1
<1>3. CASE ~(a < i)
  <2>1. a + 1 \in 1..Len(s) /\ a + 1 # i /\ r[a] = s[a + 1] /\ a + 1 = IF a < i THEN a ELSE a + 1
    BY <1>1, <1>3
  <2> QED
    BY <2>1
<1> QED
  BY <1>2, <1>3

LEMMA StateLess ==
  ASSUME NEW c \in Seq(Item), NEW s \in Seq(Item), NEW r \in Seq(Item), NEW i, Less(r, s, i),
         NEW m, NEW d, Lanes(c, s, m, d)
  PROVE  /\ Lanes(c, r, m, d)
         /\ \A item : Ahead(item, c, s) => Ahead(item, c, r)
         /\ \A a \in 1..Len(r) : r[a].id # s[i].id /\ r[a].key # s[i].key
<1>1. \A a \in 1..Len(r) :
        \E x \in 1..Len(s) : r[a] = s[x] /\ x # i /\ x = IF a < i THEN a ELSE a + 1
  BY SourceIndex
<1>2. Sorted(r)
  BY SortedLess DEF Lanes
<1>3. ASSUME NEW a \in 1..Len(r)
      PROVE  /\ r[a].key # Critical /\ r[a].id =< m /\ r[a].id \notin d
             /\ \A b \in 1..Len(c) : c[b].id # r[a].id
             /\ r[a].id # s[i].id /\ r[a].key # s[i].key
  <2>1. PICK x \in 1..Len(s) : r[a] = s[x] /\ x # i
    BY <1>1
  <2>2. i \in 1..Len(s) /\ s[i].id \in Nat /\ s[x].id \in Nat
    BY ItemIsItem DEF Less
  <2>3. s[x].id # s[i].id
    BY <2>1, <2>2 DEF Lanes, Sorted
  <2> QED
    BY <2>1, <2>2, <2>3 DEF Lanes
<1>4. ASSUME NEW a \in 1..Len(r), NEW b \in 1..Len(r), r[a].key = r[b].key PROVE a = b
  <2>1. PICK x \in 1..Len(s) : r[a] = s[x] /\ x = IF a < i THEN a ELSE a + 1
    BY <1>1
  <2>2. PICK y \in 1..Len(s) : r[b] = s[y] /\ y = IF b < i THEN b ELSE b + 1
    BY <1>1
  <2>3. x = y
    BY <1>4, <2>1, <2>2 DEF Lanes
  <2>4. a \in Nat /\ b \in Nat /\ i \in Nat
    BY DEF Less
  <2> QED
    BY <2>1, <2>2, <2>3, <2>4
<1>5. ASSUME NEW item, Ahead(item, c, s) PROVE Ahead(item, c, r)
  BY <1>1, <1>5 DEF Ahead
<1> QED
  BY <1>2, <1>3, <1>4, <1>5 DEF Lanes

LEMMA CriticalLess ==
  ASSUME NEW o \in Seq(Item), NEW s \in Seq(Item), NEW r \in Seq(Item), NEW i, Less(r, s, i),
         NEW m, NEW d, Lanes(s, o, m, d)
  PROVE  /\ Lanes(r, o, m, d)
         /\ \A item : Ahead(item, s, o) => Ahead(item, r, o)
<1>1. \A a \in 1..Len(r) : \E x \in 1..Len(s) : r[a] = s[x]
  BY SourceIndex
<1>2. Sorted(r)
  BY SortedLess DEF Lanes
<1>3. ASSUME NEW a \in 1..Len(r)
      PROVE  /\ r[a].key = Critical /\ r[a].id =< m /\ r[a].id \notin d
             /\ \A b \in 1..Len(o) : r[a].id # o[b].id
  <2>1. PICK x \in 1..Len(s) : r[a] = s[x]
    BY <1>1
  <2> QED
    BY <2>1 DEF Lanes
<1>4. ASSUME NEW item, Ahead(item, s, o) PROVE Ahead(item, r, o)
  BY <1>1, <1>4 DEF Ahead
<1> QED
  BY <1>2, <1>3, <1>4 DEF Lanes

LEMMA SortedAppend ==
  ASSUME NEW s \in Seq(Item), NEW x \in Item, Sorted(s),
         \A a \in 1..Len(s) : s[a].id < x.id
  PROVE  Sorted(Append(s, x))
<1> DEFINE r == Append(s, x)
<1>1. /\ Len(s) \in Nat /\ Len(r) = Len(s) + 1 /\ r[Len(s) + 1] = x
      /\ \A a \in 1..Len(s) : r[a] = s[a]
  OBVIOUS
<1> HIDE DEF r
<1>2. ASSUME NEW a \in 1..Len(r), NEW b \in 1..Len(r), a < b PROVE r[a].id < r[b].id
  <2>1. a \in 1..Len(s)
    BY <1>1, <1>2
  <2>2. CASE b = Len(s) + 1
    BY <1>1, <2>1, <2>2
  <2>3. CASE b # Len(s) + 1
    <3>1. b \in 1..Len(s)
      BY <1>1, <2>3
    <3> QED
      BY <1>1, <1>2, <2>1, <3>1 DEF Sorted
  <2> QED
    BY <2>2, <2>3
<1> QED
  BY <1>2 DEF Sorted, r

LEMMA LastOrOld ==
  ASSUME NEW s \in Seq(Item), NEW x \in Item
  PROVE  /\ Append(s, x) \in Seq(Item)
         /\ Len(Append(s, x)) = Len(s) + 1
         /\ Append(s, x)[Len(s) + 1] = x
         /\ \A a \in 1..Len(Append(s, x)) :
              \/ a = Len(s) + 1 /\ Append(s, x)[a] = x
              \/ a \in 1..Len(s) /\ Append(s, x)[a] = s[a]
         /\ \A a \in 1..Len(s) : a \in 1..Len(Append(s, x)) /\ Append(s, x)[a] = s[a]
OBVIOUS

LEMMA CriticalAppended ==
  ASSUME NEW c \in Seq(Item), NEW o \in Seq(Item), NEW m \in Nat, NEW d,
         \A n \in d : n \in Nat /\ n =< m, Lanes(c, o, m, d),
         NEW x \in Item, x.id = m + 1, x.key = Critical
  PROVE  /\ Lanes(Append(c, x), o, m + 1, d)
         /\ \A item : item.id \in Nat /\ item.id =< m /\ Ahead(item, c, o)
              => Ahead(item, Append(c, x), o)
<1> DEFINE r == Append(c, x)
<1>1. \A a \in 1..Len(r) : (a = Len(c) + 1 /\ r[a] = x) \/ (a \in 1..Len(c) /\ r[a] = c[a])
  BY LastOrOld
<1>2. (\A a \in 1..Len(c) : c[a].id \in Nat) /\ (\A a \in 1..Len(o) : o[a].id \in Nat)
  BY ItemIsItem
<1>3. Sorted(r)
  <2>1. \A a \in 1..Len(c) : c[a].id < x.id
    BY <1>2 DEF Lanes
  <2> QED
    BY <2>1, SortedAppend DEF Lanes
<1> HIDE DEF r
<1>4. x.id \notin d /\ x.id \in Nat
  OBVIOUS
<1>5. ASSUME NEW a \in 1..Len(r)
      PROVE  /\ r[a].key = Critical /\ r[a].id =< m + 1 /\ r[a].id \notin d
             /\ \A b \in 1..Len(o) : r[a].id # o[b].id
  <2>1. CASE r[a] = x
    BY <1>2, <1>4, <2>1 DEF Lanes
  <2>2. CASE a \in 1..Len(c) /\ r[a] = c[a]
    BY <1>2, <2>2 DEF Lanes
  <2> QED
    BY <1>1, <2>1, <2>2
<1>6. \A a \in 1..Len(o) : o[a].id =< m + 1
  BY <1>2 DEF Lanes
<1>7. ASSUME NEW item, item.id \in Nat, item.id =< m, Ahead(item, c, o) PROVE Ahead(item, r, o)
  <2>1. ASSUME NEW a \in 1..Len(r) PROVE item.id < r[a].id
    <3>1. CASE r[a] = x
      BY <1>7, <3>1
    <3>2. CASE a \in 1..Len(c) /\ r[a] = c[a]
      BY <1>7, <3>2 DEF Ahead
    <3> QED
      BY <1>1, <3>1, <3>2
  <2> QED
    BY <1>7, <2>1 DEF Ahead
<1>8. Lanes(r, o, m + 1, d)
  BY <1>3, <1>5, <1>6 DEF Lanes
<1> QED
  BY <1>7, <1>8 DEF r

LEMMA StateAppended ==
  ASSUME NEW c \in Seq(Item), NEW o \in Seq(Item), NEW m \in Nat, NEW d,
         \A n \in d : n \in Nat /\ n =< m, Lanes(c, o, m, d),
         NEW x \in Item, x.id = m + 1, x.key # Critical,
         \A a \in 1..Len(o) : o[a].key # x.key
  PROVE  /\ Lanes(c, Append(o, x), m + 1, d)
         /\ \A item : item.id \in Nat /\ item.id =< m /\ Ahead(item, c, o)
              => Ahead(item, c, Append(o, x))
<1> DEFINE r == Append(o, x)
<1>1. \A a \in 1..Len(r) : (a = Len(o) + 1 /\ r[a] = x) \/ (a \in 1..Len(o) /\ r[a] = o[a])
  BY LastOrOld
<1>2. (\A a \in 1..Len(c) : c[a].id \in Nat) /\ (\A a \in 1..Len(o) : o[a].id \in Nat)
  BY ItemIsItem
<1>3. Sorted(r)
  <2>1. \A a \in 1..Len(o) : o[a].id < x.id
    BY <1>2 DEF Lanes
  <2> QED
    BY <2>1, SortedAppend DEF Lanes
<1> HIDE DEF r
<1>4. x.id \notin d /\ x.id \in Nat
  OBVIOUS
<1>5. ASSUME NEW a \in 1..Len(r)
      PROVE  /\ r[a].key # Critical /\ r[a].id =< m + 1 /\ r[a].id \notin d
             /\ \A b \in 1..Len(c) : c[b].id # r[a].id
  <2>1. CASE r[a] = x
    BY <1>2, <1>4, <2>1 DEF Lanes
  <2>2. CASE a \in 1..Len(o) /\ r[a] = o[a]
    BY <1>2, <2>2 DEF Lanes
  <2> QED
    BY <1>1, <2>1, <2>2
<1>6. \A a \in 1..Len(c) : c[a].id =< m + 1
  BY <1>2 DEF Lanes
<1>7. ASSUME NEW item, item.id \in Nat, item.id =< m, Ahead(item, c, o) PROVE Ahead(item, c, r)
  <2>1. ASSUME NEW a \in 1..Len(r)
        PROVE  item.id # r[a].id /\ (item.id > r[a].id => item.key = Critical)
    <3>1. CASE r[a] = x
      BY <1>7, <3>1
    <3>2. CASE a \in 1..Len(o) /\ r[a] = o[a]
      BY <1>7, <3>2 DEF Ahead
    <3> QED
      BY <1>1, <3>1, <3>2
  <2> QED
    BY <1>7, <2>1 DEF Ahead
<1>8. ASSUME NEW a \in 1..Len(r), NEW b \in 1..Len(r), r[a].key = r[b].key PROVE a = b
  <2>1. CASE a \in 1..Len(o) /\ r[a] = o[a]
    BY <1>1, <1>8, <2>1 DEF Lanes
  <2>2. CASE a = Len(o) + 1 /\ r[a] = x
    BY <1>1, <1>8, <2>2
  <2> QED
    BY <1>1, <2>1, <2>2
<1>9. Lanes(c, r, m + 1, d)
  BY <1>3, <1>5, <1>6, <1>8 DEF Lanes
<1> QED
  BY <1>7, <1>9 DEF r

LEMMA FieldsOfQ ==
  ASSUME NEW c, NEW o, NEW w, NEW m, NEW b, NEW x
  PROVE  LET q == Q(c, o, w, m, b, x) IN
           /\ q = [crit |-> q.crit, order |-> q.order, writing |-> q.writing,
                   messages |-> q.messages, bytes |-> q.bytes, closed |-> q.closed]
           /\ q.crit = c /\ q.order = o /\ q.writing = w
           /\ q.messages = m /\ q.bytes = b /\ q.closed = x
BY DEF Q

WithBudget(q, u, v) == [q EXCEPT !.messages = u, !.bytes = v]

LEMMA SetBudget ==
  ASSUME NEW c, NEW o, NEW w, NEW m, NEW b, NEW x, NEW u, NEW v
  PROVE  WithBudget(Q(c, o, w, m, b, x), u, v) = Q(c, o, w, u, v, x)
<1> DEFINE q == Q(c, o, w, m, b, x)
           r == [q EXCEPT !.messages = u, !.bytes = v]
           s == Q(c, o, w, u, v, x)
<1>1. q = [crit |-> c, order |-> o, writing |-> w, messages |-> m, bytes |-> b, closed |-> x]
  BY DEF Q
<1> HIDE DEF q
<1>2. r = [q EXCEPT !.messages = u, !.bytes = v]
  OBVIOUS
<1> HIDE DEF r
<1>3. r = s
  BY <1>1, <1>2, Zenon DEF Q
<1> QED
  BY <1>3 DEF q, r, WithBudget

WithCrit(q, u, v) == [q EXCEPT !.crit = u, !.writing = v]

LEMMA SetCrit ==
  ASSUME NEW c, NEW o, NEW w, NEW m, NEW b, NEW x, NEW u, NEW v
  PROVE  WithCrit(Q(c, o, w, m, b, x), u, v) = Q(u, o, v, m, b, x)
<1> DEFINE q == Q(c, o, w, m, b, x)
           r == [q EXCEPT !.crit = u, !.writing = v]
           s == Q(u, o, v, m, b, x)
<1>1. q = [crit |-> c, order |-> o, writing |-> w, messages |-> m, bytes |-> b, closed |-> x]
  BY DEF Q
<1> HIDE DEF q
<1>2. r = [q EXCEPT !.crit = u, !.writing = v]
  OBVIOUS
<1> HIDE DEF r
<1>3. r = s
  BY <1>1, <1>2, Zenon DEF Q
<1> QED
  BY <1>3 DEF q, r, WithCrit

WithOrder(q, u, v) == [q EXCEPT !.order = u, !.writing = v]

LEMMA SetOrder ==
  ASSUME NEW c, NEW o, NEW w, NEW m, NEW b, NEW x, NEW u, NEW v
  PROVE  WithOrder(Q(c, o, w, m, b, x), u, v) = Q(c, u, v, m, b, x)
<1> DEFINE q == Q(c, o, w, m, b, x)
           r == [q EXCEPT !.order = u, !.writing = v]
           s == Q(c, u, v, m, b, x)
<1>1. q = [crit |-> c, order |-> o, writing |-> w, messages |-> m, bytes |-> b, closed |-> x]
  BY DEF Q
<1> HIDE DEF q
<1>2. r = [q EXCEPT !.order = u, !.writing = v]
  OBVIOUS
<1> HIDE DEF r
<1>3. r = s
  BY <1>1, <1>2, Zenon DEF Q
<1> QED
  BY <1>3 DEF q, r, WithOrder

LEMMA SetOne ==
  ASSUME NEW c, NEW o, NEW w, NEW m, NEW b, NEW x, NEW u
  PROVE  /\ [Q(c, o, w, m, b, x) EXCEPT !.crit = u] = Q(u, o, w, m, b, x)
         /\ [Q(c, o, w, m, b, x) EXCEPT !.order = u] = Q(c, u, w, m, b, x)
         /\ [Q(c, o, w, m, b, x) EXCEPT !.writing = u] = Q(c, o, u, m, b, x)
BY DEF Q

LEMMA PlaceAndRelease ==
  ASSUME NEW c, NEW o, NEW w, NEW m, NEW b, NEW x, NEW item
  PROVE  /\ Place(Q(c, o, w, m, b, x), item) = Q(c, o, w, m + 1, b + item.size, x)
         /\ Release(Q(c, o, w, m, b, x), item) = Q(c, o, w, m - 1, b - item.size, x)
<1> DEFINE q == Q(c, o, w, m, b, x)
<1>1. q.messages = m /\ q.bytes = b
  BY FieldsOfQ
<1> HIDE DEF q
<1>2. /\ Place(q, item) = WithBudget(q, m + 1, b + item.size)
      /\ Release(q, item) = WithBudget(q, m - 1, b - item.size)
  BY <1>1, Zenon DEF Place, Release, WithBudget
<1>3. WithBudget(q, m + 1, b + item.size) = Q(c, o, w, m + 1, b + item.size, x)
  BY SetBudget DEF q
<1>4. WithBudget(q, m - 1, b - item.size) = Q(c, o, w, m - 1, b - item.size, x)
  BY SetBudget DEF q
<1> QED
  BY <1>2, <1>3, <1>4 DEF q

(* What the operations make of the fields of a queue.                       *)
LEMMA AdmitOnQ ==
  ASSUME NEW c, NEW o, NEW w, NEW m, NEW b, NEW x, NEW item
  PROVE  admitCritical(Q(c, o, w, m, b, x), item) = Q(Append(c, item), o, w, m + 1, b + item.size, x)
<1> DEFINE q == Q(c, o, w, m, b, x)
<1>0. q.crit = c /\ q.order = o /\ q.writing = w
  BY FieldsOfQ
<1> DEFINE r == Append(c, item)
<1>1. admitCritical(q, item) = Place([q EXCEPT !.crit = r], item)
  BY <1>0, Zenon DEF admitCritical
<1> HIDE DEF r
<1>2. [q EXCEPT !.crit = r] = Q(r, o, w, m, b, x)
  BY DEF Q
<1>3. Place(Q(r, o, w, m, b, x), item) = Q(r, o, w, m + 1, b + item.size, x)
  BY PlaceAndRelease
<1> QED
  BY <1>1, <1>2, <1>3 DEF r

LEMMA AddOnQ ==
  ASSUME NEW c, NEW o, NEW w, NEW m, NEW b, NEW x, NEW item
  PROVE  Place([Q(c, o, w, m, b, x) EXCEPT !.order = Append(@, item)], item)
           = Q(c, Append(o, item), w, m + 1, b + item.size, x)
<1> DEFINE q == Q(c, o, w, m, b, x)
<1>0. q.crit = c /\ q.order = o /\ q.writing = w
  BY FieldsOfQ
<1> DEFINE r == Append(o, item)
<1>1. Place([q EXCEPT !.order = Append(@, item)], item) = Place([q EXCEPT !.order = r], item)
  BY <1>0, Zenon
<1> HIDE DEF r
<1>2. [q EXCEPT !.order = r] = Q(c, r, w, m, b, x)
  BY DEF Q
<1>3. Place(Q(c, r, w, m, b, x), item) = Q(c, r, w, m + 1, b + item.size, x)
  BY PlaceAndRelease
<1> QED
  BY <1>1, <1>2, <1>3 DEF r

LEMMA RemoveOnQ ==
  ASSUME NEW c, NEW o, NEW w, NEW m, NEW b, NEW x, NEW i
  PROVE  removeStateElemLocked(Q(c, o, w, m, b, x), i) = Q(c, RemoveAt(o, i), w, m - 1, b - o[i].size, x)
<1> DEFINE q == Q(c, o, w, m, b, x)
<1>0. q.crit = c /\ q.order = o /\ q.writing = w
  BY FieldsOfQ
<1> DEFINE r == RemoveAt(o, i)
<1>1. removeStateElemLocked(q, i) = Release([q EXCEPT !.order = r], o[i])
  BY <1>0, Zenon DEF removeStateElemLocked
<1> HIDE DEF r
<1>2. [q EXCEPT !.order = r] = Q(c, r, w, m, b, x)
  BY DEF Q
<1>3. Release(Q(c, r, w, m, b, x), o[i]) = Q(c, r, w, m - 1, b - o[i].size, x)
  BY PlaceAndRelease
<1> QED
  BY <1>1, <1>2, <1>3 DEF r

LEMMA DequeueOnQ ==
  ASSUME NEW c, NEW o, NEW w, NEW m, NEW b, NEW x
  PROVE  dequeueLocked(Q(c, o, w, m, b, x))
           = IF c # <<>> THEN Q(Tail(c), o, Head(c), m, b, x) ELSE Q(c, Tail(o), Head(o), m, b, x)
<1> DEFINE q == Q(c, o, w, m, b, x)
<1>0. q.crit = c /\ q.order = o /\ q.writing = w
  BY FieldsOfQ
<1> HIDE DEF q
<1>1. dequeueLocked(q) = IF c # <<>> THEN WithCrit(q, Tail(c), Head(c))
                         ELSE WithOrder(q, Tail(o), Head(o))
  BY <1>0, Zenon DEF dequeueLocked, WithCrit, WithOrder
<1>2. WithCrit(q, Tail(c), Head(c)) = Q(Tail(c), o, Head(c), m, b, x)
  BY SetCrit DEF q
<1>3. WithOrder(q, Tail(o), Head(o)) = Q(c, Tail(o), Head(o), m, b, x)
  BY SetOrder DEF q
<1> QED
  BY <1>1, <1>2, <1>3 DEF q

LEMMA CompleteOnQ ==
  ASSUME NEW c, NEW o, NEW w, NEW m, NEW b, NEW x, NEW item
  PROVE  Release([Q(c, o, w, m, b, x) EXCEPT !.writing = NoItem], item)
           = Q(c, o, NoItem, m - 1, b - item.size, x)
<1> DEFINE q == Q(c, o, w, m, b, x)
<1>2. [q EXCEPT !.writing = NoItem] = Q(c, o, NoItem, m, b, x)
  BY DEF Q
<1>3. Release(Q(c, o, NoItem, m, b, x), item) = Q(c, o, NoItem, m - 1, b - item.size, x)
  BY PlaceAndRelease
<1> QED
  BY <1>2, <1>3

LEMMA ShapeIsQ ==
  ASSUME NEW q, Shape(q)
  PROVE  q = Q(q.crit, q.order, q.writing, q.messages, q.bytes, q.closed)
BY DEF Shape, Q

LEMMA ClosedIsWhole ==
  ASSUME NEW m, NEW d
  PROVE  /\ Whole(Closed, m, d) /\ \A item : Ahead(item, Closed.crit, Closed.order)
         /\ Closed.writing = NoItem /\ Closed.closed
<1>1. Closed = Q(<<>>, <<>>, NoItem, 0, 0, TRUE)
  BY DEF Closed, Q
<1>2. <<>> \in Seq(Item) /\ Len(<<>>) = 0 /\ SizeOf(<<>>) = 0 /\ NoItem.size = 0
  BY SizeEmpty, ItemIsItem
<1>3. /\ Closed.crit = <<>> /\ Closed.order = <<>> /\ Closed.writing = NoItem
      /\ Closed.messages = 0 /\ Closed.bytes = 0 /\ Closed.closed = TRUE
  BY DEF Closed
<1>4. Shape(Closed)
  BY <1>2, <1>3 DEF Shape, Closed
<1>5. Budget(Closed)
  BY <1>2, <1>3, OutboundConstants DEF Budget
<1>6. Lanes(<<>>, <<>>, m, d) /\ \A item : Ahead(item, <<>>, <<>>)
  BY <1>2 DEF Lanes, Ahead, Sorted
<1> QED
  BY <1>3, <1>4, <1>5, <1>6 DEF Whole

LEMMA MoreMade ==
  ASSUME NEW c \in Seq(Item), NEW o \in Seq(Item), NEW m \in Nat, NEW d, Lanes(c, o, m, d)
  PROVE  Lanes(c, o, m + 1, d)
<1>1. (\A a \in 1..Len(c) : c[a].id \in Nat) /\ (\A a \in 1..Len(o) : o[a].id \in Nat)
  BY ItemIsItem
<1> QED
  BY <1>1 DEF Lanes

(* A queue that is not closed is whole when its fields are.                 *)
LEMMA WholeQ ==
  ASSUME NEW c \in Seq(Item), NEW o \in Seq(Item), NEW w \in Item \cup {NoItem},
         NEW n, NEW b, NEW m, NEW d,
         n = Len(c) + Len(o) + (IF w = NoItem THEN 0 ELSE 1),
         b = SizeOf(c) + SizeOf(o) + w.size,
         n =< MaxMessages, b =< MaxBytes, Lanes(c, o, m, d)
  PROVE  Whole(Q(c, o, w, n, b, FALSE), m, d)
<1> DEFINE q == Q(c, o, w, n, b, FALSE)
<1>1. /\ q = [crit |-> q.crit, order |-> q.order, writing |-> q.writing,
              messages |-> q.messages, bytes |-> q.bytes, closed |-> q.closed]
      /\ q.crit = c /\ q.order = o /\ q.writing = w
      /\ q.messages = n /\ q.bytes = b /\ q.closed = FALSE
  BY DEF Q
<1> HIDE DEF q
<1>2. Shape(q)
  BY <1>1 DEF Shape
<1>3. Budget(q)
  BY <1>1 DEF Budget
<1> QED
  BY <1>1, <1>2, <1>3 DEF Whole, q

LEMMA OpenQueue ==
  ASSUME NEW q, NEW m, NEW d, Whole(q, m, d)
  PROVE  /\ q = Q(q.crit, q.order, q.writing, q.messages, q.bytes, q.closed)
         /\ q.crit \in Seq(Item) /\ q.order \in Seq(Item) /\ q.writing \in Item \cup {NoItem}
         /\ q.messages = Len(q.crit) + Len(q.order) + (IF q.writing = NoItem THEN 0 ELSE 1)
         /\ q.bytes = SizeOf(q.crit) + SizeOf(q.order) + q.writing.size
         /\ q.messages =< MaxMessages /\ q.bytes =< MaxBytes
         /\ Lanes(q.crit, q.order, m, d)
         /\ q.messages \in Nat /\ q.bytes \in Nat /\ q.writing.size \in Nat
         /\ q.closed \in BOOLEAN /\ (q.closed => q = Closed)
<1>1. q.writing.size \in Nat
  BY ItemIsItem DEF Whole, Shape
<1>2. Len(q.crit) \in Nat /\ Len(q.order) \in Nat /\ SizeOf(q.crit) \in Nat /\ SizeOf(q.order) \in Nat
  BY SizeType DEF Whole, Shape
<1>3. q.messages \in Nat /\ q.bytes \in Nat
  <2> DEFINE k == IF q.writing = NoItem THEN 0 ELSE 1
  <2>1. k \in Nat
    OBVIOUS
  <2>2. /\ q.messages = Len(q.crit) + Len(q.order) + k
        /\ q.bytes = SizeOf(q.crit) + SizeOf(q.order) + q.writing.size
    BY DEF Whole, Budget
  <2> HIDE DEF k
  <2>3. q.messages \in Nat
    <3> DEFINE e1 == Len(q.crit)
               e2 == Len(q.order)
               e3 == q.messages
    <3>1. e1 \in Nat /\ e2 \in Nat /\ e3 = e1 + e2 + k
      BY <1>2, <2>2
    <3> HIDE DEF e1, e2, e3
    <3>2. e3 \in Nat
      BY <2>1, <3>1
    <3> QED
      BY <3>2 DEF e3
  <2>4. q.bytes \in Nat
    BY <1>1, <1>2, <2>2
  <2> QED
    BY <2>3, <2>4
<1> QED
  BY <1>1, <1>3, ShapeIsQ DEF Whole, Budget, Shape

LEMMA Removes ==
  ASSUME NEW q, NEW m, NEW d, Whole(q, m, d), NEW i \in 1..Len(q.order)
  PROVE  /\ Thinned(removeStateElemLocked(q, i), q, m, d)
         /\ Less(removeStateElemLocked(q, i).order, q.order, i)
<1>0. PICK c, o, w, n, b, x :
        /\ c = q.crit /\ o = q.order /\ w = q.writing /\ n = q.messages /\ b = q.bytes
        /\ x = q.closed
  OBVIOUS
<1>1. /\ q = Q(c, o, w, n, b, x)
      /\ c \in Seq(Item) /\ o \in Seq(Item) /\ w \in Item \cup {NoItem}
      /\ n = Len(c) + Len(o) + (IF w = NoItem THEN 0 ELSE 1)
      /\ b = SizeOf(c) + SizeOf(o) + w.size
      /\ n =< MaxMessages /\ b =< MaxBytes
      /\ Lanes(c, o, m, d)
      /\ w.size \in Nat
  BY <1>0, OpenQueue
<1>a. x = FALSE
  <2>1. q # Closed
    BY DEF Closed
  <2> QED
    BY <1>0, <2>1, OpenQueue
<1> DEFINE r == RemoveAt(o, i)
           e == Q(c, r, w, n - 1, b - o[i].size, FALSE)
<1>2. removeStateElemLocked(q, i) = e
  <2>1. removeStateElemLocked(Q(c, o, w, n, b, x), i)
          = Q(c, RemoveAt(o, i), w, n - 1, b - o[i].size, x)
    BY RemoveOnQ
  <2> QED
    BY <1>1, <1>a, <2>1
<1>3. r \in Seq(Item) /\ Less(r, o, i)
  BY <1>0, <1>1, RemoveAtLess
<1> HIDE DEF r
<1>4. SizeOf(r) = SizeOf(o) - o[i].size /\ Len(r) = Len(o) - 1 /\ SizeOf(o) \in Nat
      /\ SizeOf(c) \in Nat /\ o[i].size \in Nat
  <2>1. i \in 1..Len(o) /\ Len(r) = Len(o) - 1
    BY <1>3 DEF Less
  <2>2. SizeOf(r) = SizeOf(o) - o[i].size /\ SizeOf(o) \in Nat
    BY <1>1, <1>3, SizeLess
  <2>3. SizeOf(c) \in Nat
    BY <1>1, SizeType
  <2>4. o[i].size \in Nat
    BY <1>1, <2>1, ItemIsItem
  <2> QED
    BY <2>1, <2>2, <2>3, <2>4
<1>5. Lanes(c, r, m, d) /\ \A item : Ahead(item, c, o) => Ahead(item, c, r)
  BY <1>1, <1>3, StateLess
<1>6. /\ n - 1 = Len(c) + Len(r) + (IF w = NoItem THEN 0 ELSE 1)
      /\ b - o[i].size = SizeOf(c) + SizeOf(r) + w.size
      /\ n - 1 =< MaxMessages /\ b - o[i].size =< MaxBytes
  <2>1. Len(c) \in Nat /\ Len(o) \in Nat /\ MaxMessages \in Nat /\ MaxBytes \in Nat
    BY <1>1, OutboundConstants
  <2> DEFINE k == IF w = NoItem THEN 0 ELSE 1
  <2>2. k \in Nat
    OBVIOUS
  <2>3. n = Len(c) + Len(o) + k
    BY <1>1
  <2> HIDE DEF k
  <2>4. n - 1 = Len(c) + Len(r) + k /\ n - 1 =< MaxMessages
    BY <1>1, <1>4, <2>1, <2>2, <2>3
  <2>5. b - o[i].size = SizeOf(c) + SizeOf(r) + w.size /\ b - o[i].size =< MaxBytes
    <3> DEFINE z == o[i].size
               y == w.size
               e1 == SizeOf(c)
               e2 == SizeOf(o)
               e3 == SizeOf(r)
    <3>1. /\ z \in Nat /\ y \in Nat /\ e1 \in Nat /\ e2 \in Nat /\ e3 = e2 - z
          /\ b = e1 + e2 + y /\ b =< MaxBytes
      BY <1>1, <1>4
    <3> HIDE DEF z, y, e1, e2, e3
    <3>2. b - z = e1 + e3 + y /\ b - z =< MaxBytes
      BY <2>1, <3>1
    <3> QED
      BY <3>2 DEF z, y, e1, e2, e3
  <2> QED
    BY <2>4, <2>5 DEF k
<1>7. Whole(e, m, d)
  BY <1>1, <1>3, <1>5, <1>6, WholeQ
<1>8. e.crit = c /\ e.order = r /\ e.writing = w /\ e.closed = FALSE
  BY DEF Q
<1> HIDE DEF e
<1>9. Thinned(e, q, m, d)
  BY <1>0, <1>5, <1>7, <1>8, <1>a DEF Thinned
<1> QED
  BY <1>0, <1>2, <1>3, <1>8, <1>9

IsEvicting(f, q, n) ==
  f = [k \in 0..n |-> IF k = 0 THEN q ELSE removeStateElemLocked(f[k - 1], 1)]

LEMMA EvictingExists ==
  ASSUME NEW q, NEW n \in Nat
  PROVE  \E f : IsEvicting(f, q, n)
<1> DEFINE T == {m \in Nat : \E f : IsEvicting(f, q, m)}
<1>1. 0 \in T
  <2> DEFINE f == [k \in 0..0 |-> q]
  <2>1. IsEvicting(f, q, 0)
    BY DEF IsEvicting
  <2> QED
    BY <2>1
<1>2. ASSUME NEW m \in Nat, m \in T PROVE m + 1 \in T
  <2>1. PICK f : f = [k \in 0..m |-> IF k = 0 THEN q ELSE removeStateElemLocked(f[k - 1], 1)]
    BY <1>2 DEF IsEvicting
  <2> DEFINE g == [k \in 0..(m + 1) |->
                     IF k = m + 1 THEN removeStateElemLocked(f[m], 1) ELSE f[k]]
  <2>2. ASSUME NEW k \in 0..(m + 1)
        PROVE  g[k] = IF k = 0 THEN q ELSE removeStateElemLocked(g[k - 1], 1)
    <3>1. CASE k = 0
      BY <2>1, <3>1
    <3>2. CASE k = m + 1
      BY <3>2
    <3>3. CASE k # 0 /\ k # m + 1
      <4>1. k \in 0..m /\ k - 1 \in 0..m /\ k - 1 \in 0..(m + 1) /\ k - 1 # m + 1
        BY <3>3
      <4>2. f[k] = removeStateElemLocked(f[k - 1], 1)
        BY <2>1, <3>3, <4>1
      <4> QED
        BY <3>3, <4>1, <4>2
    <3> QED
      BY <3>1, <3>2, <3>3
  <2>3. g = [k \in 0..(m + 1) |-> IF k = 0 THEN q ELSE removeStateElemLocked(g[k - 1], 1)]
    <3>1. g = [k \in 0..(m + 1) |-> g[k]]
      OBVIOUS
    <3> HIDE DEF g
    <3> QED
      BY <2>2, <3>1
  <2> HIDE DEF g
  <2> QED
    BY <2>3 DEF IsEvicting
<1> HIDE DEF T
<1>3. n \in T
  BY <1>1, <1>2, SetInduction
<1> QED
  BY <1>3 DEF T

(* Eviction takes states only.                                              *)
LEMMA EvictedThins ==
  ASSUME NEW q, NEW m, NEW d, Whole(q, m, d), NEW size
  PROVE  Thinned(Evicted(q, size), q, m, d)
<1> DEFINE l == Len(q.order)
           F(f) == [n \in 0..Len(q.order) |->
                      IF n = 0 THEN q ELSE removeStateElemLocked(f[n - 1], 1)]
           f == CHOOSE f : f = F(f)
           enough == {n \in 0..Len(q.order) : ~wouldOverflow(f[n], size)}
           k == IF enough = {} THEN Len(q.order) ELSE Min(enough)
<1>1. Evicted(q, size) = f[k]
  BY DEF Evicted
<1>2. l \in Nat
  BY OpenQueue
<1>3. f = F(f)
  <2>1. \E g : IsEvicting(g, q, l)
    BY <1>2, EvictingExists
  <2>2. \E g : g = F(g)
    BY <2>1 DEF IsEvicting
  <2> QED
    BY <2>2
<1> HIDE DEF f
<1>4. f[0] = q /\ \A n \in 1..l : f[n] = removeStateElemLocked(f[n - 1], 1)
  BY <1>2, <1>3
<1>5. k \in 0..l
  <2>1. CASE enough = {}
    BY <1>2, <2>1
  <2>2. CASE enough # {}
    <3>1. enough \in SUBSET Nat
      OBVIOUS
    <3>2. \E n \in enough : \A y \in enough : n =< y
      BY <2>2, <3>1, LeastElement
    <3>3. Min(enough) \in enough
      BY <3>2 DEF Min
    <3> QED
      BY <2>2, <3>3
  <2> QED
    BY <2>1, <2>2
<1> HIDE DEF k, l
<1> DEFINE T == {n \in Nat : n =< l => Thinned(f[n], q, m, d) /\ Len(f[n].order) = l - n}
<1>6. Nat \subseteq T
  <2>1. 0 \in T
    <3>1. Thinned(q, q, m, d)
      BY DEF Thinned
    <3> QED
      BY <1>2, <1>4, <3>1 DEF l
  <2>2. ASSUME NEW n \in Nat, n \in T PROVE n + 1 \in T
    <3>1. SUFFICES ASSUME n + 1 =< l
                   PROVE  Thinned(f[n + 1], q, m, d) /\ Len(f[n + 1].order) = l - (n + 1)
      OBVIOUS
    <3> DEFINE e == f[n]
               g == removeStateElemLocked(e, 1)
    <3>2. Thinned(e, q, m, d) /\ Len(e.order) = l - n /\ f[n + 1] = g
      <4>1. n =< l /\ n + 1 \in 1..l /\ (n + 1) - 1 = n
        BY <1>2, <3>1
      <4> QED
        BY <1>4, <2>2, <4>1
    <3>3. 1 \in 1..Len(e.order)
      BY <1>2, <3>1, <3>2
    <3>4. Thinned(g, e, m, d) /\ Less(g.order, e.order, 1)
      BY <3>2, <3>3, Removes DEF Thinned
    <3> HIDE DEF g, e
    <3>5. Thinned(g, q, m, d)
      BY <3>2, <3>4 DEF Thinned
    <3>6. Len(g.order) = l - (n + 1)
      BY <1>2, <3>2, <3>4 DEF Less
    <3> QED
      BY <3>2, <3>5, <3>6
  <2> HIDE DEF T
  <2> QED
    BY <2>1, <2>2, SetInduction
<1>7. Thinned(f[k], q, m, d)
  BY <1>2, <1>5, <1>6
<1> QED
  BY <1>1, <1>7

(* A critical item that fits joins the back of its lane.                    *)
LEMMA Admits ==
  ASSUME NEW q, NEW m \in Nat, NEW d, \A n \in d : n \in Nat /\ n =< m,
         Whole(q, m, d), ~q.closed,
         NEW y \in Item, y.id = m + 1, y.key = Critical, ~wouldOverflow(q, y.size)
  PROVE  LET e == admitCritical(q, y) IN
           /\ Whole(e, m + 1, d)
           /\ e.crit = Append(q.crit, y) /\ e.writing = q.writing /\ ~e.closed
           /\ \A item : item.id \in Nat /\ item.id =< m /\ Ahead(item, q.crit, q.order)
                => Ahead(item, e.crit, e.order)
<1>0. PICK c, o, w, n, b :
        c = q.crit /\ o = q.order /\ w = q.writing /\ n = q.messages /\ b = q.bytes
  OBVIOUS
<1>1. /\ q = Q(c, o, w, n, b, FALSE)
      /\ c \in Seq(Item) /\ o \in Seq(Item) /\ w \in Item \cup {NoItem}
      /\ n = Len(c) + Len(o) + (IF w = NoItem THEN 0 ELSE 1)
      /\ b = SizeOf(c) + SizeOf(o) + w.size
      /\ n \in Nat /\ b \in Nat
      /\ Lanes(c, o, m, d)
      /\ w.size \in Nat
  BY <1>0, OpenQueue
<1> DEFINE r == Append(c, y)
           e == Q(r, o, w, n + 1, b + y.size, FALSE)
<1>2. admitCritical(q, y) = e
  <2>0. PICK x : x = FALSE
    OBVIOUS
  <2>1. admitCritical(Q(c, o, w, n, b, x), y) = Q(Append(c, y), o, w, n + 1, b + y.size, x)
    BY AdmitOnQ
  <2> QED
    BY <1>1, <2>0, <2>1
<1>3. r \in Seq(Item) /\ Len(r) = Len(c) + 1 /\ SizeOf(r) = SizeOf(c) + y.size
  BY <1>1, LastOrOld, SizeAppend
<1>4. n + 1 =< MaxMessages /\ b + y.size =< MaxBytes
  <2>1. ~(n + 1 > MaxMessages) /\ ~(b + y.size > MaxBytes)
    BY <1>0 DEF wouldOverflow
  <2>2. MaxMessages \in Nat /\ MaxBytes \in Nat /\ y.size \in Nat
    BY OutboundConstants, ItemIsItem
  <2> QED
    BY <1>1, <2>1, <2>2
<1>5. /\ Lanes(r, o, m + 1, d)
      /\ \A item : item.id \in Nat /\ item.id =< m /\ Ahead(item, c, o) => Ahead(item, r, o)
  BY <1>1, CriticalAppended
<1> HIDE DEF r
<1>6. n + 1 = Len(r) + Len(o) + (IF w = NoItem THEN 0 ELSE 1)
  <2> DEFINE k == IF w = NoItem THEN 0 ELSE 1
             e1 == Len(c)
             e2 == Len(o)
  <2>1. k \in Nat /\ e1 \in Nat /\ e2 \in Nat /\ n = e1 + e2 + k /\ Len(r) = e1 + 1
    BY <1>1, <1>3
  <2> HIDE DEF k, e1, e2
  <2>2. n + 1 = Len(r) + e2 + k
    BY <2>1
  <2> QED
    BY <2>2 DEF k, e2
<1>7. b + y.size = SizeOf(r) + SizeOf(o) + w.size
  <2> DEFINE e1 == SizeOf(c)
             e2 == SizeOf(o)
             e3 == w.size
             e4 == y.size
  <2>1. e1 \in Nat /\ e2 \in Nat /\ e3 \in Nat /\ e4 \in Nat /\ b = e1 + e2 + e3
        /\ SizeOf(r) = e1 + e4
    BY <1>1, <1>3, SizeType, ItemIsItem
  <2> HIDE DEF e1, e2, e3, e4
  <2>2. b + e4 = SizeOf(r) + e2 + e3
    BY <2>1
  <2> QED
    BY <2>2 DEF e2, e3, e4
<1>8. Whole(e, m + 1, d)
  BY <1>1, <1>3, <1>4, <1>5, <1>6, <1>7, WholeQ
<1>9. e.crit = r /\ e.order = o /\ e.writing = w /\ e.closed = FALSE
  BY DEF Q
<1> HIDE DEF e
<1> QED
  BY <1>0, <1>2, <1>5, <1>8, <1>9 DEF r

(* A state joins the back of its lane, or is lost.                          *)
LEMMA AdmitsState ==
  ASSUME NEW q, NEW m \in Nat, NEW d, \A n \in d : n \in Nat /\ n =< m,
         Whole(q, m, d), ~q.closed,
         NEW y \in Item, y.id = m + 1, y.key # Critical,
         \A a \in 1..Len(q.order) : q.order[a].key # y.key
  PROVE  LET e == admitState(q, y) IN
           /\ Whole(e, m + 1, d)
           /\ e.crit = q.crit /\ e.writing = q.writing /\ ~e.closed
           /\ \A item : item.id \in Nat /\ item.id =< m /\ Ahead(item, q.crit, q.order)
                => Ahead(item, e.crit, e.order)
<1>a. CASE wouldOverflow(q, y.size)
  <2>1. admitState(q, y) = q
    BY <1>a DEF admitState
  <2>2. Lanes(q.crit, q.order, m + 1, d)
    BY MoreMade, OpenQueue
  <2> QED
    BY <2>1, <2>2 DEF Whole
<1>b. CASE ~wouldOverflow(q, y.size)
  <2>0. PICK c, o, w, n, b :
          c = q.crit /\ o = q.order /\ w = q.writing /\ n = q.messages /\ b = q.bytes
    OBVIOUS
  <2>1. /\ q = Q(c, o, w, n, b, FALSE)
        /\ c \in Seq(Item) /\ o \in Seq(Item) /\ w \in Item \cup {NoItem}
        /\ n = Len(c) + Len(o) + (IF w = NoItem THEN 0 ELSE 1)
        /\ b = SizeOf(c) + SizeOf(o) + w.size
        /\ n \in Nat /\ b \in Nat
        /\ Lanes(c, o, m, d)
        /\ w.size \in Nat
    BY <2>0, OpenQueue
  <2> DEFINE r == Append(o, y)
             e == Q(c, r, w, n + 1, b + y.size, FALSE)
  <2>2. admitState(q, y) = e
    <3>0. PICK x : x = FALSE
      OBVIOUS
    <3>1. Place([Q(c, o, w, n, b, x) EXCEPT !.order = Append(@, y)], y)
            = Q(c, Append(o, y), w, n + 1, b + y.size, x)
      BY AddOnQ
    <3>2. admitState(q, y) = Place([q EXCEPT !.order = Append(@, y)], y)
      BY <1>b DEF admitState
    <3> QED
      BY <2>1, <3>0, <3>1, <3>2
  <2>3. r \in Seq(Item) /\ Len(r) = Len(o) + 1 /\ SizeOf(r) = SizeOf(o) + y.size
    BY <2>1, LastOrOld, SizeAppend
  <2>4. n + 1 =< MaxMessages /\ b + y.size =< MaxBytes
    <3>1. ~(n + 1 > MaxMessages) /\ ~(b + y.size > MaxBytes)
      BY <1>b, <2>0 DEF wouldOverflow
    <3>2. MaxMessages \in Nat /\ MaxBytes \in Nat /\ y.size \in Nat
      BY OutboundConstants, ItemIsItem
    <3> QED
      BY <2>1, <3>1, <3>2
  <2>5. /\ Lanes(c, r, m + 1, d)
        /\ \A item : item.id \in Nat /\ item.id =< m /\ Ahead(item, c, o) => Ahead(item, c, r)
    BY <2>0, <2>1, StateAppended
  <2> HIDE DEF r
  <2>6. n + 1 = Len(c) + Len(r) + (IF w = NoItem THEN 0 ELSE 1)
    <3> DEFINE k == IF w = NoItem THEN 0 ELSE 1
               e1 == Len(c)
               e2 == Len(o)
    <3>1. k \in Nat /\ e1 \in Nat /\ e2 \in Nat /\ n = e1 + e2 + k /\ Len(r) = e2 + 1
      BY <2>1, <2>3
    <3> HIDE DEF k, e1, e2
    <3>2. n + 1 = e1 + Len(r) + k
      BY <3>1
    <3> QED
      BY <3>2 DEF k, e1
  <2>7. b + y.size = SizeOf(c) + SizeOf(r) + w.size
    <3> DEFINE e1 == SizeOf(c)
               e2 == SizeOf(o)
               e3 == w.size
               e4 == y.size
    <3>1. e1 \in Nat /\ e2 \in Nat /\ e3 \in Nat /\ e4 \in Nat /\ b = e1 + e2 + e3
          /\ SizeOf(r) = e2 + e4
      BY <2>1, <2>3, SizeType, ItemIsItem
    <3> HIDE DEF e1, e2, e3, e4
    <3>2. b + e4 = e1 + SizeOf(r) + e3
      BY <3>1
    <3> QED
      BY <3>2 DEF e1, e3, e4
  <2>8. Whole(e, m + 1, d)
    BY <2>1, <2>3, <2>4, <2>5, <2>6, <2>7, WholeQ
  <2>9. e.crit = c /\ e.order = r /\ e.writing = w /\ e.closed = FALSE
    BY DEF Q
  <2> HIDE DEF e
  <2> QED
    BY <2>0, <2>2, <2>5, <2>8, <2>9
<1> QED
  BY <1>a, <1>b

(* Afterwards no state is queued under the key, and what is queued is none  *)
(* of those that were.                                                      *)
LEMMA WithoutThins ==
  ASSUME NEW q, NEW m, NEW d, Whole(q, m, d), NEW key
  PROVE  LET e == WithoutState(q, key) IN
           /\ Thinned(e, q, m, d)
           /\ \A a \in 1..Len(e.order) : e.order[a].key # key
           /\ \A a \in 1..Len(q.order), x \in 1..Len(e.order) :
                q.order[a].key = key => e.order[x].id # q.order[a].id
<1>1. q.order \in Seq(Item) /\ Lanes(q.crit, q.order, m, d) /\ q.crit \in Seq(Item)
  BY OpenQueue
<1>2. CASE QueuedState(q, key) = {}
  <2>1. WithoutState(q, key) = q /\ \A a \in 1..Len(q.order) : q.order[a].key # key
    BY <1>2 DEF WithoutState, QueuedState
  <2>2. Thinned(q, q, m, d)
    BY DEF Thinned
  <2> QED
    BY <2>1, <2>2
<1>3. CASE QueuedState(q, key) # {}
  <2> DEFINE i == CHOOSE i \in QueuedState(q, key) : TRUE
             e == removeStateElemLocked(q, i)
  <2>1. i \in QueuedState(q, key)
    BY <1>3
  <2>2. i \in 1..Len(q.order) /\ q.order[i].key = key
    BY <2>1 DEF QueuedState
  <2>3. WithoutState(q, key) = e
    BY <1>3 DEF WithoutState
  <2> HIDE DEF i
  <2>4. Thinned(e, q, m, d) /\ Less(e.order, q.order, i)
    BY <2>2, Removes
  <2> HIDE DEF e
  <2>5. e.order \in Seq(Item)
    BY <2>4, OpenQueue DEF Thinned
  <2>6. \A a \in 1..Len(e.order) :
          e.order[a].id # q.order[i].id /\ e.order[a].key # q.order[i].key
    BY <1>1, <2>4, <2>5, StateLess
  <2>7. \A a \in 1..Len(q.order) : q.order[a].key = key => a = i
    BY <1>1, <2>2 DEF Lanes
  <2> QED
    BY <2>2, <2>3, <2>4, <2>6, <2>7
<1> QED
  BY <1>2, <1>3

(* What is on the wire before an item that is sent now.                     *)
Ordered(earlier, item) ==
  earlier.id > item.id => earlier.key = Critical /\ item.key # Critical

(* e is q with an item of its lanes in the hand of the pump.                *)
Taken(e, q, m, d) ==
  /\ Whole(e, m, d)
  /\ ~e.closed
  /\ e.writing \in Item /\ e.writing.id =< m /\ e.writing.id \notin d
  /\ Ahead(e.writing, e.crit, e.order)
  /\ \A item : Ahead(item, q.crit, q.order) => Ahead(item, e.crit, e.order)
  /\ \A item : item.id \in Nat /\ Ahead(item, q.crit, q.order) => Ordered(item, e.writing)
  /\ \A a \in 1..Len(q.crit) :
       q.crit[a] = e.writing \/ \E x \in 1..Len(e.crit) : e.crit[x] = q.crit[a]

LEMMA DequeuesCritical ==
  ASSUME NEW q, NEW m, NEW d, Whole(q, m, d), ~q.closed, q.writing = NoItem, q.crit # <<>>
  PROVE  Taken(dequeueLocked(q), q, m, d)
<1>0. PICK c, o, n, b, x :
        c = q.crit /\ o = q.order /\ n = q.messages /\ b = q.bytes /\ x = q.closed
  OBVIOUS
<1>w. PICK w : w = NoItem
  OBVIOUS
<1>1. /\ q = Q(c, o, w, n, b, x)
      /\ c \in Seq(Item) /\ o \in Seq(Item) /\ c # <<>>
      /\ n = Len(c) + Len(o) + 0
      /\ b = SizeOf(c) + SizeOf(o) + w.size
      /\ n =< MaxMessages /\ b =< MaxBytes
      /\ Lanes(c, o, m, d)
  BY <1>0, <1>w, OpenQueue
<1>a. x = FALSE /\ w.size = 0
  BY <1>0, <1>w, OpenQueue, ItemIsItem
<1> DEFINE r == Tail(c)
           y == Head(c)
           e == Q(r, o, y, n, b, FALSE)
<1>2. dequeueLocked(q) = e
  <2>1. dequeueLocked(Q(c, o, w, n, b, x))
          = IF c # <<>> THEN Q(Tail(c), o, Head(c), n, b, x) ELSE Q(c, Tail(o), Head(o), n, b, x)
    BY DequeueOnQ
  <2> QED
    BY <1>1, <1>a, <2>1
<1>3. r \in Seq(Item) /\ Less(r, c, 1) /\ y = c[1] /\ y \in Item
  BY <1>1, TailLess
<1> HIDE DEF r, y
<1>4. SizeOf(r) = SizeOf(c) - c[1].size /\ Len(r) = Len(c) - 1
  BY <1>1, <1>3, SizeLess DEF Less
<1>5. Lanes(r, o, m, d) /\ \A item : Ahead(item, c, o) => Ahead(item, r, o)
  BY <1>1, <1>3, CriticalLess
<1>6. n = Len(r) + Len(o) + (IF y = NoItem THEN 0 ELSE 1)
  <2>1. y # NoItem /\ Len(c) \in Nat /\ Len(o) \in Nat
    BY <1>1, <1>3, ItemIsItem
  <2> QED
    BY <1>1, <1>4, <2>1
<1>7. b = SizeOf(r) + SizeOf(o) + y.size
  <2> DEFINE e1 == SizeOf(c)
             e2 == SizeOf(o)
             e3 == SizeOf(r)
             z == y.size
  <2>1. e1 \in Nat /\ e2 \in Nat /\ z \in Nat /\ e3 = e1 - z /\ b = e1 + e2 + 0
    BY <1>1, <1>3, <1>4, <1>a, SizeType, ItemIsItem
  <2> HIDE DEF e1, e2, e3, z
  <2>2. b = e3 + e2 + z
    BY <2>1
  <2> QED
    BY <2>2 DEF e2, e3, z
<1>8. Whole(e, m, d)
  BY <1>1, <1>3, <1>5, <1>6, <1>7, WholeQ
<1>9. e.crit = r /\ e.order = o /\ e.writing = y /\ e.closed = FALSE
  BY DEF Q
<1>10. 1 \in 1..Len(c) /\ Len(c) \in Nat
  BY <1>1, <1>3 DEF Less
<1>11. y.id =< m /\ y.id \notin d /\ y.key = Critical
  BY <1>1, <1>3, <1>10 DEF Lanes
<1>12. Ahead(y, r, o)
  <2>1. ASSUME NEW a \in 1..Len(r) PROVE y.id < r[a].id
    <3>1. PICK k \in 1..Len(c) : r[a] = c[k] /\ k # 1
      BY <1>1, <1>3, SourceIndex
    <3>2. 1 < k
      BY <1>10, <3>1
    <3> QED
      BY <1>1, <1>3, <1>10, <3>1, <3>2 DEF Lanes, Sorted
  <2>2. \A a \in 1..Len(o) : y.id # o[a].id
    BY <1>1, <1>3, <1>10 DEF Lanes
  <2> QED
    BY <1>11, <2>1, <2>2 DEF Ahead
<1>13. ASSUME NEW item, item.id \in Nat, Ahead(item, c, o) PROVE Ordered(item, y)
  <2>1. item.id < y.id
    BY <1>3, <1>10, <1>13 DEF Ahead
  <2>2. y.id \in Nat
    BY <1>3, ItemIsItem
  <2> QED
    BY <1>13, <2>1, <2>2 DEF Ordered
<1>14. ASSUME NEW a \in 1..Len(c) PROVE c[a] = y \/ \E k \in 1..Len(r) : r[k] = c[a]
  <2>1. CASE a = 1
    BY <1>3, <2>1
  <2>2. CASE a # 1
    <3>1. a - 1 \in 1..Len(r) /\ ~(a - 1 < 1) /\ (a - 1) + 1 = a
      BY <1>4, <1>10, <2>2
    <3>2. r[a - 1] = c[a]
      BY <1>3, <3>1 DEF Less
    <3> QED
      BY <3>1, <3>2
  <2> QED
    BY <2>1, <2>2
<1> HIDE DEF e
<1> QED
  BY <1>0, <1>2, <1>3, <1>5, <1>8, <1>9, <1>11, <1>12, <1>13, <1>14 DEF Taken

LEMMA DequeuesState ==
  ASSUME NEW q, NEW m, NEW d, Whole(q, m, d), ~q.closed, q.writing = NoItem,
         q.crit = <<>>, q.order # <<>>
  PROVE  Taken(dequeueLocked(q), q, m, d)
<1>0. PICK c, o, n, b, x :
        c = q.crit /\ o = q.order /\ n = q.messages /\ b = q.bytes /\ x = q.closed
  OBVIOUS
<1>w. PICK w : w = NoItem
  OBVIOUS
<1>1. /\ q = Q(c, o, w, n, b, x)
      /\ c \in Seq(Item) /\ o \in Seq(Item) /\ c = <<>> /\ o # <<>>
      /\ n = Len(c) + Len(o) + 0
      /\ b = SizeOf(c) + SizeOf(o) + w.size
      /\ n =< MaxMessages /\ b =< MaxBytes
      /\ Lanes(c, o, m, d)
  BY <1>0, <1>w, OpenQueue
<1>a. x = FALSE /\ w.size = 0
  BY <1>0, <1>w, OpenQueue, ItemIsItem
<1> DEFINE r == Tail(o)
           y == Head(o)
           e == Q(c, r, y, n, b, FALSE)
<1>2. dequeueLocked(q) = e
  <2>1. dequeueLocked(Q(c, o, w, n, b, x))
          = IF c # <<>> THEN Q(Tail(c), o, Head(c), n, b, x) ELSE Q(c, Tail(o), Head(o), n, b, x)
    BY DequeueOnQ
  <2> QED
    BY <1>1, <1>a, <2>1
<1>3. r \in Seq(Item) /\ Less(r, o, 1) /\ y = o[1] /\ y \in Item
  BY <1>1, TailLess
<1> HIDE DEF r, y
<1>4. SizeOf(r) = SizeOf(o) - o[1].size /\ Len(r) = Len(o) - 1
  BY <1>1, <1>3, SizeLess DEF Less
<1>5. Lanes(c, r, m, d) /\ \A item : Ahead(item, c, o) => Ahead(item, c, r)
  BY <1>1, <1>3, StateLess
<1>6. n = Len(c) + Len(r) + (IF y = NoItem THEN 0 ELSE 1)
  <2>1. y # NoItem /\ Len(c) \in Nat /\ Len(o) \in Nat
    BY <1>1, <1>3, ItemIsItem
  <2> QED
    BY <1>1, <1>4, <2>1
<1>7. b = SizeOf(c) + SizeOf(r) + y.size
  <2> DEFINE e1 == SizeOf(c)
             e2 == SizeOf(o)
             e3 == SizeOf(r)
             z == y.size
  <2>1. e1 \in Nat /\ e2 \in Nat /\ z \in Nat /\ e3 = e2 - z /\ b = e1 + e2 + 0
    BY <1>1, <1>3, <1>4, <1>a, SizeType, ItemIsItem
  <2> HIDE DEF e1, e2, e3, z
  <2>2. b = e1 + e3 + z
    BY <2>1
  <2> QED
    BY <2>2 DEF e1, e3, z
<1>8. Whole(e, m, d)
  BY <1>1, <1>3, <1>5, <1>6, <1>7, WholeQ
<1>9. e.crit = c /\ e.order = r /\ e.writing = y /\ e.closed = FALSE
  BY DEF Q
<1>10. 1 \in 1..Len(o) /\ Len(o) \in Nat /\ Len(c) = 0
  BY <1>1, <1>3 DEF Less
<1>11. y.id =< m /\ y.id \notin d /\ y.key # Critical
  BY <1>1, <1>3, <1>10 DEF Lanes
<1>12. Ahead(y, c, r)
  <2>1. ASSUME NEW a \in 1..Len(r) PROVE y.id # r[a].id /\ ~(y.id > r[a].id)
    <3>1. PICK k \in 1..Len(o) : r[a] = o[k] /\ k # 1
      BY <1>1, <1>3, SourceIndex
    <3>2. 1 < k
      BY <1>10, <3>1
    <3>3. y.id < o[k].id /\ y.id \in Nat /\ o[k].id \in Nat
      BY <1>1, <1>3, <1>10, <3>2, ItemIsItem DEF Lanes, Sorted
    <3> QED
      BY <3>1, <3>3
  <2> QED
    BY <1>10, <2>1 DEF Ahead
<1>13. ASSUME NEW item, Ahead(item, c, o) PROVE Ordered(item, y)
  BY <1>3, <1>10, <1>11, <1>13 DEF Ahead, Ordered
<1> HIDE DEF e
<1> QED
  BY <1>0, <1>2, <1>3, <1>5, <1>8, <1>9, <1>10, <1>11, <1>12, <1>13 DEF Taken

(* What was written leaves the budget.                                      *)
LEMMA Completes ==
  ASSUME NEW q, NEW m, NEW d, Whole(q, m, d), NEW y \in Item, q.writing = y
  PROVE  LET e == Release([q EXCEPT !.writing = NoItem], y) IN
           /\ Whole(e, m, d) /\ ~e.closed
           /\ e.crit = q.crit /\ e.order = q.order /\ e.writing = NoItem
<1>0. PICK c, o, n, b, x :
        c = q.crit /\ o = q.order /\ n = q.messages /\ b = q.bytes /\ x = q.closed
  OBVIOUS
<1>1. /\ q = Q(c, o, y, n, b, x)
      /\ c \in Seq(Item) /\ o \in Seq(Item)
      /\ n = Len(c) + Len(o) + 1
      /\ b = SizeOf(c) + SizeOf(o) + y.size
      /\ n =< MaxMessages /\ b =< MaxBytes
      /\ Lanes(c, o, m, d)
  BY <1>0, OpenQueue, ItemIsItem
<1>a. x = FALSE
  <2>1. q # Closed
    BY ItemIsItem DEF Closed
  <2> QED
    BY <1>0, <2>1, OpenQueue
<1>w. PICK w : w = NoItem
  OBVIOUS
<1> DEFINE e == Q(c, o, w, n - 1, b - y.size, FALSE)
<1>2. Release([q EXCEPT !.writing = NoItem], y) = e
  <2>1. Release([Q(c, o, y, n, b, x) EXCEPT !.writing = NoItem], y)
          = Q(c, o, NoItem, n - 1, b - y.size, x)
    BY CompleteOnQ
  <2> QED
    BY <1>1, <1>a, <1>w, <2>1
<1>3. /\ n - 1 = Len(c) + Len(o) + (IF w = NoItem THEN 0 ELSE 1)
      /\ n - 1 =< MaxMessages
  <2>1. Len(c) \in Nat /\ Len(o) \in Nat /\ MaxMessages \in Nat
    BY <1>1, OutboundConstants
  <2> QED
    BY <1>1, <1>w, <2>1
<1>4. b - y.size = SizeOf(c) + SizeOf(o) + w.size /\ b - y.size =< MaxBytes
  <2> DEFINE e1 == SizeOf(c)
             e2 == SizeOf(o)
             z == y.size
             z0 == w.size
  <2>1. e1 \in Nat /\ e2 \in Nat /\ z \in Nat /\ z0 = 0 /\ b = e1 + e2 + z /\ b =< MaxBytes
        /\ MaxBytes \in Nat
    BY <1>1, <1>w, SizeType, ItemIsItem, OutboundConstants
  <2> HIDE DEF e1, e2, z, z0
  <2>2. b - z = e1 + e2 + z0 /\ b - z =< MaxBytes
    BY <2>1
  <2> QED
    BY <2>2 DEF e1, e2, z, z0
<1>5. Whole(e, m, d)
  BY <1>1, <1>3, <1>4, <1>w, WholeQ
<1>6. e.crit = c /\ e.order = o /\ e.writing = w /\ e.closed = FALSE
  BY DEF Q
<1> HIDE DEF e
<1> QED
  BY <1>0, <1>2, <1>5, <1>6, <1>w

(* The budget as the property tells it.                                     *)
LEMMA SizeConcat ==
  ASSUME NEW s \in Seq(Item), NEW r \in Seq(Item)
  PROVE  SizeOf(s \o r) = SizeOf(s) + SizeOf(r)
<1> DEFINE t == s \o r
           n == Len(s)
           l == Len(r)
<1>1. n \in Nat /\ l \in Nat
  OBVIOUS
<1>2. /\ t \in Seq(Item) /\ Len(t) = n + l
      /\ \A k \in 1..n : t[k] = s[k]
      /\ \A k \in 1..l : t[n + k] = r[k]
  <2>1. t \in Seq(Item)
    BY ConcatProperties
  <2>2. Len(t) = n + l
    BY ConcatProperties
  <2>3. \A k \in 1..n : t[k] = s[k]
    OBVIOUS
  <2>4. ASSUME NEW k \in 1..l PROVE t[n + k] = r[k]
    <3>1. n + k \in n + 1..n + l /\ (n + k) - n = k
      BY <1>1
    <3>2. t[n + k] = r[(n + k) - n]
      BY <3>1
    <3> QED
      BY <3>1, <3>2
  <2> QED
    BY <2>1, <2>2, <2>3, <2>4
<1> HIDE DEF t
<1>3. PICK f : /\ f[0] = 0
               /\ \A k \in 1..n : f[k] = f[k - 1] + s[k].size
               /\ \A k \in 0..n : f[k] \in Nat
               /\ SizeOf(s) = f[n]
  BY SizeIs
<1>4. PICK g : /\ g[0] = 0
               /\ \A k \in 1..l : g[k] = g[k - 1] + r[k].size
               /\ \A k \in 0..l : g[k] \in Nat
               /\ SizeOf(r) = g[l]
  BY SizeIs
<1>5. PICK h : /\ h[0] = 0
               /\ \A k \in 1..Len(t) : h[k] = h[k - 1] + t[k].size
               /\ SizeOf(t) = h[Len(t)]
  BY <1>2, SizeIs
<1>a. \A k \in 1..l : r[k].size \in Nat
  BY ItemIsItem
<1> HIDE DEF n, l
<1>6. f[n] = h[n]
  <2>1. \A k \in 1..n : f[k - 1] = h[k - 1] => f[k] = h[k]
    <3>1. \A k \in 1..n : k \in 1..(n + l)
      BY <1>1
    <3> QED
      BY <1>2, <1>3, <1>5, <3>1
  <2>0. n \in Nat /\ f[0] = h[0]
    BY <1>1, <1>3, <1>5
  <2>2. \A k \in 0..n : f[k] = h[k]
    BY <2>0, <2>1, SameSums, ZenonT(30)
  <2> QED
    BY <1>1, <2>2
<1> DEFINE T == {k \in Nat : k =< l => h[n + k] = f[n] + g[k]}
<1>7. Nat \subseteq T
  <2>1. 0 \in T
    <3>1. n + 0 = n /\ f[n] + 0 = f[n]
      BY <1>1, <1>3
    <3> QED
      BY <1>4, <1>6, <3>1
  <2>2. ASSUME NEW k \in Nat, k \in T PROVE k + 1 \in T
    <3>1. SUFFICES ASSUME k + 1 =< l PROVE h[n + (k + 1)] = f[n] + g[k + 1]
      OBVIOUS
    <3>2. /\ h[n + k] = f[n] + g[k]
          /\ n + (k + 1) \in 1..(n + l) /\ (n + (k + 1)) - 1 = n + k
          /\ k + 1 \in 1..l /\ (k + 1) - 1 = k /\ k \in 0..l /\ n \in 0..n
      BY <1>1, <2>2, <3>1
    <3>3. h[n + (k + 1)] = h[n + k] + t[n + (k + 1)].size
      BY <1>2, <1>5, <3>2
    <3>4. t[n + (k + 1)] = r[k + 1] /\ g[k + 1] = g[k] + r[k + 1].size
      BY <1>2, <1>4, <3>2
    <3> DEFINE z == r[k + 1].size
               u == f[n]
               v == g[k]
    <3>5. /\ z \in Nat /\ u \in Nat /\ v \in Nat
          /\ h[n + (k + 1)] = u + v + z /\ g[k + 1] = v + z
      BY <1>3, <1>4, <1>a, <3>2, <3>3, <3>4
    <3> HIDE DEF z, u, v
    <3>6. h[n + (k + 1)] = u + g[k + 1]
      BY <3>5
    <3> QED
      BY <3>6 DEF u
  <2> HIDE DEF T
  <2> QED
    BY <2>1, <2>2, SetInduction
<1>8. h[n + l] = f[n] + g[l]
  BY <1>1, <1>7
<1> QED
  BY <1>2, <1>3, <1>4, <1>5, <1>8 DEF t, n, l

-----------------------------------------------------------------------------
(* The invariant: what the property of order needs to know of the item in   *)
(* the pump's hand, and where the item of a sender that waits for it is.    *)

WireOK ==
  /\ made \in Nat
  /\ \A n \in dropped : n \in Nat /\ n =< made
  /\ wire.items \subseteq Item
  /\ \A item \in wire.items : item.id =< made /\ Ahead(item, queue.crit, queue.order)
  /\ sent \in Nat /\ wire.n \in Nat /\ wire.n =< sent
  /\ wire = [n |-> wire.n, items |-> wire.items]
  /\ gate \in {"free", "pump", "direct"}
  /\ gate = "pump" <=> pump.at = "writing"
  /\ gate = "direct" <=> direct = "writing"
  /\ gate # "free" => wire.n < sent

InHand == {"gate", "writing", "written"}

PumpOK ==
  /\ pump = [at |-> pump.at, item |-> pump.item]
  /\ pump.at \in {"loop", "asleep", "ended", "failed"} \cup InHand
  /\ pump.at \in {"loop", "asleep", "ended"} => queue.writing = NoItem
  /\ pump.at \in InHand =>
       /\ pump.item \in Item
       /\ pump.item.id =< made
       /\ Ahead(pump.item, queue.crit, queue.order)
       /\ ~queue.closed => queue.writing = pump.item
  /\ pump.at \in {"gate", "writing"} =>
       /\ pump.item.id \notin dropped
       /\ \A item \in wire.items : Ordered(item, pump.item)
  /\ pump.at = "written" => pump.item \in wire.items

(* The critical item n is in the queue q or in the writer's hand.           *)
Carries(q, n) ==
  \/ \E a \in 1..Len(q.crit) : q.crit[a].id = n
  \/ q.writing # NoItem /\ q.writing.id = n

Fits(r, q, items) ==
  /\ r = [at |-> r.at, item |-> r.item, size |-> r.size]
  /\ r.at \in {"waiting", "awake"} => r.size \in Sizes
  /\ r.at = "admitted" => ~q.closed /\ Carries(q, r.item)
  /\ r.at = "sent" => \E item \in items : item.id = r.item

SendersFit(s, q, items) ==
  /\ s = [p \in Senders |-> s[p]]
  /\ \A p \in Senders : Fits(s[p], q, items)

QInv ==
  /\ Whole(queue, made, dropped)
  /\ WireOK
  /\ PumpOK
  /\ SendersFit(sender, queue, wire.items)

-----------------------------------------------------------------------------
(* What becomes of the senders *)

LEMMA FitsMore ==
  ASSUME NEW s, NEW q, NEW items, SendersFit(s, q, items),
         NEW e, NEW more, items \subseteq more,
         ~q.closed => ~e.closed, \A n : Carries(q, n) => Carries(e, n)
  PROVE  SendersFit(s, e, more)
BY DEF SendersFit, Fits

LEMMA BroadcastFits ==
  ASSUME NEW s, NEW q, NEW items, SendersFit(s, q, items)
  PROVE  SendersFit(broadcastCapacityLocked(s), q, items)
<1> DEFINE t == broadcastCapacityLocked(s)
<1>1. /\ t = [p \in Senders |-> t[p]]
      /\ \A p \in Senders : t[p] = IF s[p].at = "waiting" THEN [s[p] EXCEPT !.at = "awake"] ELSE s[p]
  BY DEF broadcastCapacityLocked
<1> HIDE DEF t
<1>2. ASSUME NEW p \in Senders PROVE Fits(t[p], q, items)
  <2>1. Fits(s[p], q, items)
    BY DEF SendersFit
  <2>2. CASE s[p].at = "waiting"
    <3>1. t[p] = [s[p] EXCEPT !.at = "awake"]
      BY <1>1, <2>2
    <3>2. s[p] = [at |-> s[p].at, item |-> s[p].item, size |-> s[p].size] /\ s[p].size \in Sizes
      BY <2>1, <2>2 DEF Fits
    <3>3. t[p] = [at |-> "awake", item |-> s[p].item, size |-> s[p].size]
      BY <3>1, <3>2
    <3> QED
      BY <3>2, <3>3 DEF Fits
  <2>3. CASE s[p].at # "waiting"
    BY <1>1, <2>1, <2>3
  <2> QED
    BY <2>2, <2>3
<1> QED
  BY <1>1, <1>2 DEF SendersFit, t

(* What is not told the result is held by e.                                *)
LEMMA ResolveFits ==
  ASSUME NEW s, NEW q, NEW items, SendersFit(s, q, items),
         NEW ids, NEW e, NEW result,
         \A n : ~q.closed /\ Carries(q, n) /\ n \notin ids => ~e.closed /\ Carries(e, n),
         \/ result = "failed"
         \/ result = "sent" /\ \A n \in ids : \E item \in items : item.id = n
  PROVE  SendersFit(resolveLocked(s, ids, result), e, items)
<1> DEFINE t == resolveLocked(s, ids, result)
<1>1. /\ t = [p \in Senders |-> t[p]]
      /\ \A p \in Senders : t[p] = IF s[p].at = "admitted" /\ s[p].item \in ids
                                   THEN [s[p] EXCEPT !.at = result] ELSE s[p]
  BY DEF resolveLocked
<1> HIDE DEF t
<1>2. ASSUME NEW p \in Senders PROVE Fits(t[p], e, items)
  <2>1. Fits(s[p], q, items)
    BY DEF SendersFit
  <2>2. CASE s[p].at = "admitted" /\ s[p].item \in ids
    <3>1. t[p] = [s[p] EXCEPT !.at = result]
      BY <1>1, <2>2
    <3>2. s[p] = [at |-> s[p].at, item |-> s[p].item, size |-> s[p].size]
      BY <2>1 DEF Fits
    <3>3. t[p] = [at |-> result, item |-> s[p].item, size |-> s[p].size]
      BY <3>1, <3>2
    <3>4. t[p].at = result /\ t[p].item = s[p].item /\ t[p].size = s[p].size
      BY <3>3
    <3> QED
      BY <2>2, <3>3, <3>4 DEF Fits
  <2>3. CASE ~(s[p].at = "admitted" /\ s[p].item \in ids)
    <3>1. t[p] = s[p]
      BY <1>1, <2>3
    <3> QED
      BY <2>1, <2>3, <3>1 DEF Fits
  <2> QED
    BY <2>2, <2>3
<1> QED
  BY <1>1, <1>2 DEF SendersFit, t

(* Who closes the queue fails everyone whose item was in it.                *)
AllFailed(q, s) == resolveLocked(s, {i.id : i \in ToSet(q.crit) \cup {q.writing}}, "failed")

LEMMA CloseFits ==
  ASSUME NEW s, NEW q, NEW m, NEW d, Whole(q, m, d), NEW items, SendersFit(s, q, items)
  PROVE  SendersFit(broadcastCapacityLocked(AllFailed(q, s)), Closed, items)
<1> DEFINE ids == {i.id : i \in ToSet(q.crit) \cup {q.writing}}
<1>1. ASSUME NEW n, Carries(q, n) PROVE n \in ids
  <2>1. CASE q.writing.id = n
    BY <2>1
  <2>2. ASSUME NEW a \in 1..Len(q.crit), q.crit[a].id = n PROVE n \in ids
    <3>1. a \in DOMAIN q.crit
      BY OpenQueue
    <3>2. q.crit[a] \in ToSet(q.crit)
      BY <3>1 DEF ToSet
    <3> QED
      BY <2>2, <3>2
  <2> QED
    BY <1>1, <2>1, <2>2 DEF Carries
<1> HIDE DEF ids
<1>2. SendersFit(resolveLocked(s, ids, "failed"), Closed, items)
  BY <1>1, ResolveFits
<1>3. SendersFit(AllFailed(q, s), Closed, items)
  BY <1>2 DEF AllFailed, ids
<1> QED
  BY <1>3, BroadcastFits

LEMMA OneFits ==
  ASSUME NEW s, NEW q, NEW items, SendersFit(s, q, items), NEW p, NEW r, Fits(r, q, items)
  PROVE  SendersFit([s EXCEPT ![p] = r], q, items)
BY DEF SendersFit

LEMMA GivenUpFits ==
  ASSUME NEW s, NEW q, NEW items, SendersFit(s, q, items), NEW p \in Senders,
         NEW at, at \in {"failed", "cancelled"}
  PROVE  SendersFit([s EXCEPT ![p].at = at], q, items)
<1> DEFINE r == [s[p] EXCEPT !.at = at]
<1>1. s[p] = [at |-> s[p].at, item |-> s[p].item, size |-> s[p].size]
  BY DEF SendersFit, Fits
<1>2. r = [at |-> at, item |-> s[p].item, size |-> s[p].size]
  BY <1>1
<1>3. [s EXCEPT ![p].at = at] = [s EXCEPT ![p] = r]
  BY DEF SendersFit
<1> HIDE DEF r
<1>4. Fits(r, q, items)
  BY <1>2 DEF Fits
<1> QED
  BY <1>3, <1>4, OneFits

-----------------------------------------------------------------------------
(* Producers *)

qVars == <<queue, made, sender, pump, gate, direct, wire, sent, dropped>>

LEMMA QUnchanged ==
  ASSUME QInv, UNCHANGED qVars
  PROVE  QInv'
BY DEF QInv, qVars, WireOK, PumpOK

AheadKept ==
  \A item : item.id \in Nat /\ item.id =< made /\ Ahead(item, queue.crit, queue.order)
              => Ahead(item, queue'.crit, queue'.order)

(* What any step but the pump's and the writers' has to keep.               *)
LEMMA ProducerKeeps ==
  ASSUME QInv, UNCHANGED <<pump, gate, direct, wire, sent>>,
         Whole(queue', made', dropped'),
         made' \in Nat, made =< made',
         \A n \in dropped' : n \in Nat /\ n =< made',
         pump.at \in {"gate", "writing"} => pump.item.id \notin dropped',
         AheadKept,
         \/ queue'.writing = queue.writing /\ (queue.closed <=> queue'.closed)
         \/ queue' = Closed,
         SendersFit(sender', queue', wire.items)
  PROVE  QInv'
<1>1. \A item \in Item : item.id \in Nat
  BY ItemIsItem
<1>2. WireOK'
  <2>1. ASSUME NEW item \in wire.items
        PROVE  item.id =< made' /\ Ahead(item, queue'.crit, queue'.order)
    <3>1. item.id \in Nat /\ item.id =< made /\ Ahead(item, queue.crit, queue.order) /\ made \in Nat
      BY <1>1, <2>1 DEF QInv, WireOK
    <3> QED
      BY <3>1 DEF AheadKept
  <2> QED
    BY <2>1 DEF QInv, WireOK
<1>3. PumpOK'
  <2>1. ASSUME pump.at \in InHand
        PROVE  /\ pump.item \in Item
               /\ pump.item.id =< made'
               /\ Ahead(pump.item, queue'.crit, queue'.order)
    <3>1. /\ pump.item \in Item /\ pump.item.id \in Nat /\ pump.item.id =< made /\ made \in Nat
          /\ Ahead(pump.item, queue.crit, queue.order)
      BY <1>1, <2>1 DEF QInv, PumpOK, WireOK
    <3> QED
      BY <3>1 DEF AheadKept
  <2>2. queue' = Closed => queue'.writing = NoItem /\ queue'.closed
    BY ClosedIsWhole
  <2> QED
    BY <2>1, <2>2 DEF QInv, PumpOK
<1> QED
  BY <1>2, <1>3 DEF QInv

LEMMA ClosingKeeps ==
  ASSUME QInv, UNCHANGED <<made, pump, gate, direct, wire, sent, dropped>>,
         queue' = Closed, SendersFit(sender', Closed, wire.items)
  PROVE  QInv'
<1>1. Whole(queue', made', dropped') /\ AheadKept
  BY ClosedIsWhole DEF AheadKept
<1>2. made' \in Nat /\ made =< made' /\ \A n \in dropped' : n \in Nat /\ n =< made'
  BY DEF QInv, WireOK
<1>3. pump.at \in {"gate", "writing"} => pump.item.id \notin dropped'
  BY DEF QInv, PumpOK
<1>4. SendersFit(sender', queue', wire.items)
  OBVIOUS
<1> QED
  BY <1>1, <1>2, <1>3, <1>4, ProducerKeeps

LEMMA CloseKeeps ==
  ASSUME QInv, closeLocked, UNCHANGED <<made, pump, gate, direct, wire, sent, dropped>>
  PROVE  QInv'
<1>1. queue' = Closed /\ sender' = broadcastCapacityLocked(AllFailed(queue, sender))
  BY DEF closeLocked, AllFailed
<1>2. SendersFit(broadcastCapacityLocked(AllFailed(queue, sender)), Closed, wire.items)
  BY CloseFits DEF QInv
<1> QED
  BY <1>1, <1>2, ClosingKeeps

LEMMA GiveUpKeeps ==
  ASSUME QInv, NEW s \in Senders, NEW at, at \in {"failed", "cancelled"}, Unadmitted(s, at),
         UNCHANGED <<queue, made, pump, gate, direct, wire, sent, dropped>>
  PROVE  QInv'
<1>1. SendersFit(sender', queue', wire'.items)
  <2>1. sender' = [sender EXCEPT ![s].at = at]
    BY DEF Unadmitted
  <2>2. SendersFit([sender EXCEPT ![s].at = at], queue, wire.items)
    BY GivenUpFits DEF QInv
  <2> QED
    BY <2>1, <2>2
<1> QED
  BY <1>1 DEF QInv, WireOK, PumpOK

(* An open queue with room made holds the same critical items, and whoever  *)
(* waits may have been told.                                                *)
LEMMA RoomMade ==
  ASSUME QInv, ~queue.closed, NEW e, Thinned(e, queue, made, dropped), NEW told,
         told = sender \/ told = broadcastCapacityLocked(sender)
  PROVE  /\ Whole(e, made, dropped) /\ ~e.closed
         /\ SendersFit(told, e, wire.items)
         /\ \A n : Carries(queue, n) <=> Carries(e, n)
<1>1. e.crit = queue.crit /\ e.writing = queue.writing /\ ~e.closed /\ Whole(e, made, dropped)
  BY DEF Thinned
<1>2. \A n : Carries(queue, n) <=> Carries(e, n)
  BY <1>1 DEF Carries
<1>3. SendersFit(sender, e, wire.items)
  BY <1>1, <1>2, FitsMore DEF QInv
<1> QED
  BY <1>1, <1>2, <1>3, BroadcastFits

(* A critical item of a queue that was thinned for it.                      *)
LEMMA AdmittedKeeps ==
  ASSUME QInv, ~queue.closed, NEW e, Thinned(e, queue, made, dropped), NEW size \in Sizes,
         ~wouldOverflow(e, size),
         NEW y, y = [id |-> made + 1, key |-> Critical, size |-> size],
         made' = made + 1, queue' = admitCritical(e, y),
         UNCHANGED <<pump, gate, direct, wire, sent, dropped>>,
         NEW told, SendersFit(told, e, wire.items),
         sender' = told \/ \E s : sender' = [told EXCEPT ![s] = [at |-> "admitted", item |-> made + 1, size |-> size]]
  PROVE  QInv'
<1> DEFINE f == admitCritical(e, y)
<1>1. made \in Nat /\ \A n \in dropped : n \in Nat /\ n =< made
  BY DEF QInv, WireOK
<1>2. y \in Item /\ y.id = made + 1 /\ y.key = Critical /\ y.size = size
  BY <1>1 DEF Item
<1>3. Whole(e, made, dropped) /\ e.crit = queue.crit /\ e.writing = queue.writing /\ ~e.closed
  BY DEF Thinned
<1>4. /\ Whole(f, made + 1, dropped)
      /\ f.crit = Append(e.crit, y) /\ f.writing = e.writing /\ ~f.closed
      /\ \A item : item.id \in Nat /\ item.id =< made /\ Ahead(item, e.crit, e.order)
           => Ahead(item, f.crit, f.order)
  BY <1>1, <1>2, <1>3, Admits, ZenonT(30)
<1> HIDE DEF f
<1>5. AheadKept
  BY <1>4 DEF AheadKept, Thinned, f
<1>6. e.crit \in Seq(Item)
  BY <1>3, OpenQueue
<1>7. Carries(f, made + 1)
  <2>1. Len(e.crit) + 1 \in 1..Len(f.crit) /\ f.crit[Len(e.crit) + 1] = y
    BY <1>2, <1>4, <1>6, LastOrOld
  <2> QED
    BY <1>2, <2>1 DEF Carries
<1>8. \A n : Carries(e, n) => Carries(f, n)
  <2>1. \A a \in 1..Len(e.crit) : a \in 1..Len(f.crit) /\ f.crit[a] = e.crit[a]
    BY <1>2, <1>4, <1>6, LastOrOld
  <2> QED
    BY <1>4, <2>1 DEF Carries
<1>9. SendersFit(told, f, wire.items)
  BY <1>4, <1>8, FitsMore
<1>10. SendersFit(sender', f, wire.items)
  <2> DEFINE r == [at |-> "admitted", item |-> made + 1, size |-> size]
  <2>1. Fits(r, f, wire.items)
    BY <1>4, <1>7 DEF Fits
  <2> HIDE DEF r
  <2>2. ASSUME NEW s PROVE SendersFit([told EXCEPT ![s] = r], f, wire.items)
    BY <1>9, <2>1, OneFits
  <2> QED
    BY <1>9, <2>2 DEF r
<1>11. /\ made' \in Nat /\ made =< made' /\ \A n \in dropped' : n \in Nat /\ n =< made'
       /\ (pump.at \in {"gate", "writing"} => pump.item.id \notin dropped')
       /\ queue'.writing = queue.writing /\ (queue.closed <=> queue'.closed)
       /\ Whole(queue', made', dropped')
  BY <1>1, <1>3, <1>4 DEF QInv, PumpOK, f
<1>12. SendersFit(sender', queue', wire.items)
  BY <1>10 DEF f
<1> QED
  BY <1>5, <1>11, <1>12, ProducerKeeps

LEMMA AttemptKeeps ==
  ASSUME QInv, ~queue.closed, NEW s \in Senders, NEW size \in Sizes,
         NEW otherwise \in {"wait", "close"}, Attempt(s, size, otherwise),
         UNCHANGED <<pump, gate, direct, wire, sent, dropped>>
  PROVE  QInv'
<1> DEFINE e == Evicted(queue, size)
           told == IF e = queue THEN sender ELSE broadcastCapacityLocked(sender)
<1>1. Thinned(e, queue, made, dropped)
  BY EvictedThins DEF QInv
<1>2. told = sender \/ told = broadcastCapacityLocked(sender)
  OBVIOUS
<1>3. \/ /\ ~wouldOverflow(e, size)
         /\ made' = made + 1
         /\ queue' = admitCritical(e, [id |-> made + 1, key |-> Critical, size |-> size])
         /\ sender' = [told EXCEPT ![s] = [at |-> "admitted", item |-> made + 1, size |-> size]]
      \/ /\ queue' = e /\ made' = made
         /\ sender' = [told EXCEPT ![s] = [at |-> "waiting", item |-> 0, size |-> size]]
      \/ /\ queue' = Closed /\ made' = made
         /\ sender' = [broadcastCapacityLocked(AllFailed(queue, sender)) EXCEPT ![s].at = "failed"]
  BY DEF Attempt, AllFailed
<1> HIDE DEF e, told
<1>4. Whole(e, made, dropped) /\ ~e.closed /\ SendersFit(told, e, wire.items)
  BY <1>1, <1>2, RoomMade
<1>5. CASE /\ ~wouldOverflow(e, size)
           /\ made' = made + 1
           /\ queue' = admitCritical(e, [id |-> made + 1, key |-> Critical, size |-> size])
           /\ sender' = [told EXCEPT ![s] = [at |-> "admitted", item |-> made + 1, size |-> size]]
  BY <1>1, <1>4, <1>5, AdmittedKeeps
<1>6. CASE /\ queue' = e /\ made' = made
           /\ sender' = [told EXCEPT ![s] = [at |-> "waiting", item |-> 0, size |-> size]]
  <2> DEFINE r == [at |-> "waiting", item |-> 0, size |-> size]
  <2>1. Fits(r, e, wire.items)
    BY DEF Fits
  <2> HIDE DEF r
  <2>2. SendersFit([told EXCEPT ![s] = r], e, wire.items)
    BY <1>4, <2>1, OneFits
  <2>3. SendersFit(sender', queue', wire.items)
    BY <1>6, <2>2 DEF r
  <2>4. AheadKept /\ queue'.writing = queue.writing /\ (queue.closed <=> queue'.closed)
        /\ Whole(queue', made', dropped')
    BY <1>1, <1>4, <1>6 DEF Thinned, AheadKept
  <2>5. /\ made' \in Nat /\ made =< made' /\ \A n \in dropped' : n \in Nat /\ n =< made'
        /\ (pump.at \in {"gate", "writing"} => pump.item.id \notin dropped')
    BY <1>6 DEF QInv, WireOK, PumpOK
  <2> QED
    BY <2>3, <2>4, <2>5, ProducerKeeps
<1>7. CASE /\ queue' = Closed /\ made' = made
           /\ sender' = [broadcastCapacityLocked(AllFailed(queue, sender)) EXCEPT ![s].at = "failed"]
  <2>1. SendersFit(broadcastCapacityLocked(AllFailed(queue, sender)), Closed, wire.items)
    BY CloseFits DEF QInv
  <2>2. SendersFit([broadcastCapacityLocked(AllFailed(queue, sender)) EXCEPT ![s].at = "failed"],
                   Closed, wire.items)
    BY <2>1, GivenUpFits
  <2> QED
    BY <1>7, <2>2, ClosingKeeps
<1> QED
  BY <1>3, <1>5, <1>6, <1>7

LEMMA SynchronousKeeps ==
  ASSUME QInv, NEW s \in Senders,
         SendCritical(s) \/ Look(s) \/ EnqueueTimeout(s) \/ CancelSend(s)
  PROVE  QInv'
<1>1. UNCHANGED <<pump, gate, direct, wire, sent, dropped>>
  BY DEF SendCritical, Look, EnqueueTimeout, CancelSend, history
<1>2. sender[s].at \in {"waiting", "awake"} => sender[s].size \in Sizes
  BY DEF QInv, SendersFit, Fits
<1>3. \/ Unadmitted(s, "failed") /\ UNCHANGED <<queue, made>>
      \/ Unadmitted(s, "cancelled") /\ UNCHANGED <<queue, made>>
      \/ ~queue.closed /\ \E size \in Sizes :
           Attempt(s, size, "wait") \/ Attempt(s, size, "close")
  BY <1>2 DEF SendCritical, Look, EnqueueTimeout, CancelSend
<1>4. CASE \/ Unadmitted(s, "failed") /\ UNCHANGED <<queue, made>>
           \/ Unadmitted(s, "cancelled") /\ UNCHANGED <<queue, made>>
  BY <1>1, <1>4, GiveUpKeeps
<1>5. CASE ~queue.closed /\ \E size \in Sizes :
             Attempt(s, size, "wait") \/ Attempt(s, size, "close")
  BY <1>1, <1>5, AttemptKeeps
<1> QED
  BY <1>3, <1>4, <1>5

LEMMA TryCriticalKeeps ==
  ASSUME QInv, NEW size \in Sizes, TryCritical(size)
  PROVE  QInv'
<1> DEFINE e == Evicted(queue, size)
           told == IF e = queue THEN sender ELSE broadcastCapacityLocked(sender)
<1>1. ~queue.closed /\ UNCHANGED <<pump, gate, direct, wire, sent, dropped>>
  BY DEF TryCritical, history
<1>2. Thinned(e, queue, made, dropped)
  BY EvictedThins DEF QInv
<1>3. told = sender \/ told = broadcastCapacityLocked(sender)
  OBVIOUS
<1>4. \/ /\ ~wouldOverflow(e, size)
         /\ made' = made + 1
         /\ queue' = admitCritical(e, [id |-> made + 1, key |-> Critical, size |-> size])
         /\ sender' = told
      \/ closeLocked /\ made' = made
  BY DEF TryCritical
<1> HIDE DEF e, told
<1>5. SendersFit(told, e, wire.items)
  BY <1>1, <1>2, <1>3, RoomMade
<1>6. CASE /\ ~wouldOverflow(e, size)
           /\ made' = made + 1
           /\ queue' = admitCritical(e, [id |-> made + 1, key |-> Critical, size |-> size])
           /\ sender' = told
  BY <1>1, <1>2, <1>5, <1>6, AdmittedKeeps
<1>7. CASE closeLocked /\ made' = made
  BY <1>1, <1>7, CloseKeeps
<1> QED
  BY <1>4, <1>6, <1>7

LEMMA TryStateKeeps ==
  ASSUME QInv, NEW key \in Keys, NEW size \in Sizes, TryState(key, size)
  PROVE  QInv'
<1> DEFINE y == [id |-> made + 1, key |-> key, size |-> size]
           e == WithoutState(queue, key)
           f == admitState(e, y)
<1>1. /\ ~queue.closed /\ made' = made + 1 /\ queue' = f
      /\ sender' = broadcastCapacityLocked(sender)
      /\ UNCHANGED <<pump, gate, direct, wire, sent, dropped>>
  BY DEF TryState, history
<1>2. made \in Nat /\ \A n \in dropped : n \in Nat /\ n =< made
  BY DEF QInv, WireOK
<1>3. y \in Item /\ y.id = made + 1 /\ y.key = key /\ y.key # Critical
  BY <1>2, OutboundConstants DEF Item
<1>4. Thinned(e, queue, made, dropped) /\ \A a \in 1..Len(e.order) : e.order[a].key # key
  BY WithoutThins DEF QInv
<1> HIDE DEF y, e
<1>5. Whole(e, made, dropped) /\ e.crit = queue.crit /\ e.writing = queue.writing /\ ~e.closed
  BY <1>1, <1>4 DEF Thinned
<1>6. /\ Whole(f, made + 1, dropped)
      /\ f.crit = e.crit /\ f.writing = e.writing /\ ~f.closed
      /\ \A item : item.id \in Nat /\ item.id =< made /\ Ahead(item, e.crit, e.order)
           => Ahead(item, f.crit, f.order)
  BY <1>2, <1>3, <1>4, <1>5, AdmitsState
<1> HIDE DEF f
<1>7. AheadKept
  BY <1>1, <1>4, <1>6 DEF AheadKept, Thinned
<1>8. SendersFit(sender', queue', wire.items)
  <2>1. \A n : Carries(queue, n) => Carries(f, n)
    BY <1>5, <1>6 DEF Carries
  <2>2. SendersFit(sender, f, wire.items)
    BY <1>6, <2>1, FitsMore DEF QInv
  <2> QED
    BY <1>1, <2>2, BroadcastFits
<1>9. /\ made' \in Nat /\ made =< made' /\ \A n \in dropped' : n \in Nat /\ n =< made'
      /\ (pump.at \in {"gate", "writing"} => pump.item.id \notin dropped')
      /\ queue'.writing = queue.writing /\ (queue.closed <=> queue'.closed)
      /\ Whole(queue', made', dropped')
  BY <1>1, <1>2, <1>5, <1>6 DEF QInv, PumpOK
<1> QED
  BY <1>1, <1>7, <1>8, <1>9, ProducerKeeps

(* Cancelled is what was queued under the key and is not: what the pump     *)
(* holds has another key, and what was queued other numbers.                *)
LEMMA CancelStateKeeps ==
  ASSUME QInv, NEW key \in Keys, CancelState(key)
  PROVE  QInv'
<1>1. UNCHANGED <<made, pump, gate, direct, wire, sent>> /\ ~queue.closed
  BY DEF CancelState, history
<1>2. CASE queue.writing.key = key
  BY <1>1, <1>2, QUnchanged DEF CancelState, qVars
<1>3. CASE queue.writing.key # key
  <2> DEFINE e == WithoutState(queue, key)
  <2>1. /\ queue' = e /\ dropped' = dropped \cup Pending(key)
        /\ sender' = sender \/ sender' = broadcastCapacityLocked(sender)
    BY <1>3 DEF CancelState
  <2>2. /\ Thinned(e, queue, made, dropped)
        /\ \A a \in 1..Len(queue.order), x \in 1..Len(e.order) :
             queue.order[a].key = key => e.order[x].id # queue.order[a].id
    BY WithoutThins DEF QInv
  <2> HIDE DEF e
  <2>3. /\ Whole(e, made, dropped) /\ ~e.closed /\ e.crit = queue.crit /\ e.writing = queue.writing
        /\ SendersFit(sender', e, wire.items)
    BY <1>1, <2>1, <2>2, RoomMade DEF Thinned
  <2>4. queue.order \in Seq(Item) /\ Lanes(queue.crit, queue.order, made, dropped)
    BY OpenQueue DEF QInv
  <2>5. ASSUME NEW n \in Pending(key)
        PROVE  \E a \in 1..Len(queue.order) : queue.order[a].key = key /\ queue.order[a].id = n
    <3>1. PICK i \in ToSet(queue.order) \cup {queue.writing} : i.key = key /\ i.id = n
      BY DEF Pending
    <3>2. i \in ToSet(queue.order)
      BY <1>3, <3>1
    <3>3. PICK a \in DOMAIN queue.order : queue.order[a] = i
      BY <3>2 DEF ToSet
    <3>4. a \in 1..Len(queue.order)
      BY <2>4
    <3> QED
      BY <3>1, <3>3, <3>4
  <2>6. \A n \in dropped' : n \in Nat /\ n =< made
    <3>1. \A n \in dropped : n \in Nat /\ n =< made
      BY DEF QInv, WireOK
    <3>2. ASSUME NEW n \in Pending(key) PROVE n \in Nat /\ n =< made
      <4>1. PICK a \in 1..Len(queue.order) : queue.order[a].id = n
        BY <2>5
      <4>2. queue.order[a] \in Item
        BY <2>4
      <4> QED
        BY <2>4, <4>1, <4>2, ItemIsItem DEF Lanes
    <3> QED
      BY <2>1, <3>1, <3>2
  <2>7. Lanes(e.crit, e.order, made, dropped')
    <3>1. Lanes(e.crit, e.order, made, dropped)
      BY <2>3, OpenQueue
    <3>2. \A a \in 1..Len(e.crit) : e.crit[a].id \notin Pending(key)
      BY <2>3, <2>4, <2>5 DEF Lanes
    <3>3. \A a \in 1..Len(e.order) : e.order[a].id \notin Pending(key)
      BY <2>2, <2>5
    <3> QED
      BY <2>1, <3>1, <3>2, <3>3 DEF Lanes
  <2>8. Whole(queue', made', dropped')
    BY <1>1, <2>1, <2>3, <2>7 DEF Whole
  <2>9. pump.at \in {"gate", "writing"} => pump.item.id \notin dropped'
    <3>1. SUFFICES ASSUME pump.at \in {"gate", "writing"} PROVE pump.item.id \notin Pending(key)
      BY <2>1 DEF QInv, PumpOK
    <3>2. Ahead(pump.item, queue.crit, queue.order)
      BY <3>1 DEF QInv, PumpOK, InHand
    <3> QED
      BY <2>5, <3>2 DEF Ahead
  <2>10. AheadKept /\ queue'.writing = queue.writing /\ (queue.closed <=> queue'.closed)
    BY <1>1, <2>1, <2>2, <2>3 DEF Thinned, AheadKept
  <2>11. made' \in Nat /\ made =< made' /\ \A n \in dropped' : n \in Nat /\ n =< made'
    BY <1>1, <2>6 DEF QInv, WireOK
  <2>12. SendersFit(sender', queue', wire.items)
    BY <2>1, <2>3
  <2> QED
    BY <1>1, <2>8, <2>9, <2>10, <2>11, <2>12, ProducerKeeps
<1> QED
  BY <1>2, <1>3

LEMMA StopKeeps ==
  ASSUME QInv, Stop \/ CloseNow
  PROVE  QInv'
<1>1. UNCHANGED <<made, pump, gate, direct, wire, sent, dropped>>
  BY DEF Stop, CloseNow, history
<1>2. CASE closeLocked
  BY <1>1, <1>2, CloseKeeps
<1>3. CASE UNCHANGED <<queue, sender>>
  BY <1>1, <1>3, QUnchanged DEF qVars
<1> QED
  BY <1>2, <1>3 DEF Stop, CloseNow

-----------------------------------------------------------------------------
(* The pump *)

LEMMA LoopKeeps ==
  ASSUME QInv, Loop
  PROVE  QInv'
<1>1. pump.at = "loop" /\ UNCHANGED <<made, sender, gate, direct, wire, sent, dropped>>
  BY DEF Loop, history
<1>2. queue.writing = NoItem
  BY <1>1 DEF QInv, PumpOK
<1>3. CASE UNCHANGED queue /\ (pump' = At("ended") \/ pump' = At("asleep"))
  <2>1. pump' = [at |-> pump'.at, item |-> NoItem] /\ pump'.at \in {"ended", "asleep"}
    BY <1>3 DEF At
  <2> QED
    BY <1>1, <1>2, <1>3, <2>1 DEF QInv, WireOK, PumpOK, InHand
<1>4. CASE /\ ~queue.closed /\ (queue.crit # <<>> \/ queue.order # <<>>)
           /\ queue' = dequeueLocked(queue) /\ pump' = [at |-> "gate", item |-> queue'.writing]
  <2> DEFINE e == dequeueLocked(queue)
  <2>1. Taken(e, queue, made, dropped)
    BY <1>2, <1>4, DequeuesCritical, DequeuesState DEF QInv
  <2>2. queue' = e /\ pump' = [at |-> "gate", item |-> e.writing]
    BY <1>4
  <2> HIDE DEF e
  <2>3. Whole(queue', made', dropped')
    BY <1>1, <2>1, <2>2 DEF Taken
  <2>4. \A item \in wire.items : Ahead(item, e.crit, e.order) /\ Ordered(item, e.writing)
    <3>1. \A item \in wire.items : item.id \in Nat /\ Ahead(item, queue.crit, queue.order)
      BY ItemIsItem DEF QInv, WireOK
    <3> QED
      BY <2>1, <3>1 DEF Taken
  <2>5. WireOK'
    BY <1>1, <2>2, <2>4 DEF QInv, WireOK
  <2>6. PumpOK'
    <3>1. /\ e.writing \in Item /\ e.writing.id =< made /\ e.writing.id \notin dropped
          /\ Ahead(e.writing, e.crit, e.order)
      BY <2>1 DEF Taken
    <3>2. pump'.at = "gate" /\ pump'.item = e.writing /\ pump' = [at |-> pump'.at, item |-> pump'.item]
      BY <2>2
    <3> QED
      BY <1>1, <2>2, <2>4, <3>1, <3>2 DEF PumpOK, InHand
  <2>7. SendersFit(sender', queue', wire'.items)
    <3>1. ASSUME NEW n, Carries(queue, n) PROVE Carries(e, n)
      <4>1. PICK a \in 1..Len(queue.crit) : queue.crit[a].id = n
        BY <1>2, <3>1 DEF Carries
      <4>2. queue.crit[a] = e.writing \/ \E x \in 1..Len(e.crit) : e.crit[x] = queue.crit[a]
        BY <2>1 DEF Taken
      <4>3. e.writing # NoItem
        BY <2>1, ItemIsItem DEF Taken
      <4> QED
        BY <4>1, <4>2, <4>3 DEF Carries
    <3>2. ~e.closed
      BY <2>1 DEF Taken
    <3>3. SendersFit(sender, e, wire.items)
      BY <3>1, <3>2, FitsMore DEF QInv
    <3> QED
      BY <1>1, <2>2, <3>3
  <2> QED
    BY <2>3, <2>5, <2>6, <2>7 DEF QInv
<1> QED
  BY <1>3, <1>4 DEF Loop

LEMMA GateKeeps ==
  ASSUME QInv, Wake \/ EnterGate \/ GateTimeout
  PROVE  QInv'
<1>1. UNCHANGED <<queue, made, sender, direct, wire, dropped>>
  BY DEF Wake, EnterGate, GateTimeout, history
<1>2. CASE Wake
  BY <1>1, <1>2 DEF Wake, At, history, QInv, WireOK, PumpOK, InHand
<1>3. CASE GateTimeout
  BY <1>1, <1>3 DEF GateTimeout, At, history, QInv, WireOK, PumpOK, InHand
<1>4. CASE EnterGate
  <2>1. pump.at = "gate" /\ gate = "free"
    BY <1>4 DEF EnterGate
  <2>2. CASE pump' = At("failed") /\ UNCHANGED <<sent, gate>>
    BY <1>1, <2>1, <2>2 DEF At, QInv, WireOK, PumpOK, InHand
  <2>3. CASE gate' = "pump" /\ pump' = [pump EXCEPT !.at = "writing"] /\ sent' = sent + 1
    <3>1. pump' = [at |-> "writing", item |-> pump.item]
      BY <2>3 DEF QInv, PumpOK
    <3>2. PumpOK'
      BY <1>1, <2>1, <3>1 DEF QInv, PumpOK, InHand
    <3>3. WireOK'
      BY <1>1, <2>1, <2>3, <3>1 DEF QInv, WireOK
    <3> QED
      BY <1>1, <3>2, <3>3 DEF QInv
  <2> QED
    BY <1>4, <2>2, <2>3 DEF EnterGate, BuildFrame
<1> QED
  BY <1>2, <1>3, <1>4

(* The write ends: the frame may have been written while the queue was      *)
(* closed, and is then nobody's.                                            *)
LEMMA EndWriteKeeps ==
  ASSUME QInv, EndWrite
  PROVE  QInv'
<1>1. /\ pump.at = "writing" /\ gate' = "free"
      /\ UNCHANGED <<queue, made, sender, direct, sent, dropped>>
  BY DEF EndWrite
<1>2. gate = "pump" /\ direct # "writing"
  BY <1>1 DEF QInv, WireOK
<1>3. CASE pump' = At("failed") /\ UNCHANGED wire
  BY <1>1, <1>2, <1>3 DEF At, QInv, WireOK, PumpOK, InHand
<1>4. CASE /\ wire' = [n |-> sent, items |-> wire.items \cup {pump.item}]
           /\ pump' = [pump EXCEPT !.at = "written"]
  <2>1. pump' = [at |-> "written", item |-> pump.item]
    BY <1>4 DEF QInv, PumpOK
  <2>2. /\ pump.item \in Item /\ pump.item.id =< made
        /\ Ahead(pump.item, queue.crit, queue.order)
    BY <1>1 DEF QInv, PumpOK, InHand
  <2>3. wire'.n = sent /\ wire'.items = wire.items \cup {pump.item}
    BY <1>4
  <2>4. WireOK'
    BY <1>1, <1>2, <1>4, <2>1, <2>2, <2>3 DEF QInv, WireOK
  <2>5. PumpOK'
    BY <1>1, <2>1, <2>3 DEF QInv, PumpOK, InHand
  <2>6. SendersFit(sender', queue', wire'.items)
    BY <1>1, <2>3, FitsMore DEF QInv
  <2> QED
    BY <1>1, <2>4, <2>5, <2>6 DEF QInv
<1> QED
  BY <1>3, <1>4 DEF EndWrite

LEMMA CompleteKeeps ==
  ASSUME QInv, Complete
  PROVE  QInv'
<1>1. pump.at = "written" /\ UNCHANGED <<made, gate, direct, wire, sent, dropped>>
  BY DEF Complete, history
<1>2. pump.item \in wire.items /\ pump.item \in Item
  BY <1>1 DEF QInv, PumpOK, InHand
<1>3. CASE queue.closed /\ pump' = At("ended") /\ UNCHANGED <<queue, sender>>
  <2>1. queue.writing = NoItem
    BY <1>3, OpenQueue, ClosedIsWhole DEF QInv
  <2> QED
    BY <1>1, <1>3, <2>1 DEF At, QInv, WireOK, PumpOK, InHand
<1>4. CASE ~queue.closed /\ completeLocked /\ pump' = At("loop")
  <2> DEFINE y == pump.item
             e == Release([queue EXCEPT !.writing = NoItem], y)
             told == resolveLocked(sender, {y.id}, "sent")
  <2>1. queue' = e /\ sender' = broadcastCapacityLocked(told)
    BY <1>4 DEF completeLocked
  <2>2. queue.writing = y
    BY <1>1, <1>4 DEF QInv, PumpOK, InHand
  <2>3. /\ Whole(e, made, dropped) /\ ~e.closed
        /\ e.crit = queue.crit /\ e.order = queue.order /\ e.writing = NoItem
    <3> HIDE DEF y
    <3> QED
      BY <1>2, <2>2, Completes DEF QInv, y
  <2> HIDE DEF e
  <2>4. SendersFit(told, e, wire.items)
    <3>1. \A n : Carries(queue, n) /\ n \notin {y.id} => Carries(e, n)
      BY <2>2, <2>3 DEF Carries
    <3>2. \A n \in {y.id} : \E item \in wire.items : item.id = n
      BY <1>2
    <3>3. \A n : ~queue.closed /\ Carries(queue, n) /\ n \notin {y.id} => ~e.closed /\ Carries(e, n)
      BY <2>3, <3>1
    <3> DEFINE ids == {y.id}
    <3> HIDE DEF ids, y
    <3>4. SendersFit(resolveLocked(sender, ids, "sent"), e, wire.items)
      BY <3>2, <3>3, ResolveFits DEF QInv, ids
    <3> QED
      BY <3>4 DEF ids, y
  <2>5. SendersFit(sender', queue', wire'.items)
    BY <1>1, <2>1, <2>4, BroadcastFits
  <2>6. Whole(queue', made', dropped')
    BY <1>1, <2>1, <2>3
  <2>7. WireOK' /\ PumpOK'
    BY <1>1, <1>4, <2>1, <2>3 DEF At, QInv, WireOK, PumpOK, InHand
  <2> QED
    BY <2>5, <2>6, <2>7 DEF QInv
<1> QED
  BY <1>3, <1>4 DEF Complete

LEMMA FailKeeps ==
  ASSUME QInv, Fail
  PROVE  QInv'
<1>1. pump.at = "failed" /\ pump' = At("ended")
      /\ UNCHANGED <<made, gate, direct, wire, sent, dropped>>
  BY DEF Fail, history
<1>2. queue' = Closed /\ SendersFit(sender', Closed, wire.items)
  <2>1. CASE closeLocked
    BY <2>1, CloseFits DEF QInv, closeLocked, AllFailed
  <2>2. CASE queue.closed /\ UNCHANGED <<queue, sender>>
    BY <2>2, OpenQueue DEF QInv
  <2> QED
    BY <2>1, <2>2 DEF Fail
<1>3. /\ Whole(Closed, made, dropped) /\ \A item : Ahead(item, Closed.crit, Closed.order)
      /\ Closed.writing = NoItem /\ Closed.closed
  BY ClosedIsWhole
<1> QED
  BY <1>1, <1>2, <1>3 DEF At, QInv, WireOK, PumpOK, InHand

LEMMA DirectWriteKeeps ==
  ASSUME QInv, WriteDirect \/ EndDirect
  PROVE  QInv'
<1>1. UNCHANGED <<queue, made, sender, pump, dropped>>
  BY DEF WriteDirect, EndDirect
<1>2. CASE WriteDirect
  BY <1>1, <1>2 DEF WriteDirect, QInv, WireOK, PumpOK, InHand
<1>3. CASE EndDirect
  <2>1. direct = "writing" /\ direct' = "ended" /\ gate' = "free" /\ gate = "direct"
        /\ sent' = sent /\ pump.at # "writing"
    BY <1>3 DEF EndDirect, QInv, WireOK
  <2>2. wire'.items = wire.items /\ wire' = [n |-> wire'.n, items |-> wire'.items]
        /\ wire'.n \in Nat /\ wire'.n =< sent
    <3>1. wire' = wire \/ wire' = [wire EXCEPT !.n = sent]
      BY <1>3 DEF EndDirect
    <3>2. wire = [n |-> wire.n, items |-> wire.items] /\ sent \in Nat /\ wire.n \in Nat /\ wire.n =< sent
      BY DEF QInv, WireOK
    <3>3. CASE wire' = wire
      BY <3>2, <3>3
    <3>4. CASE wire' = [wire EXCEPT !.n = sent]
      <4>1. wire' = [n |-> sent, items |-> wire.items]
        BY <3>2, <3>4
      <4> QED
        BY <3>2, <4>1
    <3> QED
      BY <3>1, <3>3, <3>4
  <2>3. WireOK'
    BY <1>1, <2>1, <2>2 DEF QInv, WireOK
  <2>4. PumpOK' /\ SendersFit(sender', queue', wire'.items)
    BY <1>1, <2>2 DEF QInv, PumpOK
  <2> QED
    BY <1>1, <2>3, <2>4 DEF QInv
<1> QED
  BY <1>2, <1>3

-----------------------------------------------------------------------------

LEMMA QInit == Init => QInv
<1> SUFFICES ASSUME Init PROVE QInv
  OBVIOUS
<1>1. queue = Q(<<>>, <<>>, NoItem, 0, 0, FALSE)
  BY DEF Init, Closed, Q
<1>2. Whole(queue, made, dropped)
  <2>1. <<>> \in Seq(Item) /\ Len(<<>>) = 0 /\ SizeOf(<<>>) = 0 /\ NoItem.size = 0
    BY SizeEmpty, ItemIsItem
  <2>2. Lanes(<<>>, <<>>, made, dropped)
    BY <2>1 DEF Lanes, Sorted
  <2>3. 0 =< MaxMessages /\ 0 =< MaxBytes
    BY OutboundConstants
  <2>4. PICK n, w : n = 0 /\ w = NoItem
    OBVIOUS
  <2>5. Whole(Q(<<>>, <<>>, w, n, n, FALSE), made, dropped)
    <3>1. /\ n = Len(<<>>) + Len(<<>>) + (IF w = NoItem THEN 0 ELSE 1)
          /\ n = SizeOf(<<>>) + SizeOf(<<>>) + w.size
      BY <2>1, <2>4
    <3> QED
      BY <2>1, <2>2, <2>3, <2>4, <3>1, WholeQ
  <2> QED
    BY <1>1, <2>4, <2>5
<1>3. queue.writing = NoItem
  BY <1>1 DEF Q
<1>4. WireOK
  BY OutboundConstants DEF Init, WireOK, At
<1>5. PumpOK
  BY <1>3 DEF Init, PumpOK, At, InHand
<1>6. SendersFit(sender, queue, wire.items)
  BY DEF Init, SendersFit, Fits
<1> QED
  BY <1>2, <1>4, <1>5, <1>6 DEF QInv

LEMMA QNext ==
  ASSUME QInv, [Next]_vars
  PROVE  QInv'
<1>1. CASE UNCHANGED vars
  BY <1>1, QUnchanged DEF vars, qVars
<1>2. CASE Producer
  BY <1>2, SynchronousKeeps, TryCriticalKeeps, TryStateKeeps, CancelStateKeeps DEF Producer
<1>3. CASE run
  BY <1>3, LoopKeeps, GateKeeps, EndWriteKeeps, CompleteKeeps, FailKeeps DEF run
<1>4. CASE Client
  <2>1. UNCHANGED qVars
    BY <1>4 DEF Client, EnterWorld, LeaveWorld, handleAck, history, qVars
  <2> QED
    BY <2>1, QUnchanged
<1>5. CASE Stop \/ CloseNow \/ WriteDirect \/ EndDirect
  BY <1>5, StopKeeps, DirectWriteKeeps
<1> QED
  BY <1>1, <1>2, <1>3, <1>4, <1>5 DEF Next

(* The budget is what is in the queue and in the writer's hand, whatever    *)
(* was evicted, replaced, cancelled, written or thrown away, and within     *)
(* what is allowed.                                                         *)
THEOREM BudgetIsWhatIsHeld == Spec => []BudgetKept
<1>1. ASSUME QInv PROVE BudgetKept
  <2> DEFINE c == queue.crit
             o == queue.order
             w == queue.writing
             last == IF w = NoItem THEN <<>> ELSE <<w>>
  <2>1. /\ c \in Seq(Item) /\ o \in Seq(Item) /\ w \in Item \cup {NoItem}
        /\ queue.messages = Len(c) + Len(o) + (IF w = NoItem THEN 0 ELSE 1)
        /\ queue.bytes = SizeOf(c) + SizeOf(o) + w.size
        /\ queue.messages =< MaxMessages /\ queue.bytes =< MaxBytes
    BY <1>1, OpenQueue DEF QInv
  <2> HIDE DEF c, o, w
  <2>2. last \in Seq(Item) /\ Len(last) = (IF w = NoItem THEN 0 ELSE 1) /\ SizeOf(last) = w.size
    <3>1. CASE w = NoItem
      BY <3>1, SizeEmpty, ItemIsItem
    <3>2. CASE w # NoItem
      <4>1. w \in Item /\ last = <<w>>
        BY <2>1, <3>2
      <4>a. <<>> \in Seq(Item)
        OBVIOUS
      <4>2. PICK none \in Seq(Item) : none = <<>>
        BY <4>a
      <4>3. SizeOf(Append(none, w)) = SizeOf(none) + w.size
        BY <4>1, <4>2, SizeAppend
      <4>4. Append(none, w) = <<w>>
        BY <4>1, <4>2
      <4> QED
        BY <3>2, <4>1, <4>2, <4>3, <4>4, SizeEmpty, ItemIsItem
    <3> QED
      BY <3>1, <3>2
  <2> HIDE DEF last
  <2>3. c \o o \in Seq(Item) /\ Len(c \o o) = Len(c) + Len(o) /\ SizeOf(c \o o) = SizeOf(c) + SizeOf(o)
    BY <2>1, ConcatProperties, SizeConcat
  <2>4. /\ Len((c \o o) \o last) = Len(c \o o) + Len(last)
        /\ SizeOf((c \o o) \o last) = SizeOf(c \o o) + SizeOf(last)
    BY <2>2, <2>3, ConcatProperties, SizeConcat
  <2> QED
    BY <2>1, <2>2, <2>3, <2>4 DEF BudgetKept, c, o, w, last
<1> QED
  BY <1>1, QInit, QNext, PTL DEF Spec

(* A synchronous send that succeeded was written, and a critical item that  *)
(* was admitted stays in the queue or in the writer's hand while the queue  *)
(* is open.                                                                 *)
THEOREM AdmittedIsNotLost == Spec => []NoSilentLoss
<1>1. ASSUME QInv PROVE NoSilentLoss
  <2> SUFFICES ASSUME NEW s \in Senders
               PROVE  /\ sender[s].at = "sent" => sender[s].item \in {i.id : i \in wire.items}
                      /\ sender[s].at = "admitted" =>
                           /\ sender[s].item \in {i.id : i \in ToSet(queue.crit) \cup {queue.writing}}
                           /\ ~queue.closed
    BY DEF NoSilentLoss
  <2>1. Fits(sender[s], queue, wire.items) /\ queue.crit \in Seq(Item)
    BY <1>1, OpenQueue DEF QInv, SendersFit
  <2>2. \A a \in 1..Len(queue.crit) : queue.crit[a] \in ToSet(queue.crit)
    BY <2>1 DEF ToSet
  <2> QED
    BY <2>1, <2>2 DEF Fits, Carries
<1> QED
  BY <1>1, QInit, QNext, PTL DEF Spec

(* Frames go out in the order of their numbers, only critical items         *)
(* overtake and only states, and no state that was cancelled without being  *)
(* reported as in flight is sent after all.                                 *)
THEOREM WireKeepsOrder == Spec => FramesInOrder
<1> DEFINE Order == /\ wire'.n > wire.n
                    /\ \A item \in wire'.items \ wire.items, earlier \in wire.items :
                         earlier.id > item.id => earlier.key = Critical /\ item.key # Critical
                    /\ \A item \in wire'.items \ wire.items : item.id \notin dropped
<1>1. ASSUME QInv, [Next]_vars PROVE [Order]_wire
  <2>1. SUFFICES ASSUME wire' # wire PROVE Order
    OBVIOUS
  <2>2. EndWrite \/ EndDirect
    BY <1>1, <2>1 DEF Next, vars, Producer, run, Client, history, SendCritical, Look, EnqueueTimeout,
                      CancelSend, TryCritical, TryState, CancelState, Stop, CloseNow, Loop, Wake,
                      EnterGate, GateTimeout, Complete, Fail, WriteDirect, EnterWorld, LeaveWorld,
                      handleAck
  <2>3. CASE EndWrite
    <3>1. /\ pump.at = "writing" /\ gate = "pump"
          /\ wire' = [n |-> sent, items |-> wire.items \cup {pump.item}]
      BY <1>1, <2>1, <2>3 DEF EndWrite, QInv, WireOK
    <3>2. /\ pump.item.id \notin dropped /\ \A item \in wire.items : Ordered(item, pump.item)
          /\ sent \in Nat /\ wire.n \in Nat /\ wire.n < sent
      BY <1>1, <3>1 DEF QInv, PumpOK, WireOK
    <3>3. wire'.n = sent /\ wire'.items = wire.items \cup {pump.item}
      BY <3>1
    <3> QED
      BY <3>2, <3>3 DEF Ordered
  <2>4. CASE EndDirect
    <3>1. gate = "direct" /\ wire' = [wire EXCEPT !.n = sent]
      BY <1>1, <2>1, <2>4 DEF EndDirect, QInv, WireOK
    <3>2. wire = [n |-> wire.n, items |-> wire.items] /\ sent \in Nat /\ wire.n \in Nat /\ wire.n < sent
      BY <1>1, <3>1 DEF QInv, WireOK
    <3>3. wire' = [n |-> sent, items |-> wire.items]
      BY <3>1, <3>2
    <3>4. wire'.n = sent /\ wire'.items = wire.items
      BY <3>3
    <3> QED
      BY <3>2, <3>4
  <2> QED
    BY <2>2, <2>3, <2>4
<1>2. QInv /\ [Next]_vars => [Order]_wire
  BY <1>1
<1> QED
  BY <1>2, QInit, QNext, PTL DEF Spec, FramesInOrder

=============================================================================
