----------------------------- MODULE AckWindow -----------------------------
(* Sequence numbers of the frames sent to one session, and the window of    *)
(* frames it has not acknowledged yet (internal/session/session.go).  The   *)
(* window exists from the moment a session is in the world until it leaves. *)
EXTENDS Serial

CONSTANTS
  Modulus,    \* 2^32: sequence numbers wrap there
  MaxUnacked  \* OutboundPolicy.MaxUnackedMessages, at most MaxUnackedWindow

(* The code's window ends at a million, far below half the modulus; a        *)
(* terminal frame may stand above a full one.                               *)
ASSUME WindowConstants ==
  /\ Modulus \in Nat \ {0} /\ Modulus % 2 = 0
  /\ MaxUnacked \in 1..(Modulus \div 2 - 2)

SeqNumbers == 0..(Modulus - 1)

Flows == [inWorld: BOOLEAN, serverSeq: SeqNumbers, lastAck: SeqNumbers, lastFlowSent: SeqNumbers]

Lag(flow) == (flow.lastFlowSent - flow.lastAck) % Modulus

CompleteEnterWorld(flow) ==
  [flow EXCEPT !.inWorld = TRUE, !.lastAck = flow.serverSeq, !.lastFlowSent = flow.serverSeq]

CompleteLeaveWorld(flow) ==
  [flow EXCEPT !.inWorld = FALSE, !.lastAck = 0, !.lastFlowSent = 0]

NextServerSeq(flow) == [flow EXCEPT !.serverSeq = (@ + 1) % Modulus]

(* A full window is an error before a number is taken.                      *)
NextFlowControlledServerSeq(flow) ==
  LET next == NextServerSeq(flow)
  IN IF ~flow.inWorld THEN {next}
     ELSE {f \in {[next EXCEPT !.lastFlowSent = next.serverSeq]} : Lag(flow) < MaxUnacked}

(* Mutant: whatever is not ahead moves the window.                          *)
TakeAnyAck(flow, ack) ==
  IF After(Modulus, ack, flow.lastFlowSent) THEN flow ELSE [flow EXCEPT !.lastAck = ack]

(* A duplicate, a stale and a future acknowledgement change nothing.        *)
ApplyAck(flow, ack) ==
  IF /\ After(Modulus, ack, flow.lastAck)
     /\ ~After(Modulus, ack, flow.lastFlowSent)
  THEN [flow EXCEPT !.lastAck = ack] ELSE flow

=============================================================================
