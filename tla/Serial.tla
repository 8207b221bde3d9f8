------------------------------- MODULE Serial -------------------------------
(* Serial numbers modulo m, an even number (internal/serial32, where m is   *)
(* 2^32): the order of a circle in which neither of two numbers at distance *)
(* m/2 is after the other.                                                  *)
EXTENDS Integers

After(m, a, b) == LET d == (a - b) % m IN d # 0 /\ d < m \div 2

Before(m, a, b) == After(m, b, a)

(* The exact half range: isAmbiguousSeq of internal/sim/movement.go.        *)
Ambiguous(m, a, b) == a # b /\ ~After(m, a, b) /\ ~Before(m, a, b)

=============================================================================
