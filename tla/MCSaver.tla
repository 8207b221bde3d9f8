------------------------------ MODULE MCSaver ------------------------------
(* Model-checking instances of Saver.                                      *)
EXTENDS Saver, TLC

CallerSymmetry == Permutations(Callers)

=============================================================================
