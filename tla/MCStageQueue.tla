---------------------------- MODULE MCStageQueue ----------------------------
(* Small instances of StageQueue for TLC. *)
EXTENDS StageQueue, TLC

CONSTANTS w1, w2, w3

TwoWaiters == {w1, w2}
ThreeWaiters == {w1, w2, w3}
WaiterSymmetry == Permutations(Waiters)

=============================================================================
