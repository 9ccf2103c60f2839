--------------------------- MODULE MCControllerLock ---------------------------
(***************************************************************************)
(* Three controllers on one machine, and two on two machines.              *)
(***************************************************************************)
EXTENDS ControllerLock, TLC

CONSTANTS p1, p2, p3, here, there

MCThree == {p1, p2, p3}
MCTwo == {p1, p2}
OneMachine == [p \in Proc |-> here]
TwoMachines == [p \in Proc |-> IF p = p1 THEN here ELSE there]
MCSymmetry == Permutations(Proc)
=============================================================================
