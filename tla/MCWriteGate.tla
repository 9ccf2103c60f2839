------------------------------ MODULE MCWriteGate ------------------------------
(***************************************************************************)
(* Two writers, one comment and requests without a key.  The limits keep   *)
(* the order of the code's 2, 60, 120 and 300 seconds.                     *)
(***************************************************************************)
EXTENDS WriteGate, TLC

CONSTANTS a1, a2

MCWriter == {a1, a2}
MCSymmetry == Permutations(Writer)
=============================================================================
