---------------------------- MODULE MCRepairSession ----------------------------
(***************************************************************************)
(* Two defect families: d1, which every round shows and the lesson         *)
(* repairs, and d2, which only the full suite shows and a round may miss.  *)
(***************************************************************************)
EXTENDS RepairSession

CONSTANTS d1, d2

MCDefect == {d1, d2}
MCBroad == {d2}
MCLesson == {d1}

\* The head moves in sessions nobody stops.
Few == head' > 1 => asked' = "no" /\ ~stop'
=============================================================================
