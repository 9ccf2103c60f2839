------------------------------ MODULE MCAutopilot ------------------------------
(***************************************************************************)
(* Two controllers that start two commands between them, one of which may  *)
(* die or have its saves throw; and three with a paid repair each, so that *)
(* two may race for the lock of the third.                                 *)
(***************************************************************************)
EXTENDS Autopilot, TLC

CONSTANTS p1, p2, p3

MCProc == {p1, p2, p3}

\* Who starts before p does: an idle controller is as good as another.
Before(p) == IF p = p1 THEN {} ELSE IF p = p2 THEN {p1} ELSE {p1, p2}

\* Two controllers at the lock of a dead one whose child still works, all of
\* them with a repair and no draft.
Racing ==
  /\ Stale /\ Cardinality(Working) = 1
  /\ \A p \in Proc : Live(p) => At(p, "acquire")
  /\ \A p \in Proc : Live(p)' => job'[p].unlocked /\ ~job'[p].publish

\* A third command is given only for the race, in which no build fails and no
\* model is called.
Few ==
  /\ \A p \in Proc : job[p] = None /\ job'[p] # None => \A q \in Before(p) : job[q] # None
  /\ crashes' + Cardinality({r \in RunId : threw'[r] > 0}) <= 1
  /\ runs = 2 /\ runs' = 3 => Racing
  /\ runs = 3 => /\ paid' = paid
                 /\ \A p \in Proc : At(p, "work") /\ job[p].run.state # "EXECUTE" => ~At(p, "failed")'
=============================================================================
