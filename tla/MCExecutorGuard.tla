--------------------------- MODULE MCExecutorGuard ---------------------------
(***************************************************************************)
(* Two leases and two runners on one worktree: a file in scope, one out of *)
(* it and one that Git ignores.  The second plan has a wider scope.        *)
(***************************************************************************)
EXTENDS ExecutorGuard

CONSTANTS l1, l2, r1, r2, inside, outside, cached

MCLease == {l1, l2}
MCRunner == {r1, r2}
MCPath == {inside, outside, cached}
MCIgnored == {cached}
MCScope == <<{inside}, {inside, outside}>>
MCEnvelope == {inside}

\* One write beside a new plan or a death, or two more writes instead of these:
\* a change, its taking back and the change again.  What is written differs from
\* the commit in one path, or in Git's state.
Few ==
  /\ plan' - 1 + deaths' + (IF writes' > 1 THEN 1 ELSE 0) <= 1
  /\ Cardinality(Changed(Head, tree')) <= 1 /\ (writes' > 1 => Linked(tree') = {})
  /\ history' # "base" => tree' = Head /\ writes' = 1 /\ plan' + deaths' = 1
  \* Only renamings are lost by these.
  /\ lease'[l2].st # "none" => lease'[l1].st # "none"
  /\ runner'[r2].pc # "idle" => runner'[r1].pc # "idle"
=============================================================================
