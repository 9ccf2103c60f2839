---------------------------- MODULE MCControlStore ----------------------------
(***************************************************************************)
(* Two tasks that may collide on a worktree or on a scope ("src" lies      *)
(* above "src/a"), two repositories, and enough ticks for a lease to       *)
(* expire and be taken over.                                               *)
(***************************************************************************)
EXTENDS ControlStore, TLC

CONSTANTS t1, t2, r1, r2, r3, w1, w2, h1, h2, repoA, repoB, src, srcA

MCTask == {t1, t2}
MCRun == {r1, r2, r3}
MCWorktree == {w1, w2}
MCCommit == {h1, h2}
MCRepo == {repoA, repoB}
MCPath == {src, srcA}
MCBelow == {<<srcA, src>>}
MCProfile ==
  {[repo |-> repoA, scope |-> {src},  base |-> h1, allocated |-> 3],
   [repo |-> repoA, scope |-> {srcA}, base |-> h1, allocated |-> 2],
   [repo |-> repoB, scope |-> {src},  base |-> h1, allocated |-> 2]}

Symmetry == Permutations(MCWorktree) \cup Permutations(MCRun) \cup Permutations(MCTask)
=============================================================================
