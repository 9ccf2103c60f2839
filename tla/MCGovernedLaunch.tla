--------------------------- MODULE MCGovernedLaunch ---------------------------
(***************************************************************************)
(* Two governed tasks that want one worktree, for two runs and two         *)
(* requests.  The durations, in ticks, are those of each configuration.    *)
(***************************************************************************)
EXTENDS GovernedLaunch, TLC

CONSTANTS t1, t2, r1, r2, w1, h1, repoA, src

MCTask == {t1, t2}
MCOneTask == {t1}
MCRun == {r1, r2}
MCWorktree == {w1}
MCCommit == {h1}
MCRepo == {repoA}
MCPath == {src}
MCProfile == {[repo |-> repoA, scope |-> {src}, base |-> h1, allocated |-> 2]}
MCOutcome == {"worker-complete", "worker-failed"}
MCSymmetry == Permutations(MCTask) \cup Permutations(MCRun) \cup Permutations(Req)
=============================================================================
