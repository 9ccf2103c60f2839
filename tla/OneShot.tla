------------------------------- MODULE OneShot -------------------------------
(***************************************************************************)
(* What the executor guard promises whoever pays for a worker: a lease     *)
(* admits one paid start and no second one, and a start it admitted may    *)
(* still get lost.                                                         *)
(***************************************************************************)
CONSTANTS Lease, Runner, None

VARIABLES
  spent,  \* the leases whose paid start was given out
  paid    \* Runner -> the lease it started to spend money under, or None

shotVars == <<spent, paid>>

ShotInit == spent = {} /\ paid = [r \in Runner |-> None]

\* Both at once: nobody may start under a lease that is not spent in time.
Shoot(r, l) ==
  /\ l \notin spent /\ paid[r] = None
  /\ spent' = spent \cup {l}
  /\ paid' = [paid EXCEPT ![r] = l]

ShotNext == \E r \in Runner, l \in Lease : Shoot(r, l)

ShotSpec == ShotInit /\ [][ShotNext]_shotVars
=============================================================================
