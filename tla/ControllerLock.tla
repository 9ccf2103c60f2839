---------------------------- MODULE ControllerLock ----------------------------
(***************************************************************************)
(* The lock file of the autopilot controller (controller/lib/lock.js), as  *)
(* withLock of controller/siteboss-autopilot.js uses it: acquire, run the  *)
(* command, release.                                                       *)
(*                                                                         *)
(* Each step is one file system call, so that other processes may act      *)
(* between a check and the call that relies on it.  The command runs to    *)
(* its end without returning to the event loop (every child is started     *)
(* with spawnSync), so the heartbeat timer of withLock never fires before  *)
(* the release, and the age of a held lock only grows.  A file is named by *)
(* the process that created it.  On its own host pidAlive is exact here:   *)
(* the code would also take a process it may not signal (EPERM) for dead,  *)
(* and another one that was given a dead holder's pid for alive.           *)
(***************************************************************************)
EXTENDS Integers

CONSTANTS
  Proc,        \* controller processes
  Host,        \* Proc -> the machine it runs on
  Attempts,    \* tries of acquire (3)
  MaxCrashes,  \* bound: processes that die
  TornCrash,   \* whether a process may die between creating and writing the file
  Slow,        \* whether a command may outlast lock_timeout_seconds
  None         \* no file, no process

ASSUME LockConstants ==
  /\ None \notin Proc /\ Attempts \in Nat \ {0} /\ MaxCrashes \in Nat
  /\ TornCrash \in BOOLEAN /\ Slow \in BOOLEAN

VARIABLES
  file,     \* the process whose file is at the path, or None
  written,  \* processes that wrote their file's contents
  aged,     \* processes whose file is older than lock_timeout_seconds
  pc,       \* Proc -> next call
  tries,    \* Proc -> attempts made
  seen,     \* Proc -> whose lock the last inspection returned
  rival,    \* history: processes that met another live one while acquiring
  raced,    \* history: a lock was created between a second look and its unlink
  crashes

lockVars == <<file, written, aged, pc, tries, seen, rival, raced, crashes>>

Acquiring == {"create", "write", "inspect", "verify", "unlink"}
Holding == {"own", "release", "remove"}

-----------------------------------------------------------------------------
(* Helpers.                                                                *)

\* A controller's process ends with its command.
Alive(p) == pc[p] \in Acquiring \cup Holding

\* inspect(): the lock at the path; an empty or missing file reads as null.
Inspect == IF file \in written THEN file ELSE None

\* A staleness test by age alone.
MutHeld(p, q) == q \notin aged

\* The lock of q is respected by p: a live process of the same machine, or a
\* lock of another machine that is not too old.
Held(p, q) == IF Host[p] = Host[q] THEN Alive(q) ELSE q \notin aged

\* open(..., 'wx')
CanCreate == file = None

Mine(p) == Inspect = p

\* The next pass of acquire's loop, or LOCK_BUSY after the last.
Again(p) ==
  /\ tries' = [tries EXCEPT ![p] = @ + 1]
  /\ pc' = [pc EXCEPT ![p] = IF tries[p] + 1 < Attempts THEN "create" ELSE "busy"]

\* The history: who met whom, and whether a lock appeared under an unlink.
Observe ==
  /\ rival' = rival \cup
       {p \in Proc : pc'[p] \in Acquiring /\ \E q \in Proc \ {p} : Alive(q) \/ Alive(q)'}
  /\ raced' = (raced \/ (file' # file /\ file' # None /\ \E p \in Proc : pc[p] = "unlink"))
-----------------------------------------------------------------------------
(* Steps.                                                                  *)

LockInit ==
  /\ file = None /\ written = {} /\ aged = {} /\ rival = {} /\ raced = FALSE /\ crashes = 0
  /\ pc = [p \in Proc |-> "idle"]
  /\ tries = [p \in Proc |-> 0]
  /\ seen = [p \in Proc |-> None]

Start(p) ==
  /\ pc[p] = "idle"
  /\ pc' = [pc EXCEPT ![p] = "create"]
  /\ UNCHANGED <<file, written, aged, tries, seen, crashes>>
  /\ Observe

Create(p) ==
  /\ pc[p] = "create"
  /\ IF CanCreate
     THEN file' = p /\ pc' = [pc EXCEPT ![p] = "write"]
     ELSE pc' = [pc EXCEPT ![p] = "inspect"] /\ UNCHANGED file
  /\ UNCHANGED <<written, aged, tries, seen, crashes>>
  /\ Observe

\* The contents reach the file p created, wherever it is by now.
Write(p) ==
  /\ pc[p] = "write"
  /\ written' = written \cup {p}
  /\ pc' = [pc EXCEPT ![p] = "own"]
  /\ UNCHANGED <<file, aged, tries, seen, crashes>>
  /\ Observe

FirstLook(p) ==
  /\ pc[p] = "inspect"
  /\ IF Inspect = None
     THEN Again(p) /\ UNCHANGED seen
     ELSE /\ seen' = [seen EXCEPT ![p] = Inspect]
          /\ pc' = [pc EXCEPT ![p] = IF Held(p, Inspect) THEN "held" ELSE "verify"]
          /\ UNCHANGED tries
  /\ UNCHANGED <<file, written, aged, crashes>>
  /\ Observe

\* sameLockIdentity: the second inspection must show the same lock.
SecondLook(p) ==
  /\ pc[p] = "verify"
  /\ IF Inspect = seen[p]
     THEN pc' = [pc EXCEPT ![p] = "unlink"] /\ UNCHANGED tries
     ELSE Again(p)
  /\ UNCHANGED <<file, written, aged, seen, crashes>>
  /\ Observe

\* unlink takes whatever file is at the path.
Unlink(p) ==
  /\ pc[p] = "unlink"
  /\ file' = None
  /\ Again(p)
  /\ UNCHANGED <<written, aged, seen, crashes>>
  /\ Observe

Finish(p) ==
  /\ pc[p] = "own"
  /\ pc' = [pc EXCEPT ![p] = "release"]
  /\ UNCHANGED <<file, written, aged, tries, seen, crashes>>
  /\ Observe

Release(p) ==
  /\ pc[p] = "release"
  /\ pc' = [pc EXCEPT ![p] = IF Mine(p) THEN "remove" ELSE "done"]
  /\ UNCHANGED <<file, written, aged, tries, seen, crashes>>
  /\ Observe

Remove(p) ==
  /\ pc[p] = "remove"
  /\ file' = None
  /\ pc' = [pc EXCEPT ![p] = "done"]
  /\ UNCHANGED <<written, aged, tries, seen, crashes>>
  /\ Observe

Age(p) ==
  /\ Slow /\ file = p
  /\ aged' = aged \cup {p}
  /\ UNCHANGED <<file, written, pc, tries, seen, crashes>>
  /\ Observe

Crash(p) ==
  /\ crashes < MaxCrashes /\ Alive(p)
  /\ pc[p] = "write" => TornCrash
  /\ crashes' = crashes + 1
  /\ pc' = [pc EXCEPT ![p] = "dead"]
  /\ UNCHANGED <<file, written, aged, tries, seen>>
  /\ Observe

Step(p) ==
  \/ Start(p) \/ Create(p) \/ Write(p) \/ FirstLook(p) \/ SecondLook(p) \/ Unlink(p)
  \/ Finish(p) \/ Release(p) \/ Remove(p) \/ Age(p) \/ Crash(p)

LockNext == \E p \in Proc : Step(p)

LockSpec == LockInit /\ [][LockNext]_lockVars
-----------------------------------------------------------------------------
(* Properties.                                                             *)

\* controller/README.md promises an "exclusive controller lock": at most one
\* process is between a successful acquire and its release.
OneController ==
  \A p, q \in Proc : p # q => ~(pc[p] \in Holding /\ pc[q] \in Holding)

\* What the second look does achieve: without a lock created between a
\* contender's second look and its unlink, the lock of a running controller is
\* at the path, complete, until it releases it itself, however often other
\* contenders recover stale locks; so at most one runs.
HolderKeepsLock ==
  ~raced => \A p \in Proc : pc[p] \in Holding => Inspect = p

\* controller/README.md promises "stale-lock recovery": an acquire is refused
\* only to a process that met another live controller meanwhile.
RefusedMeansRival == \A p \in Proc : pc[p] \in {"held", "busy"} => p \in rival
=============================================================================
