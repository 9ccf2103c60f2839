------------------------------- MODULE Autopilot -------------------------------
(***************************************************************************)
(* The commands of the autopilot controller                                *)
(* (controller/siteboss-autopilot.js): the run record that is moved        *)
(* through the state machine of lib/machine.js and saved by lib/runs.js,   *)
(* and the two child processes of a repair, Repair Rat and Rat Review,     *)
(* which lib/repair-adapter.js starts and waits for.                       *)
(*                                                                         *)
(* Controllers are processes that may die at any step; a child outlives    *)
(* its controller.  Any saveRun may throw, having written the run's record *)
(* or not (MaxFaults times a run); latest-run.json, which it writes        *)
(* second, decides nothing but what status prints and is left out.  The    *)
(* lock of lib/lock.js is the file with its holder's name, a look at it    *)
(* and the later unlink of whatever is there by then; ControllerLock.tla   *)
(* has every call of it.  As there, process.kill(pid, 0) tells the living  *)
(* from the dead.  The commands control, plan and run differ only in what  *)
(* they print and are "plan" here; resume runs the same command.           *)
(***************************************************************************)
EXTENDS Integers, FiniteSets, Sequences

CONSTANTS
  Proc,        \* controller processes
  Orders,      \* the commands given, with the unlocks of their environment
  MaxRuns,     \* bound: commands started
  MaxCrashes,  \* bound: controllers that die
  MaxFaults,   \* bound: saves of a run that throw
  None

Command == {"dry-run", "plan", "repair"}

\* unlocked and publish are SITEBOSS_ALLOW_PAID_REPAIR and
\* SITEBOSS_ALLOW_DRAFT_PUBLISH.  They matter to a repair only, and the
\* second together with the first.
Order == {o \in [command : Command, unlocked : BOOLEAN, publish : BOOLEAN] :
            (o.unlocked => o.command = "repair") /\ (o.publish => o.unlocked)}

ASSUME AutopilotConstants ==
  /\ Orders \subseteq Order
  /\ None \notin Proc /\ IsFiniteSet(Proc)
  /\ MaxRuns \in Nat \ {0} /\ MaxCrashes \in Nat /\ MaxFaults \in Nat

VARIABLES
  disk,     \* run id -> the saved record, or None
  holder,   \* the process in the lock file, or None
  job,      \* Proc -> its command: next step, run, and the record in memory
  child,    \* run id -> its child process: none, repair, review or ended
  paid,     \* run id -> model calls made, of which GitHub and the vendor know
  pushed,   \* run id -> writes made to GitHub: the branch, then the draft
  exit,     \* run id -> exit code, or None
  threw,    \* run id -> saves of it that threw
  evicted,  \* history: locks of live controllers that another one removed
  runs, crashes

autoVars == <<disk, holder, job, child, paid, pushed, exit, threw, evicted, runs, crashes>>

RunId == 1 .. MaxRuns
RunState == {"BOOT", "PREFLIGHT", "SYNC", "READ_CONTROL", "INSPECT", "PLAN", "QUEUE", "EXECUTE",
             "VALIDATE", "REVIEW", "COMMIT", "PUBLISH", "UPDATE_CONTROL", "CHECK_NEXT_WORK",
             "COMPLETE", "NEEDS_OWNER", "SAFE_STOP"}

\* model_calls and github_writes are the counters `costs` adds up.
NewRecord(c) ==
  [command |-> c, state |-> "BOOT", finished |-> FALSE, model_calls |-> 0, github_writes |-> 0]

RecordType == [command : Command, state : RunState, finished : BOOLEAN,
               model_calls : Nat, github_writes : Nat]

JobType == [pc : {"acquire", "unlink", "work", "failed", "release", "remove", "dead"}, id : RunId,
            run : RecordType, unlocked : BOOLEAN, publish : BOOLEAN]

ASSUME NoneIsNoJob == None \notin JobType

Dead == [pc |-> "dead", id |-> 1, run |-> NewRecord("plan"), unlocked |-> FALSE, publish |-> FALSE]

-----------------------------------------------------------------------------
(* machine.js.                                                             *)

\* The states the commands never enter (BLOCKED, RETRY_WAIT, RECOVERY, the
\* repair states) are left out.
ALLOWED == [s \in RunState |->
  CASE s = "BOOT"            -> {"PREFLIGHT", "SAFE_STOP"}
    [] s = "PREFLIGHT"       -> {"SYNC", "SAFE_STOP"}
    [] s = "SYNC"            -> {"READ_CONTROL", "SAFE_STOP"}
    [] s = "READ_CONTROL"    -> {"INSPECT", "SAFE_STOP"}
    [] s = "INSPECT"         -> {"PLAN", "SAFE_STOP"}
    [] s = "PLAN"            -> {"QUEUE", "NEEDS_OWNER", "SAFE_STOP"}
    [] s = "QUEUE"           -> {"EXECUTE", "COMPLETE", "SAFE_STOP"}
    [] s = "EXECUTE"         -> {"VALIDATE", "NEEDS_OWNER", "SAFE_STOP"}
    [] s = "VALIDATE"        -> {"REVIEW", "NEEDS_OWNER", "SAFE_STOP"}
    [] s = "REVIEW"          -> {"COMMIT", "NEEDS_OWNER", "SAFE_STOP"}
    [] s = "COMMIT"          -> {"PUBLISH", "NEEDS_OWNER", "SAFE_STOP"}
    [] s = "PUBLISH"         -> {"UPDATE_CONTROL", "NEEDS_OWNER", "SAFE_STOP"}
    [] s = "UPDATE_CONTROL"  -> {"CHECK_NEXT_WORK", "NEEDS_OWNER", "SAFE_STOP"}
    [] s = "CHECK_NEXT_WORK" -> {"PLAN", "COMPLETE", "SAFE_STOP"}
    [] s = "NEEDS_OWNER"     -> {"SAFE_STOP"}
    [] OTHER                 -> {}]

\* transition() succeeds along the whole path.
Legal(path) == \A i \in 1 .. Len(path) - 1 : path[i + 1] \in ALLOWED[path[i]]
-----------------------------------------------------------------------------
(* Helpers.                                                                *)

At(p, label) == job[p] # None /\ job[p].pc = label

\* A controller that is running a command.
Live(p) == job[p] # None /\ job[p].pc # "dead"

\* A look that takes every holder for dead.
MutStale == holder # None

\* The lock in the file is that of a dead process.
Stale == holder # None /\ At(holder, "dead")

\* unlink: whoever's lock is there by now.
Unlinked(p) ==
  /\ holder' = None
  /\ evicted' = IF holder \in Proc \ {p} /\ Live(holder) THEN evicted + 1 ELSE evicted

Saved(id, rec) == disk' = [disk EXCEPT ![id] = rec] /\ UNCHANGED threw

\* The record is written or not; the save throws.
SaveThrows(id, rec) ==
  /\ threw[id] < MaxFaults
  /\ threw' = [threw EXCEPT ![id] = @ + 1]
  /\ disk' = [disk EXCEPT ![id] = rec] \/ UNCHANGED disk

\* The record of p's run moves to its next state and is saved.
Continue(p, rec) ==
  /\ \/ Saved(job[p].id, rec) /\ job' = [job EXCEPT ![p].run = rec]
     \/ SaveThrows(job[p].id, rec) /\ job' = [job EXCEPT ![p].run = rec, ![p].pc = "failed"]
  /\ UNCHANGED exit

\* An error on the way: withLock's catch comes next.
Fail(p) ==
  /\ job' = [job EXCEPT ![p].pc = "failed"]
  /\ UNCHANGED <<disk, exit, threw>>

\* The command is over, if its last save succeeds.
End(p, rec) ==
  \/ /\ Saved(job[p].id, rec)
     /\ exit' = [exit EXCEPT ![job[p].id] = 0]
     /\ job' = [job EXCEPT ![p].run = rec, ![p].pc = "release"]
  \/ /\ SaveThrows(job[p].id, rec)
     /\ job' = [job EXCEPT ![p].run = rec, ![p].pc = "failed"]
     /\ UNCHANGED exit

\* A transition that is not legal throws, and the command fails.
EndAt(p, path, rec) ==
  IF Legal(<<rec.state>> \o path)
  THEN End(p, [rec EXCEPT !.state = path[Len(path)], !.finished = TRUE])
  ELSE Fail(p)

\* A failure path that leaves the state as it found it.
MutStopped(rec) == [rec EXCEPT !.finished = TRUE]

\* SAFE_STOP, unless that is no legal transition or the run is COMPLETE.
Stopped(rec) ==
  [rec EXCEPT !.state = IF Legal(<<rec.state, "SAFE_STOP">>) THEN "SAFE_STOP" ELSE @, !.finished = TRUE]
-----------------------------------------------------------------------------
(* The command.                                                            *)

AutoInit ==
  /\ disk = [r \in RunId |-> None] /\ holder = None
  /\ job = [p \in Proc |-> None]
  /\ child = [r \in RunId |-> [at |-> "none", publish |-> FALSE, passed |-> FALSE]]
  /\ paid = [r \in RunId |-> 0] /\ pushed = [r \in RunId |-> 0]
  /\ exit = [r \in RunId |-> None] /\ threw = [r \in RunId |-> 0]
  /\ evicted = 0 /\ runs = 0 /\ crashes = 0

\* createRun.
CreateRun(p, o) ==
  /\ job[p] = None /\ runs < MaxRuns
  /\ runs' = runs + 1
  /\ Saved(runs + 1, NewRecord(o.command))
  /\ job' = [job EXCEPT ![p] = [pc |-> "acquire", id |-> runs + 1, run |-> NewRecord(o.command),
                                unlocked |-> o.unlocked, publish |-> o.publish]]
  /\ UNCHANGED <<holder, child, paid, pushed, exit, evicted, crashes>>

\* createRun throws outside the try: the process ends with node's code 1.
CreateFails(p, o) ==
  /\ job[p] = None /\ runs < MaxRuns
  /\ runs' = runs + 1
  /\ SaveThrows(runs + 1, NewRecord(o.command))
  /\ exit' = [exit EXCEPT ![runs + 1] = 1]
  /\ UNCHANGED <<holder, job, child, paid, pushed, evicted, crashes>>

Acquire(p) ==
  /\ At(p, "acquire") /\ holder = None
  /\ holder' = p
  /\ job' = [job EXCEPT ![p].pc = "work"]
  /\ UNCHANGED <<disk, child, paid, pushed, exit, threw, evicted, runs, crashes>>

\* Both looks show the lock of a dead process.
Look(p) ==
  /\ At(p, "acquire") /\ Stale
  /\ job' = [job EXCEPT ![p].pc = "unlink"]
  /\ UNCHANGED <<disk, holder, child, paid, pushed, exit, threw, evicted, runs, crashes>>

\* The next attempt follows, or after the last LOCK_BUSY, which fails the run
\* like any other error.
Unlink(p) ==
  /\ At(p, "unlink")
  /\ Unlinked(p)
  /\ \/ job' = [job EXCEPT ![p].pc = "acquire"] /\ UNCHANGED <<disk, exit, threw>>
     \/ Fail(p)
  /\ UNCHANGED <<child, paid, pushed, runs, crashes>>

\* LOCK_HELD; or LOCK_BUSY, when each attempt met a file that could not be
\* read or changed between the looks.
Refused(p) ==
  /\ At(p, "acquire") /\ holder # None
  /\ Fail(p)
  /\ UNCHANGED <<holder, child, paid, pushed, evicted, runs, crashes>>

\* A plan that is never queued.
MutFollowing == [BOOT |-> "PREFLIGHT", PREFLIGHT |-> "SYNC", SYNC |-> "READ_CONTROL",
                 READ_CONTROL |-> "INSPECT", INSPECT |-> "PLAN"]

\* What the command does once it has the lock, each stage ending in a
\* transition: preflight and build().
Following == [BOOT |-> "PREFLIGHT", PREFLIGHT |-> "SYNC", SYNC |-> "READ_CONTROL",
              READ_CONTROL |-> "INSPECT", INSPECT |-> "PLAN", PLAN |-> "QUEUE"]

\* doctor, readControl, ensureMirror, buildScope and buildPacket succeed; a
\* dry run saves nothing between PREFLIGHT and its end.
Build(p) ==
  LET s == job[p].run.state IN
    /\ At(p, "work") /\ s \in DOMAIN Following
    /\ IF job[p].run.command = "dry-run" /\ s # "BOOT"
       THEN job' = [job EXCEPT ![p].run.state = Following[s]] /\ UNCHANGED <<disk, exit, threw>>
       ELSE Continue(p, [job[p].run EXCEPT !.state = Following[s]])
    /\ UNCHANGED <<holder, child, paid, pushed, evicted, runs, crashes>>

\* One of them throws.
BuildFails(p) ==
  /\ At(p, "work") /\ job[p].run.state \in DOMAIN Following
  /\ Fail(p)
  /\ UNCHANGED <<holder, child, paid, pushed, evicted, runs, crashes>>

PlanReady(p) ==
  /\ At(p, "work") /\ job[p].run.state = "QUEUE" /\ job[p].run.command # "repair"
  /\ EndAt(p, <<"COMPLETE">>, job[p].run)
  /\ UNCHANGED <<holder, child, paid, pushed, evicted, runs, crashes>>

\* 'Paid repair locked': the throw follows, unless the transition to
\* NEEDS_OWNER threw already.
Locked(p) ==
  /\ At(p, "work") /\ job[p].run.state = "QUEUE" /\ job[p].run.command = "repair"
  /\ ~job[p].unlocked
  /\ Fail(p)
  /\ UNCHANGED <<holder, child, paid, pushed, evicted, runs, crashes>>

StartRepair(p) ==
  /\ At(p, "work") /\ job[p].run.state = "QUEUE" /\ job[p].run.command = "repair"
  /\ job[p].unlocked
  /\ Continue(p, [job[p].run EXCEPT !.state = "EXECUTE"])
  /\ child' = IF At(p, "failed")' THEN child
              ELSE [child EXCEPT ![job[p].id].at = "repair", ![job[p].id].publish = job[p].publish]
  /\ UNCHANGED <<holder, paid, pushed, evicted, runs, crashes>>

\* A child that exits with a code other than 0 is not trusted.
ChildFailed(p) ==
  /\ At(p, "work") /\ child[job[p].id].at = "ended" /\ ~child[job[p].id].passed
  /\ Fail(p)
  /\ UNCHANGED <<holder, child, paid, pushed, evicted, runs, crashes>>

\* model_calls is not brought up to date.
MutCounted(rec, id) == [rec EXCEPT !.state = "REVIEW"]

\* The calls the accepted repair report names are added.
Counted(rec, id) == [rec EXCEPT !.state = "REVIEW", !.model_calls = @ + paid[id]]

StartReview(p) ==
  /\ At(p, "work") /\ job[p].run.state = "EXECUTE"
  /\ child[job[p].id].at = "ended" /\ child[job[p].id].passed
  /\ Continue(p, Counted(job[p].run, job[p].id))
  /\ child' = IF At(p, "failed")' THEN child
              ELSE [child EXCEPT ![job[p].id].at = "review", ![job[p].id].passed = FALSE]
  /\ UNCHANGED <<holder, paid, pushed, evicted, runs, crashes>>

Published(id) == pushed[id] = 2

\* The review passed: the draft's states in one go, or straight to COMPLETE
\* when there is none.
Conclude(p) ==
  LET id == job[p].id
      rec == job[p].run
      path == IF Published(id)
              THEN <<"COMMIT", "PUBLISH", "UPDATE_CONTROL", "CHECK_NEXT_WORK", "COMPLETE">>
              ELSE <<"COMPLETE">> IN
    /\ At(p, "work") /\ rec.state = "REVIEW"
    /\ child[id].at = "ended" /\ child[id].passed
    /\ EndAt(p, path, [rec EXCEPT !.github_writes = @ + pushed[id]])
    /\ UNCHANGED <<holder, child, paid, pushed, evicted, runs, crashes>>

\* withLock's catch.  Its own save may throw too, and nobody hears of it.
Catch(p) ==
  /\ At(p, "failed")
  /\ Saved(job[p].id, Stopped(job[p].run)) \/ SaveThrows(job[p].id, Stopped(job[p].run))
  /\ exit' = [exit EXCEPT ![job[p].id] = 2]
  /\ job' = [job EXCEPT ![p].pc = "release"]
  /\ UNCHANGED <<holder, child, paid, pushed, evicted, runs, crashes>>

\* lock.release: a look at the file, and only the process's own lock is
\* removed.
Release(p) ==
  /\ At(p, "release")
  /\ job' = IF holder = p THEN [job EXCEPT ![p].pc = "remove"] ELSE [job EXCEPT ![p] = None]
  /\ UNCHANGED <<disk, holder, child, paid, pushed, exit, threw, evicted, runs, crashes>>

Remove(p) ==
  /\ At(p, "remove")
  /\ Unlinked(p)
  /\ job' = [job EXCEPT ![p] = None]
  /\ UNCHANGED <<disk, child, paid, pushed, exit, threw, runs, crashes>>

-----------------------------------------------------------------------------
(* The children.  A timeout kills them at any point, like any failure.     *)

\* HARD ONE-CALL GUARD.  Rat Review makes no call: both its providers throw
\* REVIEW_BUDGET_LEDGER_REQUIRED, so only a review in its cache can pass.
MayCall(r) == child[r].at = "repair" /\ paid[r] = 0

ModelCall(r) ==
  /\ MayCall(r)
  /\ paid' = [paid EXCEPT ![r] = @ + 1]
  /\ UNCHANGED <<disk, holder, job, child, pushed, exit, threw, evicted, runs, crashes>>

\* A playbook or lesson may pass without a model call.
RepairEnds(r, passed) ==
  /\ child[r].at = "repair"
  /\ child' = [child EXCEPT ![r].at = "ended", ![r].passed = passed]
  /\ UNCHANGED <<disk, holder, job, paid, pushed, exit, threw, evicted, runs, crashes>>

\* Not -NoPublish, after a review that passed: the branch, then the draft.
MayPublish(r) == child[r].at = "review" /\ child[r].publish /\ pushed[r] < 2

Publish(r) ==
  /\ MayPublish(r)
  /\ pushed' = [pushed EXCEPT ![r] = @ + 1]
  /\ UNCHANGED <<disk, holder, job, child, paid, exit, threw, evicted, runs, crashes>>

\* Exit code 0 means a draft, or a review that was not to publish one.
ReviewMayPass(r) == child[r].publish => Published(r)

ReviewEnds(r, passed) ==
  /\ child[r].at = "review"
  /\ passed => ReviewMayPass(r)
  /\ child' = [child EXCEPT ![r].at = "ended", ![r].passed = passed]
  /\ UNCHANGED <<disk, holder, job, paid, pushed, exit, threw, evicted, runs, crashes>>

-----------------------------------------------------------------------------
(* Death of a controller, and the specification.                           *)

\* A process that dies is not reused; spawnSync's child goes on.
Crash(p) ==
  /\ job[p] # None /\ ~At(p, "dead") /\ crashes < MaxCrashes
  /\ crashes' = crashes + 1
  /\ job' = [job EXCEPT ![p] = Dead]
  /\ UNCHANGED <<disk, holder, child, paid, pushed, exit, threw, evicted, runs>>

Controller(p) ==
  \/ Acquire(p) \/ Look(p) \/ Unlink(p) \/ Refused(p) \/ Build(p) \/ BuildFails(p)
  \/ PlanReady(p) \/ Locked(p) \/ StartRepair(p) \/ ChildFailed(p) \/ StartReview(p)
  \/ Conclude(p) \/ Catch(p) \/ Release(p) \/ Remove(p)

ChildEnds(r) == \E passed \in BOOLEAN : RepairEnds(r, passed) \/ ReviewEnds(r, passed)

AutoNext ==
  \/ \E p \in Proc, o \in Orders : CreateRun(p, o) \/ CreateFails(p, o)
  \/ \E p \in Proc : Controller(p) \/ Crash(p)
  \/ \E r \in RunId : ModelCall(r) \/ Publish(r) \/ ChildEnds(r)

AutoSpec == AutoInit /\ [][AutoNext]_autoVars

\* A process that can run does, and spawnSync's timeout ends a child.
FairAutoSpec ==
  AutoSpec /\ (\A p \in Proc : WF_autoVars(Controller(p))) /\ (\A r \in RunId : WF_autoVars(ChildEnds(r)))
-----------------------------------------------------------------------------
(* Properties.                                                             *)

\* A run on record as COMPLETE did all its command asks: a repair was accepted
\* and reviewed and its draft published under both unlocks, with every call
\* and write counted; any other command cost and published nothing.
CompleteMeansDelivered ==
  \A r \in RunId : disk[r] # None /\ disk[r].state = "COMPLETE" =>
    /\ disk[r].finished
    /\ disk[r].model_calls = paid[r] /\ disk[r].github_writes = pushed[r]
    /\ IF disk[r].command = "repair" THEN Published(r) /\ child[r].publish ELSE paid[r] + pushed[r] = 0

\* The exit code and the record agree: 0 for a finished COMPLETE none of whose
\* saves threw, 2 for a finished SAFE_STOP.  Only a save that threw lets a
\* command fail over another record; it has started nothing if that was the
\* first.
ExitTells ==
  \A r \in RunId : exit[r] # None =>
    \/ exit[r] = 0 /\ threw[r] = 0 /\ disk[r].finished /\ disk[r].state = "COMPLETE"
    \/ exit[r] = 2 /\ disk[r].finished /\ disk[r].state = "SAFE_STOP"
    \/ exit[r] = 2 /\ threw[r] > 0
    \/ exit[r] = 1 /\ threw[r] > 0 /\ child[r].at = "none"

\* A second worker runs beside the first for two reasons only: its controller
\* died, or another controller removed a live one's lock; and nobody removes
\* one unless some controller died, whose stale lock they raced for.
Working == {r \in RunId : child[r].at \in {"repair", "review"}}
OneWorker ==
  /\ Cardinality(Working) <= 1 + crashes + evicted
  /\ crashes = 0 => evicted = 0

\* A command that is not killed ends on record, also when it is refused the
\* lock, its child fails or a transition is illegal, and another may follow it.
RunsSettle ==
  \A p \in Proc : [](job[p] # None => <>(job[p] = None \/ At(p, "dead")))
=============================================================================
