---------------------------- MODULE GovernedLaunch ----------------------------
(***************************************************************************)
(* run.launch_governed (forgeboss/control/daemon.py) with the host         *)
(* launcher it calls (governed_host_launcher.py), the worker process it    *)
(* spawns (executors/mini_swe_runner.py with the one-shot paid start of    *)
(* security/executor_guard.py) and the store of module ControlStore.       *)
(*                                                                         *)
(* A request q runs in its own daemon thread.  Its steps interleave with   *)
(* other threads, with the workers, with the clock and with a crash of the *)
(* daemon, which forgets the in-memory sets and leaves workers, containers,*)
(* quarantine markers and the database as they are.  A request the first   *)
(* critical section refuses changes nothing and is not a step.             *)
(***************************************************************************)
EXTENDS ControlStore, FiniteSets

CONSTANTS
  Req,            \* launch requests, each used once
  LeaseTTL,       \* ttlSeconds of a governed claim (1800 s)
  WorkerTimeout,  \* timeout_seconds of the worker process (1200 s)
  ContainerLife,  \* container_timeout of the runner (18 min, rounded up)
  Startup,        \* bound: ticks from a claim to the start of its container
  Cleanup,        \* bound: ticks a thread takes after its worker's deadline
  LastArrival,    \* bound: last tick at which a request may arrive or claim
  MaxCrashes      \* bound: daemon crashes

\* The two outcomes a launch reports.
LaunchOutcome == {"worker-complete", "worker-failed"}

ASSUME LaunchConstants ==
  /\ LeaseTTL \in TTL /\ WorkerTimeout \in Nat /\ ContainerLife \in Nat
  /\ Startup \in Nat /\ Cleanup \in Nat /\ LastArrival \in Nat /\ MaxCrashes \in Nat
  /\ LaunchOutcome \subseteq Outcome

VARIABLES
  req,          \* Req -> the thread serving the request
  active,       \* active_governed_runs
  usedKeys,     \* runs whose internal claim idempotency key is taken
  quarantined,  \* worktrees with a quarantine marker
  dirty,        \* worktrees git status reports as not pristine
  worker,       \* Run -> the worker process spawned for the run
  crashes

launchVars == <<req, active, usedKeys, quarantined, dirty, worker, crashes>>
allVars == <<vars, launchVars>>

PreSpawn == {"claimed", "admitted", "rechecked", "isolated", "guarded"}
Finishing == {"exited", "timedout", "unread", "cleaned", "uncertain", "releasing", "keeping"}
PC == {"idle", "launching", "ready", "waiting", "done"} \cup PreSpawn \cup Finishing

ReqRow == [pc : PC, task : Task \cup {None}, run : Run \cup {None},
           ws : Worktree \cup {None}, epoch : Nat, claimedAt : Nat, outcome : LaunchOutcome]
\* st: "spawned" before the paid start's check, "checked" between that check
\* and its write, "paid" after it, "working" once the container was started,
\* which lives while now < containerEnd; then "exited" or "killed", or "unread"
\* when the launcher lost the exit code.
WorkerState == {"none", "spawned", "checked", "paid", "working", "exited", "killed", "unread"}
WorkerRow == [st : WorkerState, ws : Worktree \cup {None},
              envExpires : Nat, deadline : Nat, containerEnd : Nat, rc : {0, 1}]

LaunchTypeOK ==
  /\ TypeOK
  /\ req \in [Req -> ReqRow]
  /\ active \subseteq Run /\ usedKeys \subseteq Run
  /\ quarantined \subseteq Worktree /\ dirty \subseteq Worktree
  /\ worker \in [Run -> WorkerRow]
  /\ crashes \in 0 .. MaxCrashes

-----------------------------------------------------------------------------
(* Helpers.                                                                *)

InFlight(q) == req[q].pc \notin {"idle", "done"}
Running(r) == worker[r].st \in {"spawned", "checked", "paid", "working"}
HasContainer(r) == now < worker[r].containerEnd
ContainersOn(w) == {r \in Run : worker[r].ws = w /\ HasContainer(r)}

\* A readiness check that trusts a clean tree and forgets the marker.
MutReady(w) == w \notin dirty

\* assert_governed_workspace_ready: no quarantine marker and a pristine tree.
Ready(w) == w \notin quarantined /\ w \notin dirty

Goto(q, pc) == req' = [req EXCEPT ![q].pc = pc]

\* The outer `finally': the thread answers and its run leaves the active set.
End(q) == Goto(q, "done") /\ active' = active \ {req[q].run}

\* docker rm -f of every container that mounts the worktree.
RemoveContainers(w) ==
  [r \in Run |-> IF r \in ContainersOn(w) THEN [worker[r] EXCEPT !.containerEnd = 0]
                 ELSE worker[r]]

StoreUnchanged == UNCHANGED vars
-----------------------------------------------------------------------------
(* The request thread, up to the spawn.                                    *)

LaunchInit ==
  /\ Init
  /\ req = [q \in Req |-> [pc |-> "idle", task |-> None, run |-> None, ws |-> None,
                           epoch |-> 0, claimedAt |-> 0, outcome |-> "worker-failed"]]
  /\ active = {} /\ usedKeys = {} /\ quarantined = {} /\ dirty = {}
  /\ worker = [r \in Run |-> [st |-> "none", ws |-> None, envExpires |-> 0, deadline |-> 0,
                              containerEnd |-> 0, rc |-> 0]]
  /\ crashes = 0

\* A single-flight test that only looks at the database.
MutMayStart(r) == runs[r].status = "absent"

\* What the first critical section asks of a run id: no row and no launch in
\* flight.  A finished run is answered from its row, a running one refused.
MayStart(r) == runs[r].status = "absent" /\ r \notin active

Arrive(q, t, r, w) ==
  /\ req[q].pc = "idle" /\ now <= LastArrival
  /\ tasks[t].status # "absent"
  /\ MayStart(r)
  /\ active' = active \cup {r}
  /\ req' = [req EXCEPT ![q].pc = "launching", ![q].task = t, ![q].run = r, ![q].ws = w]
  /\ UNCHANGED <<usedKeys, quarantined, dirty, worker, crashes>> /\ StoreUnchanged

\* Validation of the request, readiness of the worktree, the attestation.
Validate(q) ==
  /\ req[q].pc = "launching"
  /\ \/ Ready(req[q].ws) /\ Goto(q, "ready") /\ UNCHANGED active
     \/ End(q)
  /\ UNCHANGED <<usedKeys, quarantined, dirty, worker, crashes>> /\ StoreUnchanged

\* The internal workspace.claim.  Its idempotency key depends on the run only
\* and its parameters on the attestation, so the key serves one attempt per
\* daemon life: a second one is an IDEMPOTENCY_CONFLICT.
ClaimStep(q) ==
  /\ req[q].pc = "ready"
  /\ LET t == req[q].task  r == req[q].run IN
     \/ /\ r \notin usedKeys
        /\ \E c \in Cost : ClaimWorkspace(t, r, req[q].ws, ExpectedHead(t), LeaseTTL, c)
        /\ req' = [req EXCEPT ![q].pc = "claimed", ![q].epoch = NextEpoch(t), ![q].claimedAt = now]
        /\ UNCHANGED active
     \/ End(q) /\ StoreUnchanged
  /\ usedKeys' = usedKeys \cup {req[q].run}
  /\ UNCHANGED <<quarantined, dirty, worker, crashes>>

\* worker.admit.  It stands outside the inner try: a refusal leaves the lease.
Admit(q) ==
  /\ req[q].pc = "claimed"
  /\ IF WriterAuthority(req[q].task, req[q].run, req[q].epoch, None)
     THEN Goto(q, "admitted") /\ UNCHANGED active
     ELSE End(q)
  /\ UNCHANGED <<usedKeys, quarantined, dirty, worker, crashes>> /\ StoreUnchanged

\* run_governed_worker up to the spawn: readiness again, no container on the
\* worktree, an executor guard lease on a pristine tree, the runner's digest.
Recheck(q) ==
  /\ req[q].pc = "admitted"
  /\ \/ Ready(req[q].ws) /\ Goto(q, "rechecked")
     \/ Goto(q, "releasing")
  /\ UNCHANGED <<active, usedKeys, quarantined, dirty, worker, crashes>> /\ StoreUnchanged

Isolate(q) ==
  /\ req[q].pc = "rechecked"
  /\ \/ ContainersOn(req[q].ws) = {} /\ Goto(q, "isolated")
     \/ Goto(q, "keeping")                     \* a container, or Docker is unavailable
  /\ UNCHANGED <<active, usedKeys, quarantined, dirty, worker, crashes>> /\ StoreUnchanged

IssueGuardLease(q) ==
  /\ req[q].pc = "isolated"
  /\ \/ req[q].ws \notin dirty /\ Goto(q, "guarded")
     \/ Goto(q, "releasing")
  /\ UNCHANGED <<active, usedKeys, quarantined, dirty, worker, crashes>> /\ StoreUnchanged

Spawn(q) ==
  /\ req[q].pc = "guarded"
  /\ LET t == req[q].task  r == req[q].run  w == req[q].ws IN
     \/ /\ worker' = [worker EXCEPT ![r] =
             [st |-> "spawned", ws |-> w, envExpires |-> req[q].claimedAt + LeaseTTL,
              deadline |-> now + WorkerTimeout, containerEnd |-> 0, rc |-> 0]]
        /\ Goto(q, "waiting")
     \/ \* the runner changed, or the spawn failed and Docker is proven clean
        /\ worker' \in {worker, RemoveContainers(w)} /\ Goto(q, "releasing")
     \/ \* the spawn failed and Docker is not
        /\ Goto(q, "uncertain") /\ UNCHANGED worker
  /\ UNCHANGED <<active, usedKeys, quarantined, dirty, crashes>> /\ StoreUnchanged
-----------------------------------------------------------------------------
(* The worker process, which outlives a crash of the daemon.               *)

\* An authority check that does not look at the envelope's expiry.
MutPaidCheck(r) ==
  /\ worker[r].st = "spawned"
  /\ worker[r].ws \notin dirty
  /\ worker' = [worker EXCEPT ![r].st = "checked"]
  /\ UNCHANGED <<req, active, usedKeys, quarantined, dirty, crashes>> /\ StoreUnchanged

\* paid_start_authority, its checks: the tree is still the guard lease's
\* baseline and the signed control envelope has not expired.
PaidCheck(r) ==
  /\ worker[r].st = "spawned"
  /\ worker[r].ws \notin dirty
  /\ now < worker[r].envExpires
  /\ worker' = [worker EXCEPT ![r].st = "checked"]
  /\ UNCHANGED <<req, active, usedKeys, quarantined, dirty, crashes>> /\ StoreUnchanged

\* paid_start_authority, its write: after another snapshot of Git's metadata,
\* made of subprocesses with timeouts of their own; nothing reads the clock again.
PaidStart(r) ==
  /\ worker[r].st = "checked"
  /\ worker' = [worker EXCEPT ![r].st = "paid"]
  /\ UNCHANGED <<req, active, usedKeys, quarantined, dirty, crashes>> /\ StoreUnchanged

ContainerEnd == now + ContainerLife

StartContainer(r) ==
  /\ worker[r].st = "paid"
  /\ worker' = [worker EXCEPT ![r].st = "working", ![r].containerEnd = ContainerEnd]
  /\ UNCHANGED <<req, active, usedKeys, quarantined, dirty, crashes>> /\ StoreUnchanged

Work(r) ==
  /\ HasContainer(r)
  /\ dirty' = dirty \cup {worker[r].ws}
  /\ UNCHANGED <<req, active, usedKeys, quarantined, worker, crashes>> /\ StoreUnchanged

\* The runner exits; its env.cleanup() swallows errors, so the container may
\* be left behind.
WorkerExit(r) ==
  /\ Running(r)
  /\ \E rc \in {0, 1}, end \in {0, worker[r].containerEnd} :
       /\ rc = 0 => worker[r].st = "working"
       /\ worker' = [worker EXCEPT ![r].st = "exited", ![r].rc = rc, ![r].containerEnd = end]
  /\ UNCHANGED <<req, active, usedKeys, quarantined, dirty, crashes>> /\ StoreUnchanged
-----------------------------------------------------------------------------
(* The request thread, after the spawn.                                    *)

Collect(q) ==
  /\ req[q].pc = "waiting"
  /\ worker[req[q].run].st = "exited"
  /\ Goto(q, "exited")
  /\ UNCHANGED <<active, usedKeys, quarantined, dirty, worker, crashes>> /\ StoreUnchanged

\* subprocess.run raises something other than a timeout once the worker was
\* spawned (its output cannot be decoded or read): a live worker is killed and
\* its exit code never looked at, whatever it did before.
CollectError(q) ==
  /\ req[q].pc = "waiting"
  /\ Running(req[q].run) \/ worker[req[q].run].st = "exited"
  /\ worker' = [worker EXCEPT ![req[q].run].st = "unread",
                              ![req[q].run].rc = IF Running(req[q].run) THEN 1 ELSE @]
  /\ Goto(q, "unread")
  /\ UNCHANGED <<active, usedKeys, quarantined, dirty, crashes>> /\ StoreUnchanged

\* A timeout that no longer covers a worker once it has paid.
MutTimeout(q) ==
  /\ req[q].pc = "waiting"
  /\ worker[req[q].run].st \in {"spawned", "checked"} /\ now >= worker[req[q].run].deadline
  /\ worker' = [worker EXCEPT ![req[q].run].st = "killed", ![req[q].run].rc = 1]
  /\ Goto(q, "timedout")
  /\ UNCHANGED <<active, usedKeys, quarantined, dirty, crashes>> /\ StoreUnchanged

\* subprocess.run kills the runner; the container is another process tree.
Timeout(q) ==
  /\ req[q].pc = "waiting"
  /\ Running(req[q].run) /\ now >= worker[req[q].run].deadline
  /\ worker' = [worker EXCEPT ![req[q].run].st = "killed", ![req[q].run].rc = 1]
  /\ Goto(q, "timedout")
  /\ UNCHANGED <<active, usedKeys, quarantined, dirty, crashes>> /\ StoreUnchanged

\* A cleanup whose failure is not told apart from its success.
MutAfterCleanup(proven) == "cleaned"

AfterCleanup(proven) == IF proven THEN "cleaned" ELSE "uncertain"

\* _ensure_workspace_containers_absent(force=True) after a normal exit.
CleanAfterExit(q) ==
  /\ req[q].pc = "exited"
  /\ \/ worker' = RemoveContainers(req[q].ws) /\ Goto(q, AfterCleanup(TRUE))
     \/ UNCHANGED worker /\ Goto(q, AfterCleanup(FALSE))
  /\ UNCHANGED <<active, usedKeys, quarantined, dirty, crashes>> /\ StoreUnchanged

\* The same after a timeout: proven or not, the run is quarantined and kept.
CleanAfterTimeout(q) ==
  /\ req[q].pc = "timedout"
  /\ worker' \in {worker, RemoveContainers(req[q].ws)}
  /\ Goto(q, "uncertain")
  /\ UNCHANGED <<active, usedKeys, quarantined, dirty, crashes>> /\ StoreUnchanged

\* The same after such an error, with the handler of a failed spawn: with the
\* containers proven gone the run is released as failed, and no marker is left.
CleanAfterError(q) ==
  /\ req[q].pc = "unread"
  /\ \/ worker' = RemoveContainers(req[q].ws) /\ Goto(q, "releasing")
     \/ UNCHANGED worker /\ Goto(q, "uncertain")
  /\ UNCHANGED <<active, usedKeys, quarantined, dirty, crashes>> /\ StoreUnchanged

\* A failed run released like a successful one.
MutSettle(q) ==
  /\ req[q].pc = "cleaned"
  /\ \E o \in LaunchOutcome :
       req' = [req EXCEPT ![q].pc = "releasing", ![q].outcome = o]
  /\ UNCHANGED <<active, usedKeys, quarantined, dirty, worker, crashes>> /\ StoreUnchanged

\* The worker is gone and its containers too.  A success whose result head
\* cannot be read is released as failed; a failure is quarantined first, and
\* kept when the marker cannot be written.
Settle(q) ==
  /\ req[q].pc = "cleaned"
  /\ IF worker[req[q].run].rc = 0
     THEN /\ \E o \in LaunchOutcome :
               req' = [req EXCEPT ![q].pc = "releasing", ![q].outcome = o]
          /\ UNCHANGED quarantined
     ELSE \/ quarantined' = quarantined \cup {req[q].ws} /\ Goto(q, "releasing")
          \/ UNCHANGED quarantined /\ Goto(q, "keeping")
  /\ UNCHANGED <<active, usedKeys, dirty, worker, crashes>> /\ StoreUnchanged

\* _quarantine_or_fail_closed on the uncertain paths: never released.
Quarantine(q) ==
  /\ req[q].pc = "uncertain"
  /\ quarantined' \in {quarantined, quarantined \cup {req[q].ws}}
  /\ Goto(q, "keeping")
  /\ UNCHANGED <<active, usedKeys, dirty, worker, crashes>> /\ StoreUnchanged

\* The inner `finally': release when safe.  A release the store refuses (the
\* lease expired meanwhile) raises, and the run's row stays "running".
ReleaseStep(q) ==
  /\ req[q].pc = "releasing"
  /\ IF WriterAuthority(req[q].task, req[q].run, req[q].epoch, None)
     THEN Release(req[q].task, req[q].run, req[q].epoch, None, req[q].outcome, None)
     ELSE StoreUnchanged
  /\ End(q)
  /\ UNCHANGED <<usedKeys, quarantined, dirty, worker, crashes>>

Keep(q) ==
  /\ req[q].pc = "keeping"
  /\ End(q)
  /\ UNCHANGED <<usedKeys, quarantined, dirty, worker, crashes>> /\ StoreUnchanged
-----------------------------------------------------------------------------
(* The environment.                                                        *)

Create == \E t \in Task, p \in Profile : CreateTask(t, p) /\ UNCHANGED launchVars

\* The owner puts a worktree nobody works in back to its base; the marker stays.
ResetWorkspace(w) ==
  /\ w \in dirty
  /\ \A r \in Run : worker[r].ws = w => ~Running(r) /\ ~HasContainer(r)
  /\ dirty' = dirty \ {w}
  /\ UNCHANGED <<req, active, usedKeys, quarantined, worker, crashes>> /\ StoreUnchanged

Crash ==
  /\ crashes < MaxCrashes
  /\ \E q \in Req : InFlight(q)
  /\ crashes' = crashes + 1
  /\ req' = [q \in Req |-> IF InFlight(q) THEN [req[q] EXCEPT !.pc = "done"] ELSE req[q]]
  /\ active' = {} /\ usedKeys' = {}
  /\ UNCHANGED <<quarantined, dirty, worker>> /\ StoreUnchanged

\* Time passes, but no claim waits longer than Startup for its container and
\* no thread longer than Cleanup once its worker's time is up: the timeouts of
\* the code's subprocess calls add up to less than a lease.
TickStep ==
  /\ \A q \in Req :
       /\ req[q].pc \in {"launching", "ready"} => now < LastArrival
       /\ req[q].pc \in PreSpawn => now < req[q].claimedAt + Startup
       /\ req[q].pc \in Finishing \cup {"waiting"} =>
            now < req[q].claimedAt + Startup + WorkerTimeout + Cleanup
  /\ \A r \in Run :
       worker[r].st \in {"spawned", "checked", "paid"} => now < worker[r].envExpires - LeaseTTL + Startup
  /\ Tick /\ UNCHANGED launchVars

ThreadStep(q) ==
  \/ Validate(q) \/ ClaimStep(q) \/ Admit(q) \/ Recheck(q) \/ Isolate(q) \/ IssueGuardLease(q)
  \/ Spawn(q) \/ Collect(q) \/ Timeout(q) \/ CleanAfterExit(q) \/ CleanAfterTimeout(q)
  \/ CleanAfterError(q) \/ Settle(q) \/ Quarantine(q) \/ ReleaseStep(q) \/ Keep(q)

LaunchNext ==
  \/ Create
  \/ \E q \in Req, t \in Task, r \in Run, w \in Worktree : Arrive(q, t, r, w)
  \/ \E q \in Req : ThreadStep(q) \/ CollectError(q)
  \/ \E r \in Run : PaidCheck(r) \/ PaidStart(r) \/ StartContainer(r) \/ Work(r) \/ WorkerExit(r)
  \/ \E w \in Worktree : ResetWorkspace(w)
  \/ Crash
  \/ TickStep

LaunchSpec == LaunchInit /\ [][LaunchNext]_allVars

\* Threads are scheduled, time passes, and a worker that has not started its
\* container gets to it or exits; a hung worker is not assumed to exit, nor
\* reading its output to fail.
FairLaunchSpec ==
  /\ LaunchSpec
  /\ \A q \in Req : WF_allVars(ThreadStep(q))
  /\ \A r \in Run : WF_allVars(StartContainer(r) \/ (worker[r].st \in {"spawned", "checked"} /\ WorkerExit(r)))
  /\ WF_allVars(TickStep)
-----------------------------------------------------------------------------
(* Properties.                                                             *)

\* A worktree never has two workers: no two runs at once that passed their
\* paid start and still have a container on it, or are about to start one.
Writing(r) == HasContainer(r) \/ worker[r].st = "paid"
OneWriterPerWorkspace ==
  \A r, s \in Run : r # s /\ Writing(r) /\ Writing(s) => worker[r].ws # worker[s].ws

\* A finished run is quiet: once a run's row has an outcome and its lease is
\* free, neither its worker process nor its container is left on the worktree.
ReleasedMeansQuiet ==
  \A r \in Run : runs[r].status \in LaunchOutcome => ~Running(r) /\ ~HasContainer(r)

\* A worktree whose worker failed is quarantined before anyone can claim it,
\* provided the launcher saw the failure: it read the exit code or killed the
\* worker at its deadline.  A worker whose output it could not read ("unread")
\* is released without a marker, and only a dirty tree then refuses the next.
FailedMeansQuarantined ==
  \A r \in Run :
    runs[r].status \in LaunchOutcome /\ worker[r].st \in {"exited", "killed"} /\ worker[r].rc # 0
      => worker[r].ws \in quarantined

\* One thread per run id: retries with other idempotency keys never drive the
\* same run twice.
SingleFlight ==
  \A p, q \in Req : p # q /\ InFlight(p) /\ InFlight(q) => req[p].run # req[q].run

\* Money is authorised only by the owner: whenever a worker passes the check of
\* its paid start, its run still owns its task's live lease, also after a crash
\* and after any delay.
CheckedUnderLiveLease ==
  [][\A r \in Run :
       worker[r].st # "checked" /\ worker'[r].st = "checked" =>
         Live(runs[r].task) /\ leases[runs[r].task].run = r]_allVars

\* Money is spent only by the owner: the paid start itself, which comes a Git
\* snapshot after that check, finds the lease live too.  This holds only
\* under the code's timeouts, when a start-up ends within its lease.
PaidUnderLiveLease ==
  [][\A r \in Run :
       worker[r].st # "paid" /\ worker'[r].st = "paid" =>
         Live(runs[r].task) /\ leases[runs[r].task].run = r]_allVars

\* No worker is spawned in a quarantined worktree.
NoSpawnInQuarantine ==
  [][\A r \in Run :
       worker[r].st # "spawned" /\ worker'[r].st = "spawned" => worker'[r].ws \notin quarantined]_allVars

\* Every launch ends, hung worker or not, and its run leaves the active set.
LaunchEnds == \A q \in Req : InFlight(q) ~> ~InFlight(q)

\* daemon.py refuses a run whose row is "running" with "governed run is
\* already active": it should then be in flight or own a live lease.
RunningMeansActive ==
  \A r \in Run : runs[r].status = "running" =>
    r \in active \/ (Live(runs[r].task) /\ leases[runs[r].task].run = r)
=============================================================================
