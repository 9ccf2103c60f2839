# ForgeBoss in TLA+

ForgeBoss lets language models build and repair software under control: a
daemon hands out leases on worktrees and launches paid workers in containers, a
controller runs repair commands one at a time, a dashboard repeats them within
a budget, and one guarded writer talks to GitHub. This directory holds TLA+
models of the parts of it that keep state and meet each other in time, the TLC
runs that check them on small instances, and proofs, for every instance, of
what matters most. Paths below are relative to the repository (`src/` in
`PROJECT.json`).

## 1. The system

### Components, their state and their operations

| Part | State | Operations | Model |
| --- | --- | --- | --- |
| Control store, `forgeboss/control/store.py` | SQLite tables `tasks`, `workspace_leases`, `task_runs`, `task_events` | `create_task`, `claim_workspace`, `heartbeat`, `release`; each under an `RLock` and one `BEGIN IMMEDIATE` | `ControlStore` |
| Daemon, `forgeboss/control/daemon.py`, `envelope.py`, `governed_launch.py` | `active_governed_runs`, the idempotency table, connect nonces: in memory only | one thread per connection: `task.create`, `task.create_governed`, `workspace.claim`, `heartbeat`, `release`, `run.launch_governed`, behind the table | `Daemon` over `Idempotency` and `ControlStore`; the run itself in `GovernedLaunch` |
| Reuse policy, `forgeboss/policy/reuse_review.py`, `*_authority.py` | none; signed tokens | issue and verify exemptions and receipts, judge a review | `ReuseGate` |
| Host launcher, `forgeboss/control/governed_host_launcher.py` | quarantine markers, guard leases, the worktree | readiness, isolation, spawn, wait with timeout, container cleanup, quarantine | `GovernedLaunch` |
| Runners, `forgeboss/executors/*` | the container, the agent and what it writes | verify, paid start, prompt, work, postflight, exit | `ExecutorGuard`; container and exit also in `GovernedLaunch` |
| Executor guard, `forgeboss/security/executor_guard.py` | lease file, workspace fence, one-shot paid start | `issue`, `verify`, `paid_start_authority`, `postflight` | `ExecutorGuard` |
| Controller lock, `controller/lib/lock.js` | `controller.lock` | `acquire`, `heartbeat`, `release`, stale recovery | `ControllerLock` |
| Autopilot, `controller/siteboss-autopilot.js`, `lib/machine.js`, `lib/runs.js`, `lib/repair-adapter.js` | the run record, `latest-run.json`, exit code | `plan`, `control`, `run`, `repair`, `resume`, ... through a state machine | `Autopilot` |
| Guarded writer, `forgeboss/github/write-gate.js` | lock directory, `state.json` (last write, window, keys) | one guarded request: lock, pace, send, retry, save, unlock | `WriteGate` |
| Repair Rat, `SiteBoss-Repair-Rat.ps1` with `forgeboss/autonomy/*.py` | reports, retained foundation, playbook, lesson patches | replay, $0 repairs, at most one paid call, validation, report | `RepairRat` |
| Rat Review, `SiteBoss-Rat-Review.ps1` | a branch and a draft | parent check, clean retest, publication | a step of `Autopilot` and `RepairSession` |
| Dashboard session, `dashboard/server.py` | status, stop flag, thread locals | `/api/start`, `/api/stop`, the session thread | `RepairSession` |
| Cost ledger, `forgeboss/safety/cost_ledger.py` | reservations in SQLite | `reserve`, `settle` | planned |
| Scheduler, `forgeboss/control/scheduler.py` | none | `smart_parallel_batches` | planned |

`PROJECT.json` lists the rest (the handshake, path rules, prompts, benchmarks,
the legacy pipeline, diagnostics, tests) with the reason each is
not modelled.

### How they interact

- A client connection reaches the daemon in a thread of its own. Every mutating
  request goes through the idempotency table, then to the store; a governed
  creation passes the reuse policy in between. A governed
  launch calls `workspace.claim` through the same table with a key derived from
  the run, hands the lease to the host launcher, which spawns a worker process,
  which starts a container; the three live apart from the daemon and survive it.
- The launcher has the executor guard issue a lease file for the worktree; the
  runner verifies it, spends it with its paid start, and lets the guard judge
  what the agent left. They meet in the workspace fence, a file lock; the packet
  file they all read is rewritten by the controller with every plan.
- The dashboard thread starts the controller as a child, the controller takes
  the lock file and starts Repair Rat and then Rat Review as children with
  `spawnSync`. They talk through files: reports, the foundation, the run record.
- Rat Review and the run report publish through the guarded writer, which any
  number of processes share through one directory.

### What is hard

*Concurrency.* Daemon threads, controllers, writers and children interleave; a
check and the call that relies on it are often far apart (the claim of a launch
is minutes before its spawn; `inspect` and `unlink`; `statSync` and `rmSync`).
*Crashes.* A daemon crash forgets the active set and the keys but not the
database, the workers or the containers; a controller's child outlives it; a
writer may die between GitHub's answer and its save. *Time.* Leases, guard
leases, worker and container timeouts, lock ages and windows have to nest.
*Failure in the middle.* `docker rm`, a marker, a release or a push may fail
after the step before it succeeded. *Money.* A call that no report tells of, a
report of the cycle before, a stop in the middle of a cycle.

### What makes each part correct

- *Store:* no two live leases collide; a live lease never changes hands and a
  dead owner can do nothing more; rows, log and budget agree.
- *Launch:* one paid worker per worktree, money only under a live lease, a
  released run is quiet, a failed one is quarantined, every launch ends.
- *Idempotency:* a key runs once at a time, every caller gets its own request's
  answer, nobody waits for ever.
- *Dispatch and policy:* an acknowledged creation stands; a governed task was
  approved for what it is; its lease and its envelopes come from its launch and
  never reach further than the approval.
- *Guard:* a lease pays one start; its baseline is the commit, except for what
  was put back and changed again while the issue looked; the prompt is the
  leased packet; what is accepted is in scope; nobody is stuck at the fence.
- *Lock:* one controller, which keeps its lock, unless two race for a dead one's;
  a dead one's lock is recovered.
- *Writer:* one writer, paced, no identical comment within five minutes, no
  save undone.
- *Autopilot:* the record says COMPLETE only of what was done, the exit code
  agrees with it unless a save threw, second workers have a known cause,
  commands settle.
- *Session:* a paid call starts only within the budget, fail closed, a stop the
  running session can see is honoured, the foundation is the newest partial win,
  every session ends.

## 2. The modules

`MC*` modules give the constants small values. Each module's header says what
it leaves out; `PROJECT.json` maps each definition to its lines.

**`ControlStore`.** One action per mutating method (`CreateTask`,
`ClaimWorkspace` under `Claim`, `Heartbeat` under `Renew`, `Release` under
`Finish`) and `Tick`. Since each method holds the write lock from its first read
to its commit and rolls back on any exception, a whole method is one step and a
rejected call is a step that is not enabled. Rows are total functions; a missing
row has status "absent" or epoch 0. Kept: canonical path overlap, collision
between live leases, expiry, takeover, epochs, attempts computed as a maximum,
budget reservation, result heads, the log. The outcome of a release is whatever
string its client sends, the name of another status included; only "absent",
which here stands for a row that is not there, is not one. The clock is integer ticks, and runs
at any moment between calls. Left out: revisions and timestamps nobody reads.

**`GovernedLaunch`** extends it. A request is a thread with a program counter:
`Arrive` (the first critical section), `ClaimStep`, preparation, spawn, wait,
cleanup, release; a worker is a process with its own steps (`PaidCheck`, where
the envelope's expiry is compared, `PaidStart`, written one Git snapshot later,
`StartContainer`, `Work`, `WorkerExit`) and its container lives on until it is
removed or its own timeout passes. An exception on the launcher's side may come
after the worker ran (`CollectError`: its output cannot be read or decoded); the
handler then removes the containers and releases the run without a marker
(`CleanAfterError`), as for a worker that was never spawned. `Crash` empties the
daemon's memory and the threads and leaves everything else. Of what other clients
do only a creation runs beside it; claims, heartbeats and releases they send for
the same tasks are in `Daemon`. Readiness is read in one step and used in a later
one, as in the code.

**`Idempotency`** models the critical sections of `_idem`: `TakeKey` (the entry
is new), `FindKey` (it is there: answer, conflict or wait), `Finish` (store the
result or the error, prune, set the event), `Wake` (look again and answer what
is there, or an error when it is gone), and `Restart`, which loses the table and
the calls in flight. The pruning takes the oldest finished entries as the code
does. **`OnceOnly`** is the promise: an atomic table that executes a request,
remembers an answer, may forget it or everything, and gives the same answer to
everybody.

**`ReuseGate`** is the policy as operators: what a review, an exemption and a
receipt must be (`ReviewOk`, `ExemptionHolds`, `ReceiptHolds`) and the decision
(`Authorised`, and `TaskReady` for the same question without receipts). Names,
paths and object ids are raw values with a canonical form `Canon`, which may be
"refused"; a digest is the value it is taken of and a signature its token's
membership in `Issued`.

**`Daemon`** puts them together: it extends `Idempotency`, instances
`ControlStore` and `ReuseGate`, and has one action per step of each mutating
method. A request runs between `TakeKey` and `Finish` of its thread. A plain
`task.create` hands its parameters to the store as they came, governance columns
included (`Columns`), and the store asks only that they fit together
(`ColumnsOk`): such a row is governed, and no policy has looked at it; `Evaluated`
tells the two apart. `CreateTask`,
`DirectClaim`, `DirectHeartbeat` and `DirectRelease` are one step, since their
only shared state is the store's; a governed creation is two (`Judge`,
`CreateGoverned`), because the policy is evaluated before the transaction; a
launch is five (`Reserve`, `Attest`, `GovernedClaim`, `Admit`, `Settle`), or one
when its run is over (`Replayed`), with the host launcher's part left to `GovernedLaunch`. Any step
may end in `Error`, so only what lets a request succeed is a condition.
`RestartDaemon` keeps the database, the secrets and what was signed. Left out:
`connect` and its nonces, the read-only methods, and a direct `worker.admit` and
`workspace.assert` (they change nothing).

**`ExecutorGuard`** is the guard around one worktree, look by look: `IssueRead`
reads the packet; in the fence `IssueCheck` looks for links, `IssueBefore` takes
the first snapshot, `IssueStatus` asks git, `IssueCompare` takes the second
snapshot and `IssueWrite` writes the lease file, with the digest the packet has by
then. A runner verifies in three looks (`VerifyLinks`, `VerifyTree`, `VerifyGit`),
writes its paid start (`PaidConsume`) in the same fence, prompts and works, and is
judged by `PostLinks`, `PostGit`, `PostCompare`, `PostScan` and `PostRemotes`, for
which the fence is taken twice. One walk over the tree is one look. Meanwhile
`Replan` writes a new packet, an agent or a left-over container writes files, links
or Git's state and may put the committed content back (`Work`), and any process
dies. A path holds the committed content, an edit or a link. `excused` is a
history variable: the paths whose commit was put back between an issue's first
snapshot and git's answer, or all of them when Git's own state had been changed.
That a lease expires is a failure any verification may have. The OpenHands runner
ends at its call of `verify`: `openhands_runner.py:20` uses `subprocess`, which the
file never imports. **`OneShot`** is what a lease promises: it is spent by at most
one start.

**`ControllerLock`** is call by call: exclusive create, write, inspect, inspect
again, unlink, retry, run, release. Process liveness is a fact of one machine
and exact there: that `process.kill(pid, 0)` takes another user's process for
dead, and a new process with an old number for alive, is left out. Age counts
only between two machines. The heartbeat is not an action: `withLock` sets an
interval, but the command inside it never returns to the event loop.

**`WriteGate`** is call by call too: `mkdir`, `stat` and `rm` of the lock, load,
suppression, pacing, request, backoff, save, `rm`. GitHub carries a request out
or not and answers or not, independently. Time passes in pacing, between tries
and in requests.

**`Autopilot`** has one action per step of a command: the run record in memory
and on disk differ until a save, any save may throw having written the record or
not (`SaveThrows`; `CreateFails` for the first one), each state change is checked
against the transition table, a throw takes the path of the catch block (`Catch`,
whose own save may throw too), `Crash` leaves the lock file, the record and the
child behind. The lock is a file with `Acquire`, `Look` and the later `Unlink` of
whatever is there by then, and `Release` and `Remove`; `evicted` counts the locks
of living controllers removed in that race. `ControllerLock` has each call of it.

**`RepairRat`** is one invocation as a record: `Breaks`, `Playbook`,
`LocalLesson`, `Call`, `HttpFails`, `Rejected`, `Refused`, `Validated`, `Killed`.
A candidate is the set of defect families it repairs. A paid patch may repair and
undo anything; validation shows what is left, and may miss a flaky family. What
makes a partial win is what the code asks: the focused target passes, or its
failure signature is gone (`FocusedResolved`, `Clearable`), and neither npm_test
nor a runtime error is new (a patch with one of these counts as `Rejected`). A call
costs up to `Excess` more than the estimate it was checked with. **`RepairSession`**
extends it with the thread of the dashboard, the HTTP thread (`Start`, `Stop`), the
moving head, and the children (`Children`). `asked` tells a stop that came before
the session cleared the flag from a later one. Amounts of money are small integers:
the focused call is cheaper than the full one, as in the code's estimates.

## 3. The runs

| Run | Shows |
| --- | --- |
| `control_store` | Two tasks with overlapping scopes compete for worktrees, three runs: `TypeOK`, `LiveLeasesDisjoint`, `RowsAgree`, `LogFenced`, `LogHeadsChain`, `NoTakeoverOfLive` |
| `governed_launch` | Two launches, one worktree, a crash, the code's order of timeouts: `OneWriterPerWorkspace`, `SingleFlight`, `NoSpawnInQuarantine`, `PaidUnderLiveLease` |
| `launch_stall` | Two launches of one task with delays beyond every timeout: `ReleasedMeansQuiet`, `FailedMeansQuarantined`, `CheckedUnderLiveLease` do not rest on timing, and `LaunchEnds` holds under fairness |
| `launch_stuck` | violated: `RunningMeansActive` (see section 5) |
| `executor_guard` | Two leases, two runners of two kinds, a stray write with a re-plan or a death, or three writes: `ImplementsOneShot`, `CleanBaseline`, `PromptIsLeased`, `AcceptedInScope`, `RunnersEnd` |
| `daemon` | Three calls of eight kinds, two keys, an overflowing table, a restart, approvals that are early, late or missing, governance columns nobody evaluated: `AcknowledgedCreation`, `GovernedMeansApproved`, `EnvelopesInScope`, `GovernedLeaseInternal`, `ImplementsOnceOnly`, `WaitersAnswered` |
| `controller_lock` | Three controllers, two deaths: `HolderKeepsLock`, `RefusedMeansRival` |
| `lock_race` | violated: `OneController` (section 5) |
| `write_gate` | Two writers, a death, long backoffs: `SoleWriter`, `Paced`, `CommentedOnce`, `NothingForgotten` |
| `autopilot` | Two controllers and two commands with a death or saves that throw, and three in a race for a dead one's lock: `CompleteMeansDelivered`, `ExitTells`, `OneWorker`, `RunsSettle` |
| `repair_session` | A session of four cycles, two families, stops, a moving head, calls above their estimate, patches that undo: `BudgetHolds`, `StopHonoured`, `FoundationKept`, `FailClosed`, `SessionEnds` |
| `foundation_refused` | violated: `ReviewTakesGreen` (section 5) |

The largest has 3.2 million distinct states (`governed_launch`), the
other passing ones between fourteen and nine hundred thousand;
each ends within five minutes.

Each property has a mutant in `PROJECT.json`: a plausible slip in one mapped
definition that makes TLC refute it under the same configuration.

### Bounds, and why they are enough

- *Store.* Outcomes are "completed" and a row status, "running". Two tasks and
  three runs give a claim, a takeover and a collision at once; two lease
  durations let a heartbeat shorten or lengthen a lease; three ticks let a lease
  expire twice; five events let a log hold create, claim, takeover, release and
  a claim of the other task. The theorems extend all of it to every value.
- *Launch.* The code has a claim of 1800 s, a worker of 1200 s, a container of
  18 minutes and about 270 s of start-up and 240 s of cleanup: 270 + 1200 + 240
  < 1800. `governed_launch` keeps that order in ticks (1 + 1 + 1 < 4).
  `launch_stall` gives `Startup` and `Cleanup` four ticks against a lease of two,
  so that every step may come after expiry and after a takeover. The theorems
  extend all but `LaunchEnds` to every value, with the order of the durations as
  a hypothesis where the code rests on it. One worktree,
  two requests and one crash are the smallest case of every hazard listed.
- *Daemon.* One task, one run, one worktree: whatever two calls can disagree
  about they meet in. Three calls are an owner, a waiter or a conflict on its key,
  and one under the other key, so that a creation, a launch of it and a direct call
  on its lease overlap. The table is pruned above 2000 entries by up to 500; with 1
  and 1 a pruning happens while others run and wait. One tick takes the exemption
  past its end and the receipt into its time. Calls are numbered as they arrive
  and keys as they are first used, which only removes renamings; a launch or a
  claim is sent after some creation, a heartbeat or a release after one of these,
  since alone they are calls that end in an error, as any call may. `MCDaemon`
  states as `ASSUME`s how the policy operators decide on good and bad reviews,
  foreign orders and boundary times. The theorems cover every size.
- *Guard.* Two leases and two runners let two starts race for one lease and a
  second lease be issued over a first run's remains; of three files one is in
  scope, one not and one ignored by Git; the second plan widens the scope.
  `MCExecutorGuard` lets one write happen beside a new plan or a death, or three
  writes without them: a change, its taking back and the change again is what it
  takes to get something past two snapshots and git status. What is written
  differs from the commit in one path, or in Git's state, at a time; leases are
  issued and runners begin in their order. The theorems cover every size and
  combination.
- *Lock.* Three contenders: a dead holder's file, and two that recover it; a
  second death recovers the recoverer's.
- *Writer.* Gap 1, window 3, ceiling 2, suppression 4, lock age 3 keep the order
  2 s < 60 s < 120 s < 300 s as far as four ticks can; a backoff of 4 is a
  `Retry-After` beyond the lock's age. Three calls by two writers let a second
  writer meet what the first left and one repeat it.
- *Autopilot.* Two commands of two processes are the smallest in which one meets
  the other's lock, record or child. A controller dies or one command's saves
  throw, not both. The race for a lock needs a dead holder and two others, so
  `MCAutopilot` gives a third command there: when one died with its child at work
  and another is at the lock, all with a repair; no build fails from then on and
  no model is called, which is nothing the race depends on. TLC reaches three
  working children in it. The theorems cover the rest.
- *Session.* A budget of 4 with calls of 1 and 3 and a reserve of 2 lets a full
  call be followed by exactly one focused call, or by none; four cycles give a
  partial win, a replay on its foundation, a failure on it and a repeat; two
  heads let the foundation go stale. A call may cost one more than its estimate
  (`Excess`). The head moves only in sessions nobody stops: what the two do to
  each other is left to the theorems, which hold for every excess and size.

Deadlock is not checked: each model stops when its bounds are used up, and the
components themselves may be idle for ever.

### Fairness, and what justifies it

- `launch_stall`: weak fairness of each daemon thread (they are ordinary threads),
  of the clock, and of a worker before its container starts. A hung worker is
  *not* assumed to exit: the timeout ends the wait.
- `daemon`: some thread that can move does. A request's steps are few and each
  call it makes into the store or the launcher ends (every subprocess has a
  timeout), so no thread needs a condition of its own. No call has to arrive.
- `executor_guard`: who is in the fence moves on, and so does each runner, whose
  agent ends by its own limits or by its launcher's timeout. Nobody has to begin,
  write, plan or die.
- `autopilot`: weak fairness of each living controller and of each child's end
  (`spawnSync` has a timeout). The action constraints of the MC modules
  never hold back the last thing a process that must move could do.
- `repair_session`: weak fairness of the session thread and of the children, for
  the same reason. Neither a stop nor a start is fair.

## 4. The proofs

**`ControlStoreProofs`**, for every set of tasks, runs, heads, worktrees and
paths, every relation `Below`, every duration and bound. The properties are not
inductive: that a task has one run in its lease's epoch rests on the fact that
*every* other run of the task is behind that epoch, and a new claim relies on the
maximum over attempts being the epoch. `IInv` adds `RunsBehindLeases`,
`NoRowNoLease`, `AttemptsMatchEpochs` and `WithinAllocation` to `TypeOK`,
`RowsAgree` and `LiveLeasesDisjoint`; one lemma per action shows that it is kept
(`CreateTaskIInv`, `ClaimIInv`, `HeartbeatIInv`, `ReleaseIInv`).
`NextAttemptIsNextEpoch` is the arithmetic core, `ScopeOverlapSymmetric` the
geometric one. Theorems: `TypeCorrect`, `Exclusion` (`LiveLeasesDisjoint`),
`Agreement` (`RowsAgree`), `Fencing` (`FencedRuns`), `AttemptsAreEpochs`,
`BudgetSafe` (spent never exceeds allocated), `LiveLeaseKept`
(`NoTakeoverOfLive`), `DeadLeaseStaysDead` (no late heartbeat revives a lease).

The log needs two more invariants. `LogInv` says that no event is ahead of its
task's lease, that a release seen in the log is one in the row
(`LogBehindLeases`), that a task's last event ends at the head its next claim
must start from (`LogEndsAtHead`), and that only a release leaves a result head;
one lemma, `LogStep`, covers what the four operations owe it. It gives
`LogIsFenced` (`LogFenced`) and `HeadsChain` (`LogHeadsChain`). `BudgetAccounted`
(`BudgetConserved`, which no run repeats) is about a sum over a log of any length. Rather than unfold
the recursion by induction, `BudgetInv` says that *some* running sum of the log
ends in what the task has spent; an appended event extends it (`SumOfAppend`),
and two running sums of one log are equal, since they would differ first at some
least place (`OneRunningSum`, by `LeastNatural`), so `Reserved` is that one.

**`DaemonProofs`** begins with the idempotency table, for every number of calls,
keys, requests and results and every table size. `IInv` adds that a running call
owns the pending entry of its key, that a waiting call's key was taken, that a finished entry is in the log
and that a pending entry has an owner; pruning keeps it because it removes
finished entries only (`PrunedEntries`), a restart because it leaves no entry and
no running call. Theorems: `IdemTypeCorrect`, `SingleExecution` (a key never has
two executions in flight), `RealAnswers` (an answer is one that an execution of
the same request gave) and `Refinement`: `Idempotency` implements `OnceOnly` under
the refinement mapping `remembered <- rememberedView, answers <- answersView`;
each action maps to a step of `OnceOnly` or to a stutter.

Then the daemon, for every number of calls, keys, tasks, runs, requests and
tokens, every policy time, every number of restarts. Each step of the daemon is
a step of the table (`DaemonRefinesTable`), so the table's `IInv` holds and
`DaemonOnceOnly` follows: the whole daemon implements `OnceOnly`. `DInv` adds
what a thread has established before its next step: between `Judge` and
`CreateGoverned` it holds an approval that was good when it was judged
(`Approvals`); from `Reserve` to `Settle` it serves a governed task, its run is
active and nobody else's (`Launches`, `OneLauncher`); and what rows owe to it: a
row stands for the request that made it (`RowsStand`), one the policy evaluated
was authorised (`RowsApproved`), what the log calls done is there (`LogStands`), an
envelope is no wider than its row (`EnvelopesStand`). None is inductive alone:
that a launched run stays active needs that no two threads launch it, since each
takes it out at its end; that an approval is still the row's, and the log still
true, needs that a task is inserted only once.
Theorems: `CreationsStand`, `GovernedApproved`, `EnvelopesWithinScope`,
`LeaseStaysInternal`, each the property of the run.

**`ExecutorGuardProofs`**, for every number of leases, runners, files, plans,
writes and deaths. `IInv` is type correctness (which says who is in the fence),
`LeaseFacts` (from the first snapshot to git's answer a path that differs stays
different or is excused, so that what an issued baseline has and the commit has not
is excused; only an issued lease is spent) and `RunnerFacts` (a runner between two
guarded steps found its lease unspent; a paid one spent it; its packet is its
lease's; what it accepted differs from the baseline in scope only, with no new
link).
Theorems: `GuardTypeCorrect`, `OneShotRefinement` (`ImplementsOneShot`),
`BaselineIsCommitted` (`CleanBaseline`), `PromptLeased` (`PromptIsLeased`),
`AcceptedWithinScope` (`AcceptedInScope`).

**`GovernedLaunchProofs`**, for every number of requests, runs, tasks and
worktrees, every duration and every number of crashes. `LaunchKeepsStore` shows
`LaunchSpec => Spec`: launches, workers and crashes drive the store only through
its operations, so each theorem of `ControlStoreProofs` holds of them.
`OneThreadPerRun` (`SingleFlight`) and `CheckedWithAuthority`
(`CheckedUnderLiveLease`: whoever passes the check of a paid start has the live
lease, whatever stalls) rest on `LaunchInv`, which follows a lease from the claim to
that check: a claimed request (`ClaimKept`) and an
unpaid worker (`WorkerKept`) own their lease until the expiry the claim computed
has passed. That is inductive only together with `SingleFlight` (another thread
of the run could release the lease) and `SpawnedIsWaited` (the thread of an
unpaid worker is waiting for it, so it is not about to release). `Placed`,
`Serving` and `BasesKnown` are the typing facts these need; `IInv` is the
store's. One lemma serves all thread steps that leave the store alone
(`QuietStep`), one the steps outside the threads (`OutsideStep`); `SpawnInv`,
`ClaimInv`, `ReleaseInv`, `ArriveInv`, `StoreStep` and `CrashInv` are the others.

Its second part is about the worktree. `WorkInv` says of a thread past its claim
that its run is running, that it owns the lease of its worktree until the expiry
the claim computed, and what it has already seen to (`ThreadOK`: a worker that
ended, a container that is gone, a failure that is marked); and of a worker, also
one whose thread died with the daemon, until when it may still start its
container and what its row's outcome tells (`WorkerOK`). It needs nothing of how the
timeouts nest, and neither do `QuietAfterRelease` (`ReleasedMeansQuiet`) and
`MarkedAfterFailure` (`FailedMeansQuarantined`).

Three others do need it, for after a crash nothing but time keeps an orphaned
worker and the next owner of the worktree apart until the orphan's container is
up. `OneWriter` (`OneWriterPerWorkspace`) assumes `StartsInLease`: from a claim
to its container takes less than the lease, in the code some 270 of 1800 s. So does
`PaidWithAuthority` (`PaidUnderLiveLease`): between the check and the write of a
paid start lies a Git snapshot, and only the order of the timeouts puts the write
before the lease's end. `OneWriter`
rests on `ApartInv`: a thread that has looked for containers, and a worker it
spawned, have the worktree to themselves. How long a worker or a container lives
on after that does not matter, since the next launch looks for it.
`NoneSpawnedInQuarantine` (`NoSpawnInQuarantine`) assumes `EndsInLease`: start-up,
worker timeout and cleanup together take less than the lease, 270 + 1200 + 240 of
1800 s; else a stalled owner marks the worktree between the readiness check and
the spawn of the next one (`CheckedInv`). Neither hypothesis can go: TLC
finds both properties violated with two launches, a lease of two ticks and four
ticks of delay, and `NoSpawnInQuarantine` also when only the worker and its
cleanup take that long.

**`ControllerLockProofs`**, for every number of controllers, tries and deaths.
`LockInv`: a contender that is about to unlink saw, twice, the file of a process
that has ended (`SeenIsOver`), and until somebody creates a lock under an unlink
that file is still there (`PathUndisturbed`). `HolderSafe` (`HolderKeepsLock`)
and `ExclusiveUnlessRaced` (in the same histories, `OneController`) hold on any
number of machines if no command outlasts `lock_timeout_seconds`, and on one
machine always (`AgeIrrelevant`); between machines a longer command does lose
its lock, as section 5 says. `RefusalJustified` (`RefusedMeansRival`) rests on
`LoneInv`: as long as a contender has met nobody, its first pass removes the dead
lock and its second makes its own. So it asks for a second try (`Attempts > 1`;
the code has three), for one machine (on another one a dead controller's lock
must first age), and for no death over an empty file (`~TornCrash`; with one the
property is false, section 5).

**`WriteGateProofs`**, for every number of writers, keys, calls and crashes and
every limit. `GateInv` has the lock first (`LockInv`: it is a writer's own while
that writer is at work, and what an `rm` is about to remove has outlived its
age limit), then what a call knows (`CallsInv`: its snapshot is as new as the
state file, and its sleep ends when gap, window and suppression allow a
request), then what becomes of a write GitHub carried out (`TakenInv`: the file,
or the snapshot that will replace it, tells of it). The window is a counting
argument: the writes GitHub took in one window are among those the snapshot
counts as recent, of which there are fewer than the ceiling. Theorems:
`GateInvariant`, `WritersAlone` (`SoleWriter`), `WritesArePaced` (`Paced`),
`CommentsAreNotRepeated` (`CommentedOnce`), `SavesLoseNothing`
(`NothingForgotten`). What the properties set aside (`overstayed`, `raced`,
`unrecorded`) is what the code gets wrong or cannot know, see section 5.

**`AutopilotProofs`**, for every number of controllers, commands, deaths and saves
that throw. `AutoInv` says for each step a controller can be at what its record,
the counters and its child may be (`JobsConsistent`), that a run has one
controller, and what stays true of a run nobody drives any more
(`RunsConsistent`); after a throw the disk may hold the record of either side of
it. Theorems: `CompleteIsTrue` (`CompleteMeansDelivered`), `ExitIsTrue`
(`ExitTells`) and `OneWorkerPerCrash` (`OneWorker`), which counts without taking the
lock for exclusive: a running child whose controller is dead was orphaned by a
crash of its own (`OrphansCounted`), one whose living controller does not hold the
lock was robbed of it by an unlink of its own (`RobbedCounted`), the holder has at
most one; and before the first death there is no stale lock, so nobody removes
another's (`Peace`).

**`RepairSessionProofs`**, for every set of defects, budget, estimate and limit
and any number of cycles, heads and sessions. `SessionInv` says what the running
invocation was given (`Invocation`: the limit is the budget less what the session
has spent, the foundation is the one the session holds), that a report counts as
a cycle's own only once it is written (`OwnReport`), that a foundation is there
when it is held (`FoundationKnown`), where the money is (`BillCovered`: the bill,
less what no report tells of, is at most the session's sum and the report not yet
read), and what follows a stop and a fatal report (`StopSeen`: a late stop stands
in the flag, so that no build is prepared after it; `PoisonEnds`). Each step is
proved once against one of three summaries: the invocation goes on (`GoesOn`),
leaves a report (`LeavesReport`), or the thread decides (`Decides`). Theorems:
`SessionTypeCorrect`, `SpendingBounded` (`BudgetHolds`: each paid call starts with
its estimate inside what is left), `OverspendBounded` (`OneCallOver`: so at most one
call's excess goes over), `StopIsHonoured` (`StopHonoured`), `FailsClosed`
(`FailClosed`) and `FoundationIsKept` (`FoundationKept`: a held foundation changes
only with a partial win made on it and on its base, to what that candidate
repairs).

The proofs use of the constants only the named assumptions of their modules
(`StoreConstants`, `LaunchConstants`, `IdemConstants`, `DaemonConstants`,
`GuardConstants`, `LockConstants`, `GateConstants`, `AutopilotConstants`,
`NoneIsNoJob`, `RatConstants`, `NoneIsNothing`, `SessionConstants`), which the
runs evaluate, and the hypotheses named above.

So every invariant and every action property of the passing runs, and both
refinements, are proved for all values of the constants.

Only proved, and in no run of their own: the type correctness of the modules
other than the store, `LaunchKeepsStore`, `Fencing`, `AttemptsAreEpochs`,
`BudgetSafe`, `BudgetAccounted`, `DeadLeaseStaysDead`, `SingleExecution`,
`RealAnswers`, `ExclusiveUnlessRaced`, `GateInvariant` and `OverspendBounded`.

Only model-checked: liveness (`LaunchEnds`, `WaitersAnswered`, `RunnersEnd`,
`RunsSettle`, `SessionEnds`), which needs fairness and ENABLED and is beyond this
prover, and the three violations of section 5.

## 5. What was found

- `launch_stuck`: a daemon crash, a failed admission after the claim
  (`daemon.py:231`) or a release refused because the lease expired leaves the
  run's row at "running" for ever, and each retry is refused as already active.
- `lock_race`: of two contenders that both looked twice at a dead holder's lock,
  the slower removes the new lock of the faster. `HolderKeepsLock` is what holds
  otherwise.
- `foundation_refused`: a repair that turns green on a replayed foundation has
  the replay's commit for its parent, and Rat Review demands the exact head.

Facts the models contain that contradict no written promise, but that a
maintainer should know:

- *Daemon.* `workspace.claim` outside a governed launch ignores quarantine. A
  heartbeat may shorten a lease. A failed claim takes its run's internal key
  until a restart or an eviction. A restart forgets every idempotency key and
  nonce; a client's own retry has a new key anyway. Budget is never given back.
- *Creation.* A plain `task.create` may bring governance columns of its own
  (`daemon.py:106`, `store.py:94`); the row is then governed and launchable though
  no policy evaluated it. `GovernedMeansApproved` and the approval part of
  `EnvelopesInScope` are about evaluated rows.
- *Launch.* A worker whose output cannot be read or decoded after it ran is
  released worker-failed with its containers removed and no quarantine marker
  (`governed_host_launcher.py:451`); `FailedMeansQuarantined` is about failures the
  launcher sees by exit code or at the deadline. A paid start is written a Git
  snapshot after its lease's expiry was compared (`executor_guard.py:547-550`).
- *Policy.* An approval names the stripped task id while the row keeps the raw
  one, so one approval fits each padded spelling once. An exemption sent together
  with a review is judged ready, and then refused by the insert. With an exemption
  `evaluate_authorized_reuse_readiness` ignores a review,
  `evaluate_build_readiness` judges it.
- *Guard.* Two leases issued on one clean worktree may both be spent before
  either writes: the guard alone does not exclude that, the store's leases do. The
  scope is read at the start of an issue and the packet's digest at its end, so an
  ungoverned lease may join an older plan's scope with a newer digest; a governed
  start compares with the envelope. The quarantined opencode runner reads its
  packet after the check. `run_paid.py:148` says that both challengers receive the
  same packet, which may be planned anew between them; a refused lease there
  raises and loses the results already paid for. A write put back while git
  status looks and made again before the second snapshot enters the baseline, and
  so does a link planted between lines 509 and 510 in an ignored path; a postflight
  then accepts both as unchanged. The OpenHands runner cannot verify at all
  (`openhands_runner.py:20`, no import of `subprocess`).
- *Lock.* A crash between creating and writing the file (`TornCrash = TRUE`)
  refuses every later controller. Between machines a long command loses its lock
  after 90 s, since its heartbeat cannot fire.
- *Writer.* A `Retry-After` above 120 s outlives the writer's own lock, and its
  unconditional unlock then removes another's. A 5xx may hide a write that is
  then repeated. After a crash, every call in the first minute is refused.
- *Autopilot.* Repair Rat exits with 2 or 4 unless green and the adapter demands
  0, so the NEEDS_OWNER branches of a repair are dead and its paid call is missing
  from the record. The error path says nothing changed although a branch or
  draft may have been pushed. REVIEW may not move to COMPLETE. No code reads the
  STOP file. A save that throws makes a command exit with 2 over a record that says
  COMPLETE, or over an unfinished one when the catch's own save throws as well, and
  with 1 when it is `createRun`'s. After a crash the orphaned child runs on beside
  the next command's; two controllers that race for the dead one's lock may both go
  on, and three children work after one death.
- *Session.* `server.py:543` clears a stop that came right after the start,
  although it was answered with "no new work will start" (`server.py:977`): the
  session then starts build after build (TLC finds `StopHonoured` violated as soon
  as its condition is left out). A paid patch that clears its own target and undoes
  a sub-fix retained before is a partial win (`SiteBoss-Repair-Rat.ps1:2097`), and
  the new foundation is without that sub-fix, though the packet asks to "Preserve
  the retained partial-win foundation." (`server.py:403`). The estimate a call is
  checked with is a floor (`SiteBoss-Repair-Rat.ps1:221`), so a session's last
  call may go over the budget. A call whose invocation is killed costs money no
  report shows. After a failure on a foundation the next paid call is the full
  blind one. The two transient strings the session forgives at `server.py:728` are
  emitted by nothing in Repair Rat. `run_command_live` has no timeout of its own,
  only its children have; the death of the dashboard is outside `SessionEnds` and
  leaves the status at running. Paid review is disabled in this version, so no
  fresh commit passes review.

## 6. Not modelled, and the plan

Done: `ControlStore`, `GovernedLaunch` over it, `Idempotency` with `OnceOnly` and
`Daemon` over both with `ReuseGate`, `ExecutorGuard` with `OneShot`,
`ControllerLock`, `WriteGate`, `Autopilot`, `RepairRat` and `RepairSession`, each
with the proofs of its safety properties.

Next:

1. `CostLedger`: reserve and settle against caps, a denied settlement that keeps
   its reservation. Proof: reserved plus settled never exceeds a cap. Nothing in
   the repository calls it yet.
2. `Scheduler`: the greedy batches as a function, checked against a reference
   definition (no conflict in a batch, dependencies in earlier ones).
3. `GovernedLaunch`'s paid start as an instance of `ExecutorGuard`.
4. Rat Review in full (retest, cached review, push and draft through the guarded
   writer), Repair Rat's existing-child mode, and Child-Cycle's repair depth.
5. Connections: nonces and clock windows of the daemon's handshake.

New questions take the place of runs and properties that a theorem then covers.

Outside the plan: pure computations on one payload (signature bytes, permanent
rules, path and ACL checks of the host), prompt text and evidence collection, benchmarks of
executors, windows and report formats, start-up and diagnostic scripts, and
tests.
