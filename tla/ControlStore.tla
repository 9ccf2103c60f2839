----------------------------- MODULE ControlStore -----------------------------
(***************************************************************************)
(* The SQLite store of the ForgeBoss daemon (forgeboss/control/store.py):  *)
(* tasks, the one workspace lease each task may have, the runs that owned  *)
(* it, and the append-only task_events log.                                *)
(*                                                                         *)
(* Every mutating method takes the store's RLock and one BEGIN IMMEDIATE   *)
(* transaction and rolls back on any exception, so each is one action      *)
(* here; a call the code rejects is an action that is not enabled.  A row  *)
(* that does not exist is status "absent" (tasks, runs) or epoch 0         *)
(* (leases).  The `revision = ?' guards of claim_workspace compare with a  *)
(* value read in the same transaction and cannot fail: revision and the    *)
(* timestamps nobody reads back are left out.                              *)
(***************************************************************************)
EXTENDS Integers, Sequences

CONSTANTS
  Task, Run, Repo, Commit, Worktree, Path,  \* identifiers
  Below,      \* <<p, q>>: canonical path p lies strictly under path q
  Profile,    \* the task requests create_task may receive
  Outcome,    \* outcomes a release may report: any string of the client
  TTL,        \* lease durations, in clock ticks
  Cost,       \* budget requests of claims
  None,       \* no value
  MaxTime,    \* bound: last clock tick
  MaxEvents   \* bound: length of the event log

ProfileType == [repo : Repo, scope : SUBSET Path, base : Commit, allocated : Nat]

ASSUME StoreConstants ==
  /\ Below \subseteq Path \X Path
  /\ Profile \subseteq ProfileType
  /\ TTL \subseteq Nat \ {0}
  /\ Cost \subseteq Nat
  /\ None \notin Repo \cup Commit \cup Worktree \cup Run \cup Task
  /\ "absent" \notin Outcome       \* "absent" stands for a missing row, not a string
  /\ MaxTime \in Nat /\ MaxEvents \in Nat

VARIABLES
  tasks,    \* Task -> row of tasks
  leases,   \* Task -> row of workspace_leases
  runs,     \* Run -> row of task_runs
  events,   \* task_events, oldest first
  now       \* time.time()

vars == <<tasks, leases, runs, events, now>>

TaskStatus == {"absent", "queued", "running"} \cup Outcome
RunStatus  == {"absent", "running"} \cup Outcome
TaskRow == [status : TaskStatus, repo : Repo \cup {None}, scope : SUBSET Path,
            base : Commit \cup {None}, allocated : Nat, spent : Nat,
            resultHead : Commit \cup {None}]
LeaseRow == [epoch : Nat, run : Run \cup {None}, worktree : Worktree \cup {None},
             expires : Nat, released : BOOLEAN, head : Commit \cup {None},
             reserved : Nat]
RunRow == [status : RunStatus, task : Task \cup {None}, attempt : Nat, epoch : Nat]
Event == [type : {"created", "claimed", "heartbeat", "released"}, task : Task,
          run : Run \cup {None}, epoch : Nat, head : Commit \cup {None}, reserved : Nat]

NoTask  == [status |-> "absent", repo |-> None, scope |-> {}, base |-> None,
            allocated |-> 0, spent |-> 0, resultHead |-> None]
NoLease == [epoch |-> 0, run |-> None, worktree |-> None, expires |-> 0,
            released |-> TRUE, head |-> None, reserved |-> 0]
NoRun   == [status |-> "absent", task |-> None, attempt |-> 0, epoch |-> 0]

TypeOK ==
  /\ tasks \in [Task -> TaskRow]
  /\ leases \in [Task -> LeaseRow]
  /\ runs \in [Run -> RunRow]
  /\ events \in Seq(Event)
  /\ now \in Nat
  /\ \A t \in Task : leases[t].epoch > 0 =>
       leases[t].run \in Run /\ leases[t].worktree \in Worktree /\ leases[t].head \in Commit

-----------------------------------------------------------------------------
(* Helpers.                                                                *)

\* A lease row other tasks must respect: not released and not expired.
Live(t) == ~leases[t].released /\ leases[t].expires > now

\* A scope check that only looks one way up the tree.
MutScopeOverlap(A, B) == \E x \in A, y \in B : x = y \/ <<x, y>> \in Below

\* _scope_overlap: some writable path equals, or lies under, one of the other.
ScopeOverlap(A, B) ==
  \E x \in A, y \in B : x = y \/ <<x, y>> \in Below \/ <<y, x>> \in Below

\* What makes two tasks collide while both hold a lease (the loop body of
\* _live_cross_task_conflicts_locked), w being the worktree t asks for.
Collides(t, w, u) ==
  \/ leases[u].worktree = w
  \/ /\ tasks[u].repo = tasks[t].repo
     /\ tasks[u].base = tasks[t].base
     /\ ScopeOverlap(tasks[t].scope, tasks[u].scope)

\* A conflict check that looks at the task's own lease row.
MutOwnConflict(t, w) == Live(t) /\ Collides(t, w, t)

LiveCrossTaskConflict(t, w) == \E u \in Task \ {t} : Live(u) /\ Collides(t, w, u)

\* A takeover allowed in the last tick of a lease.
MutLeaseFree(t) == leases[t].released \/ leases[t].expires <= now + 1

\* A claim that never asks whether the task's lease is still active.
MutAnyLeaseFree(t) == TRUE

\* claim_workspace's "workspace lease is already active" check.
LeaseFree(t) == leases[t].released \/ leases[t].expires <= now

\* next_epoch of claim_workspace.
NextEpoch(t) == leases[t].epoch + 1

\* A claim head that forgets what heartbeats recorded.
MutExpectedHead(t) == IF tasks[t].resultHead # None THEN tasks[t].resultHead ELSE tasks[t].base

\* The head a claim must present: the lease row's, else the task's result
\* head, else its base.
ExpectedHead(t) ==
  IF leases[t].epoch > 0 THEN leases[t].head
  ELSE IF tasks[t].resultHead # None THEN tasks[t].resultHead ELSE tasks[t].base

\* _validated_budget_request: what it admits, and the new budget_spent.
BudgetAdmits(t, cost) ==
  /\ tasks[t].spent <= tasks[t].allocated
  /\ cost <= tasks[t].allocated - tasks[t].spent

NewSpent(t, cost) == tasks[t].spent + cost

\* COALESCE(MAX(attempt),0)+1 over the runs of the task.
NextAttempt(t) ==
  LET mine == {r \in Run : runs[r].task = t}
  IN IF mine = {} THEN 1
     ELSE 1 + runs[CHOOSE r \in mine : \A q \in mine : runs[q].attempt <= runs[r].attempt].attempt

\* _event_locked: the state version of an event is its position in the log.
Log(type, t, r, epoch, head, reserved) ==
  events' = Append(events, [type |-> type, task |-> t, run |-> r, epoch |-> epoch,
                            head |-> head, reserved |-> reserved])

RoomInLog == Len(events) < MaxEvents

\* Writer checks that forget released_at.
MutReleasedWriter(t, r, e, expected) ==
  /\ leases[t].run = r /\ leases[t].epoch = e
  /\ leases[t].expires > now
  /\ expected \in {None, leases[t].head}

\* The checks heartbeat, release and assert_writer share.
WriterAuthority(t, r, e, expected) ==
  /\ leases[t].run = r /\ leases[t].epoch = e /\ ~leases[t].released
  /\ leases[t].expires > now
  /\ expected \in {None, leases[t].head}

\* A reported head stored as it came, absent or not.
MutHeadOr(reported, t) == reported

\* The head a heartbeat or a release leaves: the reported one, if any.
HeadOr(reported, t) == IF reported = None THEN leases[t].head ELSE reported

\* A release that leaves the task's result head as it was.
MutResultHead(t, head) == tasks[t].resultHead

\* The result_head a release stores in the task row.
ResultHead(t, head) == head

-----------------------------------------------------------------------------
(* Operations.                                                             *)

Init ==
  /\ tasks = [t \in Task |-> NoTask]
  /\ leases = [t \in Task |-> NoLease]
  /\ runs = [r \in Run |-> NoRun]
  /\ events = <<>>
  /\ now = 0

CreateTask(t, p) ==
  /\ RoomInLog
  /\ tasks[t].status = "absent"              \* PRIMARY KEY(task_id)
  /\ tasks' = [tasks EXCEPT ![t] =
       [status |-> "queued", repo |-> p.repo, scope |-> p.scope, base |-> p.base,
        allocated |-> p.allocated, spent |-> 0, resultHead |-> None]]
  /\ Log("created", t, None, 0, p.base, 0)
  /\ UNCHANGED <<leases, runs, now>>

ClaimWorkspace(t, r, w, head, ttl, cost) ==
  /\ RoomInLog
  /\ tasks[t].status # "absent"
  /\ LeaseFree(t)
  /\ head = ExpectedHead(t)
  /\ ~LiveCrossTaskConflict(t, w)
  /\ BudgetAdmits(t, cost)
  /\ runs[r].status = "absent"               \* PRIMARY KEY(run_id)
  /\ LET epoch == NextEpoch(t) IN
     /\ leases' = [leases EXCEPT ![t] =
          [epoch |-> epoch, run |-> r, worktree |-> w, expires |-> now + ttl,
           released |-> FALSE, head |-> head, reserved |-> cost]]
     /\ runs' = [runs EXCEPT ![r] =
          [status |-> "running", task |-> t, attempt |-> NextAttempt(t), epoch |-> epoch]]
     /\ tasks' = [tasks EXCEPT ![t].status = "running", ![t].spent = NewSpent(t, cost)]
     /\ Log("claimed", t, r, epoch, head, cost)
  /\ UNCHANGED now

\* newHead = None when the caller reports no head.
Heartbeat(t, r, e, ttl, newHead, expected) ==
  /\ RoomInLog
  /\ WriterAuthority(t, r, e, expected)
  /\ LET head == HeadOr(newHead, t) IN
     /\ leases' = [leases EXCEPT ![t].expires = now + ttl, ![t].head = head]
     /\ Log("heartbeat", t, r, e, head, 0)
  /\ UNCHANGED <<tasks, runs, now>>

\* The outcome is stored as it came: a client may well report "running".
Release(t, r, e, resultHead, outcome, expected) ==
  /\ RoomInLog
  /\ WriterAuthority(t, r, e, expected)
  /\ runs[r].status = "running" /\ runs[r].task = t /\ runs[r].epoch = e
  /\ tasks[t].status = "running"
  /\ LET head == HeadOr(resultHead, t) IN
     /\ leases' = [leases EXCEPT ![t].released = TRUE, ![t].head = head]
     /\ runs' = [runs EXCEPT ![r].status = outcome]
     /\ tasks' = [tasks EXCEPT ![t].status = outcome, ![t].resultHead = ResultHead(t, head)]
     /\ Log("released", t, r, e, head, 0)
  /\ UNCHANGED now

Tick ==
  /\ now < MaxTime
  /\ now' = now + 1
  /\ UNCHANGED <<tasks, leases, runs, events>>

Claim ==
  \E t \in Task, r \in Run, w \in Worktree, h \in Commit, ttl \in TTL, c \in Cost :
    ClaimWorkspace(t, r, w, h, ttl, c)
Renew ==
  \E t \in Task, r \in Run, ttl \in TTL, h, x \in Commit \cup {None} :
    \E e \in {leases[t].epoch, leases[t].epoch - 1} : Heartbeat(t, r, e, ttl, h, x)
Finish ==
  \E t \in Task, r \in Run, o \in Outcome, h, x \in Commit \cup {None} :
    \E e \in {leases[t].epoch, leases[t].epoch - 1} : Release(t, r, e, h, o, x)

Next ==
  \/ \E t \in Task, p \in Profile : CreateTask(t, p)
  \/ Claim
  \/ Renew
  \/ Finish
  \/ Tick

Spec == Init /\ [][Next]_vars

-----------------------------------------------------------------------------
(* Properties.                                                             *)

\* Two tasks never hold live leases that share a worktree, nor overlapping
\* writable scopes of one repository at one base: what the collision check of
\* claim_workspace establishes must survive heartbeats that extend a lease.
LiveLeasesDisjoint ==
  \A t, u \in Task :
    t # u /\ Live(t) /\ Live(u) => ~Collides(t, leases[t].worktree, u)

\* The task and run rows agree with the lease row whatever the order of
\* claims, expiries, takeovers and releases: an unreleased lease has its
\* owner's run and its task "running" at the same epoch, so that its release
\* is never refused for a row; a released one has left both with one outcome
\* and the task's result head at the lease's head.  The converse does not hold:
\* a release may report any outcome, "running" among them.
RowsAgree ==
  \A t \in Task :
    leases[t].epoch > 0 =>
      LET r == leases[t].run IN
      /\ r \in Run /\ runs[r].task = t /\ runs[r].epoch = leases[t].epoch
      /\ tasks[t].status = runs[r].status
      /\ ~leases[t].released => runs[r].status = "running"
      /\ leases[t].released => tasks[t].resultHead = leases[t].head

\* A run that was taken over after its lease expired can never be released
\* or heartbeat again: every "running" run is either the lease's owner or has
\* an older epoch than the lease.
FencedRuns ==
  \A r \in Run :
    runs[r].status = "running" =>
      \/ leases[runs[r].task].run = r
      \/ runs[r].epoch < leases[runs[r].task].epoch

\* The two counters of a claim, the run's attempt number (a maximum over the
\* task's runs) and its owner epoch (one more than the lease row's), are
\* computed from different tables and always agree.
AttemptsMatchEpochs == \A r \in Run : runs[r].attempt = runs[r].epoch

\* No sequence of claims, takeovers and releases spends more than the task was
\* allocated.
WithinAllocation == \A t \in Task : tasks[t].spent <= tasks[t].allocated

\* What the log says the claims of task t reserved, event by event.
Reserved(t) ==
  LET upTo[n \in 0 .. Len(events)] ==
        IF n = 0 THEN 0
        ELSE upTo[n - 1] + (IF events[n].task = t THEN events[n].reserved ELSE 0)
  IN upTo[Len(events)]

\* Budget is conserved: what a task has spent is exactly what the log says its
\* claims reserved.  An expired, failed or completed run gives nothing back,
\* and a claim rejected after its budget check charges nothing.
BudgetConserved == \A t \in Task : tasks[t].spent = Reserved(t)

\* Fencing as the log shows it: among the accepted mutations of a task epochs
\* never go back, a claim is exactly the event that raises the epoch, and
\* nothing follows a release under the same epoch.
LogFenced ==
  \A i, j \in DOMAIN events :
    i < j /\ events[i].task = events[j].task =>
      /\ events[i].epoch <= events[j].epoch
      /\ events[j].type = "claimed" => events[i].epoch < events[j].epoch
      /\ events[i].type = "released" => events[i].epoch < events[j].epoch

\* Work is never lost between owners: a claim starts from the head the last
\* accepted event of its task left (the base, for the first claim).
LogHeadsChain ==
  \A j \in DOMAIN events :
    events[j].type = "claimed" =>
      \E i \in 1 .. j - 1 :
        /\ events[i].task = events[j].task
        /\ events[i].head = events[j].head
        /\ \A k \in i + 1 .. j - 1 : events[k].task # events[j].task

\* A lease changes hands only when it is dead: while a lease is live no step
\* gives the task another owner, epoch or worktree.
NoTakeoverOfLive ==
  [][\A t \in Task : Live(t) =>
       /\ leases'[t].run = leases[t].run
       /\ leases'[t].epoch = leases[t].epoch
       /\ leases'[t].worktree = leases[t].worktree]_vars

\* A lease once dead stays dead until a claim raises the epoch: no late
\* heartbeat revives it.
DeadUntilReclaimed ==
  [][\A t \in Task : ~Live(t) /\ Live(t)' => leases'[t].epoch = leases[t].epoch + 1]_vars
=============================================================================
