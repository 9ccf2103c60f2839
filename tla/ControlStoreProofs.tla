-------------------------- MODULE ControlStoreProofs --------------------------
(***************************************************************************)
(* Proofs about ControlStore for every set of tasks, runs, heads,          *)
(* worktrees and paths, every lease duration and every bound.              *)
(*                                                                         *)
(* The inductive invariant IInv strengthens the properties with what ties  *)
(* the three tables together: a lease's owner is the one run of its task   *)
(* with the lease's epoch, and all other runs of the task have older ones. *)
(* LogInv adds how far the log is behind the leases, BudgetInv a running   *)
(* sum of what it reserves.                                                *)
(***************************************************************************)
EXTENDS ControlStore, WellFoundedInduction, TLAPS

\* A row that does not exist is the empty one, and every other run belongs to
\* a task whose lease has reached its epoch; only the lease's owner has the
\* lease's epoch.
RunsBehindLeases ==
  \A r \in Run :
    \/ runs[r].status = "absent" /\ runs[r].task = None /\ runs[r].epoch = 0
    \/ /\ runs[r].status # "absent"
       /\ runs[r].task \in Task
       /\ runs[r].epoch \in 1 .. leases[runs[r].task].epoch
       /\ runs[r].epoch = leases[runs[r].task].epoch => leases[runs[r].task].run = r

\* A task without a lease row holds nothing.
NoRowNoLease == \A t \in Task : leases[t].epoch = 0 => leases[t].released

IInv ==
  /\ TypeOK
  /\ RunsBehindLeases
  /\ NoRowNoLease
  /\ RowsAgree
  /\ AttemptsMatchEpochs
  /\ WithinAllocation
  /\ LiveLeasesDisjoint

\* Whether writable scopes overlap does not depend on which task asks.
LEMMA ScopeOverlapSymmetric ==
  ASSUME NEW A, NEW B, ScopeOverlap(A, B)
  PROVE  ScopeOverlap(B, A)
BY DEF ScopeOverlap

\* The attempt number a claim computes is the epoch it computes.
LEMMA NextAttemptIsNextEpoch ==
  ASSUME TypeOK, RunsBehindLeases, RowsAgree, AttemptsMatchEpochs, NEW t \in Task
  PROVE  NextAttempt(t) = leases[t].epoch + 1
<1> DEFINE mine == {r \in Run : runs[r].task = t}
           top(r) == \A q \in mine : runs[q].attempt <= runs[r].attempt
<1>0. leases[t].epoch \in Nat
  BY DEF TypeOK, LeaseRow
<1>1. \A q \in mine : runs[q].attempt \in 1 .. leases[t].epoch
  BY <1>0, StoreConstants DEF TypeOK, RunsBehindLeases, AttemptsMatchEpochs
<1>2. CASE leases[t].epoch = 0
  <2>1. mine = {}
    BY <1>1, <1>2
  <2> QED
    BY <2>1, <1>2 DEF NextAttempt
<1>3. CASE leases[t].epoch # 0
  <2>1. leases[t].run \in mine /\ runs[leases[t].run].attempt = leases[t].epoch
    BY <1>3, <1>0 DEF RowsAgree, AttemptsMatchEpochs
  <2>2. top(leases[t].run)
    BY <1>1, <2>1
  <2>3. \A r \in mine : top(r) => runs[r].attempt = leases[t].epoch
    BY <1>1, <2>1, <1>0
  <2>4. runs[CHOOSE r \in mine : top(r)].attempt = leases[t].epoch
    BY <2>1, <2>2, <2>3
  <2> HIDE DEF top
  <2> QED
    <3>1. NextAttempt(t) = 1 + runs[CHOOSE r \in mine : top(r)].attempt
      BY <2>1 DEF NextAttempt, top
    <3> QED
      BY <3>1, <2>4, <1>0
<1> QED
  BY <1>2, <1>3

\* The empty tables satisfy the invariant.
LEMMA InitIInv == Init => IInv
<1> SUFFICES ASSUME Init PROVE IInv
  OBVIOUS
<1>1. TypeOK
  BY StoreConstants DEF Init, TypeOK, TaskRow, LeaseRow, RunRow, TaskStatus, RunStatus,
     NoTask, NoLease, NoRun
<1> QED
  BY <1>1 DEF Init, IInv, RunsBehindLeases, NoRowNoLease, RowsAgree, AttemptsMatchEpochs,
     WithinAllocation, LiveLeasesDisjoint, Live, NoTask, NoLease, NoRun

\* Only a live lease's row can make others collide, and a live lease's task row
\* exists: creating a task disturbs no lease.
LEMMA CreateTaskIInv ==
  ASSUME IInv, NEW t \in Task, NEW p \in Profile, CreateTask(t, p)
  PROVE  IInv'
<1> USE DEF IInv
<1>0. /\ p \in ProfileType
      /\ leases' = leases /\ runs' = runs /\ now' = now
      /\ tasks[t].status = "absent"
  BY StoreConstants DEF CreateTask
<1>1. TypeOK'
  <2>1. tasks' \in [Task -> TaskRow]
    BY <1>0, StoreConstants DEF CreateTask, TypeOK, ProfileType, TaskRow, TaskStatus
  <2>2. events' \in Seq(Event)
    BY <1>0, StoreConstants DEF CreateTask, TypeOK, ProfileType, Log, Event
  <2> QED
    BY <2>1, <2>2, <1>0 DEF TypeOK
<1>2. leases[t].epoch = 0
  <2>1. leases[t].epoch \in Nat
    BY DEF TypeOK, LeaseRow
  <2>2. ASSUME leases[t].epoch > 0
        PROVE  /\ leases[t].run \in Run /\ runs[leases[t].run].status = "absent"
               /\ runs[leases[t].run].epoch > 0
    BY <2>2, <1>0 DEF RowsAgree
  <2> QED
    BY <2>1, <2>2 DEF RunsBehindLeases
<1>3. \A u \in Task : u # t => tasks'[u] = tasks[u]
  BY DEF CreateTask, TypeOK
<1>4. RunsBehindLeases' /\ NoRowNoLease' /\ AttemptsMatchEpochs'
  BY <1>0 DEF RunsBehindLeases, NoRowNoLease, AttemptsMatchEpochs
<1>5. RowsAgree'
  <2>1. ASSUME NEW u \in Task, leases'[u].epoch > 0
        PROVE  u # t /\ leases[u].epoch > 0 /\ tasks'[u] = tasks[u]
    BY <2>1, <1>0, <1>2, <1>3
  <2> QED
    BY <2>1, <1>0 DEF RowsAgree
<1>6. WithinAllocation'
  BY <1>0, <1>3 DEF WithinAllocation, CreateTask, TypeOK, ProfileType
<1>7. LiveLeasesDisjoint'
  <2> SUFFICES ASSUME NEW u \in Task, NEW v \in Task, u # v, Live(u)', Live(v)'
               PROVE  ~Collides(u, leases[u].worktree, v)'
    BY <1>0 DEF LiveLeasesDisjoint
  <2>1. Live(u) /\ Live(v)
    BY <1>0 DEF Live
  <2>2. u # t /\ v # t
    BY <2>1, <1>2 DEF Live, NoRowNoLease
  <2> QED
    BY <2>1, <2>2, <1>0, <1>3 DEF LiveLeasesDisjoint, Collides
<1> QED
  BY <1>1, <1>4, <1>5, <1>6, <1>7

\* A claim raises its task's epoch above every run's and collides with no
\* live lease.
LEMMA ClaimIInv ==
  ASSUME IInv, NEW t \in Task, NEW r \in Run, NEW w \in Worktree, NEW h \in Commit,
         NEW ttl \in TTL, NEW c \in Cost, ClaimWorkspace(t, r, w, h, ttl, c)
  PROVE  IInv'
<1> USE DEF IInv
<1> DEFINE e == leases[t].epoch + 1
           row == [epoch |-> e, run |-> r, worktree |-> w, expires |-> now + ttl,
                   released |-> FALSE, head |-> h, reserved |-> c]
<1>0. /\ ttl \in Nat \ {0} /\ c \in Nat /\ e \in Nat \ {0} /\ now \in Nat
      /\ now' = now
      /\ runs[r].status = "absent" /\ runs[r].task = None
  BY StoreConstants DEF ClaimWorkspace, TypeOK, LeaseRow, RunsBehindLeases
<1>1. /\ leases' = [leases EXCEPT ![t] = row]
      /\ runs' = [runs EXCEPT ![r] =
                    [status |-> "running", task |-> t, attempt |-> e, epoch |-> e]]
      /\ tasks' = [tasks EXCEPT ![t].status = "running", ![t].spent = tasks[t].spent + c]
  BY NextAttemptIsNextEpoch DEF ClaimWorkspace, NextEpoch, NewSpent
<1> HIDE DEF row, e
<1>2. TypeOK'
  <2>1. tasks' \in [Task -> TaskRow]
    <3>1. tasks[t] \in TaskRow /\ tasks[t].spent + c \in Nat
      BY <1>0 DEF TypeOK, TaskRow
    <3>2. [tasks[t] EXCEPT !.status = "running", !.spent = tasks[t].spent + c] \in TaskRow
      BY <3>1 DEF TaskRow, TaskStatus
    <3>3. tasks' = [tasks EXCEPT ![t] =
                      [tasks[t] EXCEPT !.status = "running", !.spent = tasks[t].spent + c]]
      BY <1>1 DEF TypeOK
    <3> QED
      BY <3>2, <3>3 DEF TypeOK
  <2>2. leases' \in [Task -> LeaseRow]
    BY <1>0, <1>1 DEF TypeOK, LeaseRow, row
  <2>3. runs' \in [Run -> RunRow]
    BY <1>0, <1>1 DEF TypeOK, RunRow, RunStatus
  <2>4. events' \in Seq(Event)
    BY <1>0 DEF ClaimWorkspace, TypeOK, Log, Event, e, NextEpoch
  <2>5. \A u \in Task : leases'[u].epoch > 0 =>
          leases'[u].run \in Run /\ leases'[u].worktree \in Worktree /\ leases'[u].head \in Commit
    BY <1>1 DEF TypeOK, row
  <2> QED
    BY <2>1, <2>2, <2>3, <2>4, <2>5, <1>0 DEF TypeOK
<1>3. /\ leases'[t] = row /\ \A u \in Task : u # t => leases'[u] = leases[u]
      /\ runs'[r] = [status |-> "running", task |-> t, attempt |-> e, epoch |-> e]
      /\ \A q \in Run : q # r => runs'[q] = runs[q]
      /\ \A u \in Task : u # t => tasks'[u] = tasks[u]
      /\ tasks'[t].status = "running" /\ tasks'[t].spent = tasks[t].spent + c
      /\ tasks'[t].allocated = tasks[t].allocated
      /\ \A u \in Task : /\ tasks'[u].repo = tasks[u].repo
                         /\ tasks'[u].base = tasks[u].base
                         /\ tasks'[u].scope = tasks[u].scope
  BY <1>1 DEF TypeOK, TaskRow
<1>4. \A u \in Task : u # t => leases[u].epoch = 0 \/ leases[u].run # r
  BY <1>0, StoreConstants DEF RowsAgree, TypeOK, LeaseRow
<1>5. RunsBehindLeases'
  <2> SUFFICES ASSUME NEW q \in Run, q # r
               PROVE  \/ runs'[q].status = "absent" /\ runs'[q].task = None /\ runs'[q].epoch = 0
                      \/ /\ runs'[q].status # "absent"
                         /\ runs'[q].task \in Task
                         /\ runs'[q].epoch \in 1 .. leases'[runs'[q].task].epoch
                         /\ runs'[q].epoch = leases'[runs'[q].task].epoch
                              => leases'[runs'[q].task].run = q
    BY <1>0, <1>3 DEF RunsBehindLeases, row
  <2>1. CASE runs[q].status # "absent" /\ runs[q].task = t
    <3>1. runs[q].epoch \in 1 .. leases[t].epoch /\ leases[t].epoch \in Nat
      BY <2>1 DEF RunsBehindLeases, TypeOK, LeaseRow
    <3> QED
      BY <2>1, <3>1, <1>3 DEF row, e
  <2>2. CASE runs[q].status # "absent" /\ runs[q].task # t
    BY <2>2, <1>3 DEF RunsBehindLeases
  <2>3. CASE runs[q].status = "absent"
    BY <2>3, <1>3 DEF RunsBehindLeases
  <2> QED
    BY <2>1, <2>2, <2>3
<1>6. NoRowNoLease'
  BY <1>0, <1>3 DEF NoRowNoLease, row
<1>7. RowsAgree'
  <2>1. ASSUME NEW u \in Task, u # t, leases[u].epoch > 0
        PROVE  /\ leases'[u] = leases[u] /\ tasks'[u] = tasks[u]
               /\ runs'[leases[u].run] = runs[leases[u].run]
    BY <2>1, <1>3, <1>4 DEF RowsAgree, TypeOK, LeaseRow
  <2> QED
    BY <2>1, <1>0, <1>3 DEF RowsAgree, row
<1>8. AttemptsMatchEpochs'
  BY <1>3 DEF AttemptsMatchEpochs
<1>9. WithinAllocation'
  BY <1>0, <1>3 DEF WithinAllocation, ClaimWorkspace, BudgetAdmits, TypeOK, TaskRow
<1>10. LiveLeasesDisjoint'
  <2>1. ASSUME NEW u \in Task, u # t, Live(u)
        PROVE  ~Collides(t, w, u)' /\ ~Collides(u, leases[u].worktree, t)'
    <3>1. ~Collides(t, w, u)
      BY <2>1 DEF ClaimWorkspace, LiveCrossTaskConflict
    <3>2. ~ScopeOverlap(tasks[u].scope, tasks[t].scope) \/ tasks[u].repo # tasks[t].repo
            \/ tasks[u].base # tasks[t].base
      BY <3>1, ScopeOverlapSymmetric DEF Collides
    <3> QED
      BY <2>1, <3>1, <3>2, <1>3 DEF Collides, row
  <2>2. ASSUME NEW u \in Task, u # t
        PROVE  Live(u)' = Live(u) /\ leases'[u] = leases[u]
    BY <2>2, <1>0, <1>3 DEF Live
  <2>3. leases'[t].worktree = w
    BY <1>3 DEF row
  <2> SUFFICES ASSUME NEW u \in Task, NEW v \in Task, u # v, Live(u)', Live(v)'
               PROVE  ~Collides(u, leases[u].worktree, v)'
    BY DEF LiveLeasesDisjoint
  <2>4. CASE u = t
    BY <2>1, <2>2, <2>3, <2>4 DEF Collides
  <2>5. CASE v = t
    BY <2>1, <2>2, <2>5 DEF Collides
  <2>6. CASE u # t /\ v # t
    BY <2>2, <2>6, <1>3 DEF LiveLeasesDisjoint, Collides
  <2> QED
    BY <2>4, <2>5, <2>6
<1> QED
  BY <1>2, <1>5, <1>6, <1>7, <1>8, <1>9, <1>10

\* A heartbeat changes the expiry and the head of one live lease only.
LEMMA HeartbeatIInv ==
  ASSUME IInv, NEW t \in Task, NEW r \in Run, NEW e, NEW ttl \in TTL,
         NEW h \in Commit \cup {None}, NEW x \in Commit \cup {None},
         Heartbeat(t, r, e, ttl, h, x)
  PROVE  IInv'
<1> USE DEF IInv
<1> DEFINE head == HeadOr(h, t)
           row == [leases[t] EXCEPT !.expires = now + ttl, !.head = head]
<1>0. /\ ttl \in Nat \ {0} /\ now \in Nat /\ leases[t] \in LeaseRow
      /\ leases[t].run = r /\ leases[t].epoch = e /\ ~leases[t].released
      /\ leases[t].epoch > 0
      /\ Live(t)
      /\ tasks' = tasks /\ runs' = runs /\ now' = now
  BY StoreConstants DEF Heartbeat, WriterAuthority, Live, TypeOK, LeaseRow, NoRowNoLease
<1>1. head \in Commit
  BY <1>0, StoreConstants DEF HeadOr, TypeOK
<1>2. row \in LeaseRow
  <2>1. now + ttl \in Nat
    BY <1>0
  <2> QED
    BY <2>1, <1>0, <1>1 DEF LeaseRow
<1>3. leases' = [leases EXCEPT ![t] = row]
  BY DEF Heartbeat, TypeOK
<1>4. /\ row.epoch = leases[t].epoch /\ row.run = leases[t].run /\ row.head = head
      /\ row.worktree = leases[t].worktree /\ row.released = leases[t].released
  BY <1>0 DEF LeaseRow
<1> HIDE DEF row, head
<1>5. leases'[t] = row /\ \A u \in Task : u # t => leases'[u] = leases[u]
  BY <1>3 DEF TypeOK
<1>6. \A u \in Task : /\ leases'[u].epoch = leases[u].epoch
                      /\ leases'[u].run = leases[u].run
                      /\ leases'[u].worktree = leases[u].worktree
                      /\ leases'[u].released = leases[u].released
  BY <1>4, <1>5, <1>0
<1>7. TypeOK'
  <2>1. leases' \in [Task -> LeaseRow]
    BY <1>2, <1>3 DEF TypeOK
  <2>2. events' \in Seq(Event)
    BY <1>0, <1>1 DEF Heartbeat, TypeOK, Log, Event, LeaseRow, head
  <2>3. \A u \in Task : leases'[u].epoch > 0 =>
          leases'[u].run \in Run /\ leases'[u].worktree \in Worktree /\ leases'[u].head \in Commit
    BY <1>1, <1>4, <1>5, <1>6 DEF TypeOK
  <2> QED
    BY <2>1, <2>2, <2>3, <1>0 DEF TypeOK
<1>8. RunsBehindLeases'
  <2> SUFFICES ASSUME NEW q \in Run, runs[q].status # "absent"
               PROVE  /\ runs[q].task \in Task
                      /\ runs[q].epoch \in 1 .. leases'[runs[q].task].epoch
                      /\ runs[q].epoch = leases'[runs[q].task].epoch
                           => leases'[runs[q].task].run = q
    BY <1>0 DEF RunsBehindLeases
  <2> QED
    BY <1>6 DEF RunsBehindLeases
<1>9. NoRowNoLease' /\ AttemptsMatchEpochs' /\ WithinAllocation'
  BY <1>0, <1>6 DEF NoRowNoLease, AttemptsMatchEpochs, WithinAllocation
<1>10. RowsAgree'
  <2>1. ~leases'[t].released
    BY <1>0, <1>6
  <2>2. ASSUME NEW u \in Task, leases'[u].epoch > 0
        PROVE  LET q == leases'[u].run IN
                /\ q \in Run /\ runs'[q].task = u /\ runs'[q].epoch = leases'[u].epoch
                /\ tasks'[u].status = runs'[q].status
                /\ ~leases'[u].released => runs'[q].status = "running"
                /\ leases'[u].released => tasks'[u].resultHead = leases'[u].head
    BY <2>1, <2>2, <1>0, <1>5, <1>6 DEF RowsAgree
  <2> QED
    BY <2>2 DEF RowsAgree
<1>11. LiveLeasesDisjoint'
  <2>1. \A u \in Task : Live(u)' => Live(u)
    BY <1>0, <1>5 DEF Live
  <2> QED
    BY <2>1, <1>0, <1>6 DEF LiveLeasesDisjoint, Collides
<1> QED
  BY <1>7, <1>8, <1>9, <1>10, <1>11

\* A release closes run, task and lease together.
LEMMA ReleaseIInv ==
  ASSUME IInv, NEW t \in Task, NEW r \in Run, NEW e, NEW o \in Outcome,
         NEW h \in Commit \cup {None}, NEW x \in Commit \cup {None},
         Release(t, r, e, h, o, x)
  PROVE  IInv'
<1> USE DEF IInv
<1> DEFINE head == HeadOr(h, t)
           row == [leases[t] EXCEPT !.released = TRUE, !.head = head]
           run == [runs[r] EXCEPT !.status = o]
           task == [tasks[t] EXCEPT !.status = o, !.resultHead = head]
<1>0. /\ now \in Nat /\ leases[t] \in LeaseRow /\ runs[r] \in RunRow /\ tasks[t] \in TaskRow
      /\ leases[t].run = r /\ leases[t].epoch = e /\ ~leases[t].released
      /\ leases[t].epoch > 0
      /\ runs[r].status = "running" /\ runs[r].task = t /\ runs[r].epoch = e
      /\ now' = now
      /\ o # "absent"
  BY StoreConstants DEF Release, WriterAuthority, TypeOK, LeaseRow, NoRowNoLease
<1>1. head \in Commit
  BY <1>0, StoreConstants DEF HeadOr, TypeOK
<1>2. row \in LeaseRow /\ run \in RunRow /\ task \in TaskRow
  BY <1>0, <1>1 DEF LeaseRow, RunRow, TaskRow, RunStatus, TaskStatus
<1>3. /\ leases' = [leases EXCEPT ![t] = row]
      /\ runs' = [runs EXCEPT ![r] = run]
      /\ tasks' = [tasks EXCEPT ![t] = task]
  BY DEF Release, TypeOK, ResultHead
<1>4. /\ row.epoch = leases[t].epoch /\ row.run = r /\ row.head = head
      /\ row.worktree = leases[t].worktree /\ row.released
      /\ run.status = o /\ run.task = t /\ run.epoch = e /\ run.attempt = runs[r].attempt
      /\ task.status = o /\ task.resultHead = head /\ task.spent = tasks[t].spent
      /\ task.allocated = tasks[t].allocated /\ task.repo = tasks[t].repo
      /\ task.base = tasks[t].base /\ task.scope = tasks[t].scope
  BY <1>0 DEF LeaseRow, RunRow, TaskRow
<1> HIDE DEF row, run, task, head
<1>5. /\ leases'[t] = row /\ \A u \in Task : u # t => leases'[u] = leases[u]
      /\ runs'[r] = run /\ \A q \in Run : q # r => runs'[q] = runs[q]
      /\ tasks'[t] = task /\ \A u \in Task : u # t => tasks'[u] = tasks[u]
  BY <1>3 DEF TypeOK
<1>6. /\ \A u \in Task : /\ leases'[u].epoch = leases[u].epoch
                         /\ leases'[u].run = leases[u].run
                         /\ leases'[u].worktree = leases[u].worktree
                         /\ tasks'[u].repo = tasks[u].repo
                         /\ tasks'[u].base = tasks[u].base
                         /\ tasks'[u].scope = tasks[u].scope
      /\ \A q \in Run : runs'[q].task = runs[q].task /\ runs'[q].epoch = runs[q].epoch
                        /\ runs'[q].attempt = runs[q].attempt
  BY <1>4, <1>5, <1>0
<1>7. TypeOK'
  <2>1. leases' \in [Task -> LeaseRow] /\ runs' \in [Run -> RunRow] /\ tasks' \in [Task -> TaskRow]
    BY <1>2, <1>3 DEF TypeOK
  <2>2. events' \in Seq(Event)
    BY <1>0, <1>1 DEF Release, TypeOK, Log, Event, LeaseRow, head
  <2>3. \A u \in Task : leases'[u].epoch > 0 =>
          leases'[u].run \in Run /\ leases'[u].worktree \in Worktree /\ leases'[u].head \in Commit
    BY <1>1, <1>4, <1>5, <1>6 DEF TypeOK
  <2> QED
    BY <2>1, <2>2, <2>3, <1>0 DEF TypeOK
<1>8. RunsBehindLeases'
  <2>1. ASSUME NEW q \in Run
        PROVE  runs'[q].status = "absent" <=> runs[q].status = "absent"
    BY <1>0, <1>4, <1>5
  <2> QED
    BY <2>1, <1>6 DEF RunsBehindLeases
<1>9. NoRowNoLease' /\ AttemptsMatchEpochs'
  BY <1>0, <1>4, <1>5, <1>6 DEF NoRowNoLease, AttemptsMatchEpochs
<1>10. WithinAllocation'
  BY <1>4, <1>5 DEF WithinAllocation
<1>11. RowsAgree'
  <2>1. ASSUME NEW u \in Task, u # t, leases[u].epoch > 0
        PROVE  /\ leases[u].run \in Run /\ leases[u].run # r
               /\ leases'[u] = leases[u] /\ tasks'[u] = tasks[u]
               /\ runs'[leases[u].run] = runs[leases[u].run]
    BY <2>1, <1>0, <1>5 DEF RowsAgree
  <2> QED
    BY <2>1, <1>0, <1>4, <1>5 DEF RowsAgree
<1>12. LiveLeasesDisjoint'
  <2>1. \A u \in Task : Live(u)' => Live(u)
    BY <1>0, <1>4, <1>5 DEF Live
  <2> QED
    BY <2>1, <1>6 DEF LiveLeasesDisjoint, Collides
<1> QED
  BY <1>7, <1>8, <1>9, <1>10, <1>11, <1>12

\* Every step keeps the inductive invariant.
LEMMA NextIInv == IInv /\ [Next]_vars => IInv'
<1> SUFFICES ASSUME IInv, [Next]_vars PROVE IInv'
  OBVIOUS
<1>1. CASE \E t \in Task, p \in Profile : CreateTask(t, p)
  BY <1>1, CreateTaskIInv
<1>2. CASE Claim
  BY <1>2, ClaimIInv DEF Claim
<1>3. CASE Renew
  BY <1>3, HeartbeatIInv DEF Renew
<1>4. CASE Finish
  BY <1>4, ReleaseIInv DEF Finish
<1>5. CASE Tick
  <2>1. /\ UNCHANGED <<tasks, leases, runs, events>>
        /\ now \in Nat /\ now' = now + 1
    BY <1>5 DEF Tick, IInv, TypeOK
  <2>2. \A u \in Task : Live(u)' => Live(u)
    BY <2>1 DEF Live, IInv, TypeOK, LeaseRow
  <2> QED
    BY <2>1, <2>2 DEF IInv, TypeOK, RunsBehindLeases, NoRowNoLease, RowsAgree,
       AttemptsMatchEpochs, WithinAllocation, LiveLeasesDisjoint, Collides
<1>6. CASE UNCHANGED vars
  BY <1>6 DEF vars, IInv, TypeOK, RunsBehindLeases, NoRowNoLease, RowsAgree,
     AttemptsMatchEpochs, WithinAllocation, LiveLeasesDisjoint, Collides, Live
<1> QED
  BY <1>1, <1>2, <1>3, <1>4, <1>5, <1>6 DEF Next

\* The invariant holds in every reachable state.
LEMMA SpecIInv == Spec => []IInv
BY InitIInv, NextIInv, PTL DEF Spec

\* The rows of the four tables always have their types, and a lease row names a
\* run, a worktree and a head.
THEOREM TypeCorrect == Spec => []TypeOK
<1>1. IInv => TypeOK
  BY DEF IInv
<1> QED
  BY <1>1, SpecIInv, PTL

\* claim_workspace's collision check is enough: heartbeats, takeovers and time
\* never leave two live leases on one worktree or on overlapping scopes.
THEOREM Exclusion == Spec => []LiveLeasesDisjoint
<1>1. IInv => LiveLeasesDisjoint
  BY DEF IInv
<1> QED
  BY <1>1, SpecIInv, PTL

\* Task, run and lease rows agree in every reachable state.
THEOREM Agreement == Spec => []RowsAgree
<1>1. IInv => RowsAgree
  BY DEF IInv
<1> QED
  BY <1>1, SpecIInv, PTL

\* Every running run owns its task's lease or is behind its epoch.
THEOREM Fencing == Spec => []FencedRuns
<1>1. IInv => FencedRuns
  <2> SUFFICES ASSUME IInv, NEW r \in Run, runs[r].status = "running",
                      leases[runs[r].task].run # r
               PROVE  runs[r].epoch < leases[runs[r].task].epoch
    BY DEF FencedRuns
  <2>1. /\ runs[r].task \in Task
        /\ runs[r].epoch \in 1 .. leases[runs[r].task].epoch
        /\ runs[r].epoch # leases[runs[r].task].epoch
    BY DEF IInv, RunsBehindLeases
  <2> QED
    BY <2>1 DEF IInv, TypeOK, LeaseRow
<1> QED
  BY <1>1, SpecIInv, PTL

\* The attempt number and the owner epoch of a run are the same number.
THEOREM AttemptsAreEpochs == Spec => []AttemptsMatchEpochs
<1>1. IInv => AttemptsMatchEpochs
  BY DEF IInv
<1> QED
  BY <1>1, SpecIInv, PTL

\* No task spends more than its allocation.
THEOREM BudgetSafe == Spec => []WithinAllocation
<1>1. IInv => WithinAllocation
  BY DEF IInv
<1> QED
  BY <1>1, SpecIInv, PTL

\* What each kind of step may do to the ownership of a lease.
LEMMA OwnershipStep ==
  ASSUME IInv, [Next]_vars, NEW t \in Task
  PROVE  \/ /\ leases'[t].run = leases[t].run
            /\ leases'[t].epoch = leases[t].epoch
            /\ leases'[t].worktree = leases[t].worktree
            /\ Live(t)' => Live(t)
         \/ ~Live(t) /\ leases'[t].epoch = leases[t].epoch + 1
<1> USE DEF IInv
<1>1. ASSUME NEW u \in Task, NEW p \in Profile, CreateTask(u, p)
      PROVE  leases' = leases /\ now' = now
  BY <1>1 DEF CreateTask
<1>2. ASSUME NEW u \in Task, NEW r \in Run, NEW w \in Worktree, NEW h \in Commit,
             NEW ttl \in TTL, NEW c \in Cost, ClaimWorkspace(u, r, w, h, ttl, c)
      PROVE  \/ t # u /\ leases'[t] = leases[t] /\ now' = now
             \/ t = u /\ ~Live(t) /\ leases'[t].epoch = leases[t].epoch + 1
  BY <1>2 DEF ClaimWorkspace, LeaseFree, Live, NextEpoch, TypeOK, LeaseRow
<1>3. ASSUME NEW u \in Task, NEW r \in Run, NEW e, NEW ttl \in TTL,
             NEW h, NEW x, Heartbeat(u, r, e, ttl, h, x)
      PROVE  /\ leases'[t].run = leases[t].run
             /\ leases'[t].epoch = leases[t].epoch
             /\ leases'[t].worktree = leases[t].worktree
             /\ leases'[t] = leases[t] \/ Live(t)
             /\ now' = now
  BY <1>3 DEF Heartbeat, WriterAuthority, Live, TypeOK, LeaseRow
<1>4. ASSUME NEW u \in Task, NEW r \in Run, NEW e, NEW o \in Outcome,
             NEW h, NEW x, Release(u, r, e, h, o, x)
      PROVE  /\ leases'[t].run = leases[t].run
             /\ leases'[t].epoch = leases[t].epoch
             /\ leases'[t].worktree = leases[t].worktree
             /\ leases'[t] = leases[t] \/ Live(t)
             /\ now' = now
  BY <1>4 DEF Release, WriterAuthority, Live, TypeOK, LeaseRow
<1>5. CASE Tick
  BY <1>5 DEF Tick, Live, TypeOK, LeaseRow
<1>6. CASE UNCHANGED vars
  BY <1>6 DEF vars, Live
<1> QED
  <2>1. CASE \E u \in Task, p \in Profile : CreateTask(u, p)
    BY <2>1, <1>1 DEF Live
  <2>2. CASE Claim
    BY <2>2, <1>2 DEF Claim, Live
  <2>3. CASE Renew
    BY <2>3, <1>3 DEF Renew, Live
  <2>4. CASE Finish
    BY <2>4, <1>4 DEF Finish, Live
  <2> QED
    BY <2>1, <2>2, <2>3, <2>4, <1>5, <1>6 DEF Next

\* No step takes a live lease from its owner.
THEOREM LiveLeaseKept == Spec => NoTakeoverOfLive
<1>1. IInv /\ [Next]_vars =>
        [\A t \in Task : Live(t) => /\ leases'[t].run = leases[t].run
                                    /\ leases'[t].epoch = leases[t].epoch
                                    /\ leases'[t].worktree = leases[t].worktree]_vars
  BY OwnershipStep
<1> QED
  BY <1>1, SpecIInv, PTL DEF Spec, NoTakeoverOfLive

\* Only a claim, with a new epoch, makes a dead lease live.
THEOREM DeadLeaseStaysDead == Spec => DeadUntilReclaimed
<1>1. IInv /\ [Next]_vars =>
        [\A t \in Task : ~Live(t) /\ Live(t)' => leases'[t].epoch = leases[t].epoch + 1]_vars
  BY OwnershipStep
<1> QED
  BY <1>1, SpecIInv, PTL DEF Spec, DeadUntilReclaimed
-----------------------------------------------------------------------------
(* The event log.                                                          *)

\* The log stays behind the leases: an event's task exists and its lease has
\* reached the event's epoch; a release of that epoch has released it.
LogBehindLeases ==
  \A i \in DOMAIN events :
    LET t == events[i].task IN
    /\ tasks[t].status # "absent"
    /\ events[i].epoch <= leases[t].epoch
    /\ events[i].type = "released" /\ events[i].epoch = leases[t].epoch => leases[t].released

\* The last event of a task has the head its next claim must present.
LogEndsAtHead ==
  \A t \in Task : tasks[t].status # "absent" =>
    \E i \in DOMAIN events :
      /\ events[i].task = t /\ events[i].head = ExpectedHead(t)
      /\ \A k \in i + 1 .. Len(events) : events[k].task # t

\* Only a release leaves a task a result head.
NoResultYet == \A t \in Task : leases[t].epoch = 0 => tasks[t].resultHead = None

LogInv ==
  /\ LogBehindLeases
  /\ LogEndsAtHead
  /\ NoResultYet
  /\ LogFenced
  /\ LogHeadsChain

\* What a mutation owes the log: one event of its task, in an epoch no older
\* than the lease's, and the same task's rows changed with it.
LEMMA LogStep ==
  ASSUME IInv, IInv', LogInv, NEW t \in Task, NEW ev \in Event,
         events' = Append(events, ev), ev.task = t,
         \A u \in Task \ {t} : leases'[u] = leases[u] /\ tasks'[u] = tasks[u],
         tasks'[t].status # "absent",
         leases[t].epoch <= ev.epoch, leases'[t].epoch = ev.epoch,
         ev.type = "claimed" => leases[t].epoch < ev.epoch /\ tasks[t].status # "absent"
                                /\ ev.head = ExpectedHead(t),
         ev.type \in {"heartbeat", "released"} => ~leases[t].released,
         ev.type = "created" => tasks[t].status = "absent",
         ev.type = "released" => leases'[t].released,
         leases'[t].released => leases[t].released \/ ev.type = "released",
         ev.head = ExpectedHead(t)',
         leases'[t].epoch = 0 => tasks'[t].resultHead = None
  PROVE  LogInv'
<1> DEFINE n == Len(events)
<1>1. /\ events \in Seq(Event) /\ n \in Nat /\ DOMAIN events = 1 .. n
      /\ DOMAIN events' = 1 .. n + 1 /\ Len(events') = n + 1
      /\ events'[n + 1] = ev
      /\ \A i \in 1 .. n : events'[i] = events[i] /\ events[i] \in Event
  BY DEF IInv, TypeOK
<1>2. /\ \A u \in Task : leases[u].epoch \in Nat /\ leases'[u].epoch \in Nat
      /\ \A i \in 1 .. n : events[i].epoch \in Nat /\ events[i].task \in Task
      /\ ev.epoch \in Nat
  BY <1>1 DEF IInv, TypeOK, LeaseRow, Event
<1> HIDE DEF n
\* An old event of t is behind the new one.
<1>3. ASSUME NEW i \in 1 .. n, events[i].task = t
      PROVE  /\ tasks[t].status # "absent" /\ events[i].epoch <= ev.epoch
             /\ ev.type = "claimed" => events[i].epoch < ev.epoch
             /\ events[i].type = "released" => events[i].epoch < ev.epoch
  <2>1. /\ tasks[t].status # "absent" /\ events[i].epoch <= leases[t].epoch
        /\ events[i].type = "released" /\ events[i].epoch = leases[t].epoch => leases[t].released
    BY <1>1, <1>3 DEF LogInv, LogBehindLeases
  <2>2. ev.type \in {"created", "claimed", "heartbeat", "released"}
    BY DEF Event
  <2> QED
    BY <2>1, <2>2, <1>2
<1>4. LogBehindLeases'
  <2> SUFFICES ASSUME NEW i \in 1 .. n + 1
               PROVE  LET u == events'[i].task IN
                      /\ tasks'[u].status # "absent"
                      /\ events'[i].epoch <= leases'[u].epoch
                      /\ events'[i].type = "released" /\ events'[i].epoch = leases'[u].epoch
                           => leases'[u].released
    BY <1>1 DEF LogBehindLeases
  <2>1. CASE i = n + 1
    BY <2>1, <1>1, <1>2
  <2>2. CASE i # n + 1 /\ events[i].task = t
    <3>1. i \in 1 .. n /\ events'[i] = events[i]
      BY <2>2, <1>1
    <3>2. /\ events[i].epoch <= ev.epoch /\ (events[i].type = "released" => events[i].epoch < ev.epoch)
      BY <2>2, <3>1, <1>3
    <3> QED
      BY <2>2, <3>1, <3>2, <1>2
  <2>3. CASE i # n + 1 /\ events[i].task # t
    <3>1. i \in 1 .. n /\ events'[i] = events[i] /\ events[i].task \in Task \ {t}
      BY <2>3, <1>1, <1>2
    <3> QED
      BY <3>1, <1>1 DEF LogInv, LogBehindLeases
  <2> QED
    BY <2>1, <2>2, <2>3, <1>1
<1>5. LogEndsAtHead'
  <2> SUFFICES ASSUME NEW u \in Task, tasks'[u].status # "absent"
               PROVE  \E i \in 1 .. n + 1 :
                        /\ events'[i].task = u /\ events'[i].head = ExpectedHead(u)'
                        /\ \A k \in i + 1 .. n + 1 : events'[k].task # u
    BY <1>1 DEF LogEndsAtHead
  <2>1. CASE u = t
    <3>1. \A k \in n + 2 .. n + 1 : FALSE
      BY <1>1
    <3> QED
      BY <2>1, <3>1, <1>1
  <2>2. CASE u # t
    <3>1. ExpectedHead(u)' = ExpectedHead(u) /\ tasks[u].status # "absent"
      BY <2>2 DEF ExpectedHead
    <3>2. PICK i \in 1 .. n : /\ events[i].task = u /\ events[i].head = ExpectedHead(u)
                              /\ \A k \in i + 1 .. n : events[k].task # u
      BY <3>1, <1>1 DEF LogInv, LogEndsAtHead, n
    <3>3. \A k \in i + 1 .. n + 1 : events'[k].task # u
      <4> SUFFICES ASSUME NEW k \in i + 1 .. n + 1 PROVE events'[k].task # u
        OBVIOUS
      <4>1. k = n + 1 \/ k \in i + 1 .. n
        BY <1>1
      <4> QED
        BY <4>1, <3>2, <2>2, <1>1
    <3> QED
      BY <3>1, <3>2, <3>3, <1>1
  <2> QED
    BY <2>1, <2>2, <1>1
<1>6. NoResultYet'
  BY DEF LogInv, NoResultYet
<1>7. LogFenced'
  <2> SUFFICES ASSUME NEW i \in 1 .. n + 1, NEW j \in 1 .. n + 1,
                      i < j, events'[i].task = events'[j].task
               PROVE  /\ events'[i].epoch <= events'[j].epoch
                      /\ events'[j].type = "claimed" => events'[i].epoch < events'[j].epoch
                      /\ events'[i].type = "released" => events'[i].epoch < events'[j].epoch
    BY <1>1 DEF LogFenced
  <2>1. i \in 1 .. n /\ events'[i] = events[i]
    BY <1>1
  <2>2. CASE j = n + 1
    BY <2>1, <2>2, <1>1, <1>3
  <2>3. CASE j \in 1 .. n
    BY <2>1, <2>3, <1>1 DEF LogInv, LogFenced
  <2> QED
    BY <2>2, <2>3, <1>1
<1>8. LogHeadsChain'
  <2> SUFFICES ASSUME NEW j \in 1 .. n + 1, events'[j].type = "claimed"
               PROVE  \E i \in 1 .. j - 1 :
                        /\ events'[i].task = events'[j].task
                        /\ events'[i].head = events'[j].head
                        /\ \A k \in i + 1 .. j - 1 : events'[k].task # events'[j].task
    BY <1>1 DEF LogHeadsChain
  <2>1. CASE j = n + 1
    <3>1. PICK i \in 1 .. n : /\ events[i].task = t /\ events[i].head = ExpectedHead(t)
                              /\ \A k \in i + 1 .. n : events[k].task # t
      BY <2>1, <1>1 DEF LogInv, LogEndsAtHead, n
    <3>2. \A k \in i + 1 .. j - 1 : k \in 1 .. n /\ k \in i + 1 .. n
      BY <2>1, <1>1
    <3> QED
      BY <2>1, <3>1, <3>2, <1>1
  <2>2. CASE j \in 1 .. n
    <3>1. PICK i \in 1 .. j - 1 :
            /\ events[i].task = events[j].task /\ events[i].head = events[j].head
            /\ \A k \in i + 1 .. j - 1 : events[k].task # events[j].task
      BY <2>2, <1>1 DEF LogInv, LogHeadsChain
    <3>2. i \in 1 .. n /\ \A k \in i + 1 .. j - 1 : k \in 1 .. n
      BY <2>2, <1>1
    <3> QED
      BY <2>2, <3>1, <3>2, <1>1
  <2> QED
    BY <2>1, <2>2, <1>1
<1> QED
  BY <1>4, <1>5, <1>6, <1>7, <1>8 DEF LogInv

\* A leased task has a row, and a lease that was never taken is released.
LEMMA LeasedExists ==
  ASSUME IInv, NEW t \in Task
  PROVE  /\ leases[t].epoch \in Nat
         /\ leases[t].epoch > 0 => tasks[t].status # "absent" /\ leases[t].head \in Commit
         /\ ~leases[t].released => leases[t].epoch > 0
<1>1. /\ leases[t] \in LeaseRow
      /\ leases[t].epoch > 0 => leases[t].head \in Commit
      /\ \A r \in Run : runs[r] \in RunRow
  BY DEF IInv, TypeOK
<1>2. leases[t].epoch > 0 => tasks[t].status # "absent"
  <2> SUFFICES ASSUME leases[t].epoch > 0 PROVE tasks[t].status # "absent"
    OBVIOUS
  <2>1. /\ leases[t].run \in Run /\ runs[leases[t].run].epoch = leases[t].epoch
        /\ tasks[t].status = runs[leases[t].run].status
    BY DEF IInv, RowsAgree
  <2> QED
    BY <2>1 DEF IInv, RunsBehindLeases
<1> QED
  BY <1>1, <1>2 DEF IInv, NoRowNoLease, LeaseRow

\* The empty log agrees with the empty tables.
LEMMA InitLogInv == Init => LogInv
BY DEF Init, LogInv, LogBehindLeases, LogEndsAtHead, NoResultYet, LogFenced, LogHeadsChain,
   NoTask, NoLease

\* Every step keeps the log's invariant.
LEMMA NextLogInv ==
  ASSUME IInv, IInv', LogInv, [Next]_vars
  PROVE  LogInv'
<1>0. /\ tasks \in [Task -> TaskRow] /\ leases \in [Task -> LeaseRow] /\ now \in Nat
      /\ \A u \in Task : leases[u].epoch > 0 => leases[u].head \in Commit
      /\ None \notin Commit
  BY StoreConstants DEF IInv, TypeOK
<1>1. ASSUME NEW t \in Task, NEW p \in Profile, CreateTask(t, p)
      PROVE  LogInv'
  <2> DEFINE ev == [type |-> "created", task |-> t, run |-> None, epoch |-> 0,
                    head |-> p.base, reserved |-> 0]
  <2>1. p.base \in Commit
    BY StoreConstants DEF ProfileType
  <2>2. /\ ev \in Event /\ ev.task = t /\ ev.epoch = 0 /\ ev.type = "created"
        /\ ev.head = p.base
    BY <2>1 DEF Event
  <2>3. events' = Append(events, ev) /\ leases' = leases
    BY <1>1 DEF CreateTask, Log
  <2> HIDE DEF ev
  <2>4. /\ tasks'[t].status = "queued" /\ tasks'[t].base = p.base /\ tasks'[t].resultHead = None
        /\ tasks[t].status = "absent"
        /\ \A u \in Task \ {t} : tasks'[u] = tasks[u]
    BY <1>0, <1>1 DEF CreateTask
  <2>5. leases[t].epoch = 0
    BY <2>4, LeasedExists
  <2>6. ev.head = ExpectedHead(t)'
    BY <2>2, <2>3, <2>4, <2>5 DEF ExpectedHead
  <2> QED
    <3>1. PICK v \in Event : v = ev
      BY <2>2
    <3>2. /\ v.task = t /\ events' = Append(events, v) /\ tasks'[t].status # "absent"
          /\ \A u \in Task \ {t} : leases'[u] = leases[u] /\ tasks'[u] = tasks[u]
          /\ leases[t].epoch <= v.epoch /\ leases'[t].epoch = v.epoch
          /\ v.type = "claimed" => leases[t].epoch < v.epoch /\ tasks[t].status # "absent"
                                  /\ v.head = ExpectedHead(t)
          /\ v.type \in {"heartbeat", "released"} => ~leases[t].released
          /\ v.type = "created" => tasks[t].status = "absent"
          /\ v.type = "released" => leases'[t].released
          /\ leases'[t].released => leases[t].released \/ v.type = "released"
          /\ leases'[t].epoch = 0 => tasks'[t].resultHead = None
      BY <3>1, <2>2, <2>3, <2>4, <2>5, <2>6
    <3> QED
      BY <3>1, <3>2, <2>6, LogStep DEF ExpectedHead
<1>2. ASSUME NEW t \in Task, NEW r \in Run, NEW w \in Worktree, NEW h \in Commit,
             NEW ttl \in TTL, NEW c \in Cost, ClaimWorkspace(t, r, w, h, ttl, c)
      PROVE  LogInv'
  <2> DEFINE e == leases[t].epoch + 1
             ev == [type |-> "claimed", task |-> t, run |-> r, epoch |-> e, head |-> h, reserved |-> c]
             row == [epoch |-> e, run |-> r, worktree |-> w, expires |-> now + ttl,
                     released |-> FALSE, head |-> h, reserved |-> c]
  <2>1. e \in Nat \ {0} /\ c \in Nat /\ leases[t].epoch < e
    BY <1>0, StoreConstants DEF LeaseRow
  <2>2. /\ ev \in Event /\ ev.task = t /\ ev.epoch = e /\ ev.type = "claimed" /\ ev.head = h
    BY <2>1 DEF Event
  <2>3. /\ events' = Append(events, ev) /\ leases' = [leases EXCEPT ![t] = row]
        /\ tasks[t].status # "absent" /\ h = ExpectedHead(t)
    BY <1>2 DEF ClaimWorkspace, Log, NextEpoch
  <2>4. /\ row.epoch = e /\ ~row.released /\ row.head = h
    OBVIOUS
  <2> HIDE DEF ev, row, e
  <2>5. /\ leases'[t] = row /\ \A u \in Task \ {t} : leases'[u] = leases[u]
        /\ tasks'[t].status = "running" /\ \A u \in Task \ {t} : tasks'[u] = tasks[u]
    BY <1>0, <1>2, <2>3 DEF ClaimWorkspace, TaskRow
  <2>6. ev.head = ExpectedHead(t)'
    BY <2>1, <2>2, <2>4, <2>5 DEF ExpectedHead
  <2> QED
    <3>1. PICK v \in Event : v = ev
      BY <2>2
    <3>2. /\ v.task = t /\ events' = Append(events, v) /\ tasks'[t].status # "absent"
          /\ \A u \in Task \ {t} : leases'[u] = leases[u] /\ tasks'[u] = tasks[u]
          /\ leases[t].epoch <= v.epoch /\ leases'[t].epoch = v.epoch
          /\ v.type = "claimed" => leases[t].epoch < v.epoch /\ tasks[t].status # "absent"
                                  /\ v.head = ExpectedHead(t)
          /\ v.type \in {"heartbeat", "released"} => ~leases[t].released
          /\ v.type = "created" => tasks[t].status = "absent"
          /\ v.type = "released" => leases'[t].released
          /\ leases'[t].released => leases[t].released \/ v.type = "released"
          /\ leases'[t].epoch = 0 => tasks'[t].resultHead = None
      BY <3>1, <2>1, <2>2, <2>3, <2>4, <2>5, LeasedExists
    <3> QED
      BY <3>1, <3>2, <2>6, LogStep DEF ExpectedHead
<1>3. ASSUME NEW t \in Task, NEW r \in Run, NEW e, NEW ttl \in TTL,
             NEW h \in Commit \cup {None}, NEW x \in Commit \cup {None},
             Heartbeat(t, r, e, ttl, h, x)
      PROVE  LogInv'
  <2> DEFINE head == HeadOr(h, t)
             ev == [type |-> "heartbeat", task |-> t, run |-> r, epoch |-> e, head |-> head, reserved |-> 0]
  <2>1. /\ leases[t].epoch = e /\ e \in Nat \ {0} /\ ~leases[t].released
    BY <1>3, LeasedExists DEF Heartbeat, WriterAuthority
  <2>2. head \in Commit
    BY <1>0, <2>1 DEF HeadOr
  <2>3. /\ ev \in Event /\ ev.task = t /\ ev.epoch = e /\ ev.type = "heartbeat" /\ ev.head = head
    BY <2>1, <2>2 DEF Event
  <2>8. events' = Append(events, ev) /\ tasks' = tasks
    BY <1>3 DEF Heartbeat, Log
  <2>4. leases' = [leases EXCEPT ![t].expires = now + ttl, ![t].head = head]
    BY <1>3 DEF Heartbeat
  <2> HIDE DEF ev, head
  <2>5. /\ leases'[t].epoch = e /\ ~leases'[t].released /\ leases'[t].head = head
        /\ \A u \in Task \ {t} : leases'[u] = leases[u]
    BY <1>0, <2>1, <2>4 DEF LeaseRow
  <2>6. ev.head = ExpectedHead(t)'
    BY <2>1, <2>3, <2>4, <2>5 DEF ExpectedHead
  <2>7. tasks[t].status # "absent"
    BY <2>1, LeasedExists
  <2> QED
    <3>1. PICK v \in Event : v = ev
      BY <2>3
    <3>2. /\ v.task = t /\ events' = Append(events, v) /\ tasks'[t].status # "absent"
          /\ \A u \in Task \ {t} : leases'[u] = leases[u] /\ tasks'[u] = tasks[u]
          /\ leases[t].epoch <= v.epoch /\ leases'[t].epoch = v.epoch
          /\ v.type = "claimed" => leases[t].epoch < v.epoch /\ tasks[t].status # "absent"
                                  /\ v.head = ExpectedHead(t)
          /\ v.type \in {"heartbeat", "released"} => ~leases[t].released
          /\ v.type = "created" => tasks[t].status = "absent"
          /\ v.type = "released" => leases'[t].released
          /\ leases'[t].released => leases[t].released \/ v.type = "released"
          /\ leases'[t].epoch = 0 => tasks'[t].resultHead = None
      BY <3>1, <2>1, <2>3, <2>8, <2>5, <2>6, <2>7, LeasedExists
    <3> QED
      BY <3>1, <3>2, <2>6, <2>7, LogStep DEF ExpectedHead
<1>4. ASSUME NEW t \in Task, NEW r \in Run, NEW e, NEW o \in Outcome,
             NEW h \in Commit \cup {None}, NEW x \in Commit \cup {None},
             Release(t, r, e, h, o, x)
      PROVE  LogInv'
  <2> DEFINE head == HeadOr(h, t)
             ev == [type |-> "released", task |-> t, run |-> r, epoch |-> e, head |-> head, reserved |-> 0]
  <2>1. /\ leases[t].epoch = e /\ e \in Nat \ {0} /\ ~leases[t].released
    BY <1>4, LeasedExists DEF Release, WriterAuthority
  <2>2. head \in Commit
    BY <1>0, <2>1 DEF HeadOr
  <2>3. /\ ev \in Event /\ ev.task = t /\ ev.epoch = e /\ ev.type = "released" /\ ev.head = head
    BY <2>1, <2>2 DEF Event
  <2>8. events' = Append(events, ev)
    BY <1>4 DEF Release, Log
  <2>4. /\ tasks' = [tasks EXCEPT ![t].status = o, ![t].resultHead = head]
        /\ leases' = [leases EXCEPT ![t].released = TRUE, ![t].head = head]
    BY <1>4 DEF Release, ResultHead
  <2> HIDE DEF ev, head
  <2>5. /\ leases'[t].epoch = e /\ leases'[t].released /\ leases'[t].head = head
        /\ \A u \in Task \ {t} : leases'[u] = leases[u]
    BY <1>0, <2>1, <2>4 DEF LeaseRow
  <2>6. tasks'[t].status = o /\ o # "absent" /\ \A u \in Task \ {t} : tasks'[u] = tasks[u]
    BY <1>0, <2>4, StoreConstants DEF TaskRow
  <2>7. ev.head = ExpectedHead(t)'
    BY <2>1, <2>3, <2>5 DEF ExpectedHead
  <2> QED
    <3>1. PICK v \in Event : v = ev
      BY <2>3
    <3>2. /\ v.task = t /\ events' = Append(events, v) /\ tasks'[t].status # "absent"
          /\ \A u \in Task \ {t} : leases'[u] = leases[u] /\ tasks'[u] = tasks[u]
          /\ leases[t].epoch <= v.epoch /\ leases'[t].epoch = v.epoch
          /\ v.type = "claimed" => leases[t].epoch < v.epoch /\ tasks[t].status # "absent"
                                  /\ v.head = ExpectedHead(t)
          /\ v.type \in {"heartbeat", "released"} => ~leases[t].released
          /\ v.type = "created" => tasks[t].status = "absent"
          /\ v.type = "released" => leases'[t].released
          /\ leases'[t].released => leases[t].released \/ v.type = "released"
          /\ leases'[t].epoch = 0 => tasks'[t].resultHead = None
      BY <3>1, <2>1, <2>3, <2>8, <2>5, <2>6, <2>7, LeasedExists
    <3> QED
      BY <3>1, <3>2, <2>6, <2>7, LogStep DEF ExpectedHead
<1>5. CASE UNCHANGED <<tasks, leases, events>>
  BY <1>5 DEF LogInv, LogBehindLeases, LogEndsAtHead, NoResultYet, LogFenced, LogHeadsChain, ExpectedHead
<1> QED
  BY <1>1, <1>2, <1>3, <1>4, <1>5 DEF Next, Claim, Renew, Finish, Tick, vars

\* The log's invariant holds in every reachable state.
LEMMA SpecLogInv == Spec => []LogInv
<1>1. IInv /\ IInv' /\ LogInv /\ [Next]_vars => LogInv'
  BY NextLogInv
<1> QED
  BY InitLogInv, <1>1, SpecIInv, PTL DEF Spec

\* The log alone shows the fencing: no takeover, release or late heartbeat puts
\* an event of an older epoch, or of a released one, behind a newer one.
THEOREM LogIsFenced == Spec => []LogFenced
<1>1. LogInv => LogFenced
  BY DEF LogInv
<1> QED
  BY <1>1, SpecLogInv, PTL

\* Every owner starts from the head its predecessor left, whatever heartbeats
\* reported and however the predecessor ended.
THEOREM HeadsChain == Spec => []LogHeadsChain
<1>1. LogInv => LogHeadsChain
  BY DEF LogInv
<1> QED
  BY <1>1, SpecLogInv, PTL
-----------------------------------------------------------------------------
(* The budget.  Reserved is computed by recursion over the log; a function *)
(* that satisfies the recursion is carried from step to step, and there is *)
(* only one.                                                               *)

\* Every set of naturals has a least one.
LEMMA LeastNatural ==
  ASSUME NEW T, T \subseteq Nat, T # {}
  PROVE  \E x \in T : \A y \in T : x <= y
<1>1. PICK x \in T : \A y \in T : ~ (<<y, x>> \in OpToRel(<, Nat))
  BY NatLessThanWellFounded, WFMin
<1>2. \A y \in T : y < x => <<y, x>> \in OpToRel(<, Nat)
  BY Z3 DEF OpToRel
<1>3. \A y \in T : x \in Nat /\ y \in Nat /\ ~ (y < x)
  BY <1>1, <1>2
<1> QED
  BY <1>3

\* g adds up what log reserves for t.
RunningSum(g, log, t) ==
  g = [n \in 0 .. Len(log) |->
        IF n = 0 THEN 0
        ELSE g[n - 1] + (IF log[n].task = t THEN log[n].reserved ELSE 0)]

\* Two running sums of one log are the same function.
LEMMA OneRunningSum ==
  ASSUME NEW log \in Seq(Event), NEW t, NEW g, NEW h,
         RunningSum(g, log, t), RunningSum(h, log, t)
  PROVE  g = h
<1> DEFINE T == {n \in 0 .. Len(log) : g[n] # h[n]}
<1>1. /\ DOMAIN g = 0 .. Len(log) /\ DOMAIN h = 0 .. Len(log)
      /\ g = [n \in 0 .. Len(log) |-> g[n]] /\ h = [n \in 0 .. Len(log) |-> h[n]]
  BY DEF RunningSum
<1>2. \A n \in 0 .. Len(log) :
        /\ n = 0 => g[n] = 0 /\ h[n] = 0
        /\ n # 0 => /\ g[n] = g[n - 1] + (IF log[n].task = t THEN log[n].reserved ELSE 0)
                    /\ h[n] = h[n - 1] + (IF log[n].task = t THEN log[n].reserved ELSE 0)
  BY DEF RunningSum
<1>3. ASSUME T # {} PROVE FALSE
  <2>1. PICK n \in T : \A m \in T : n <= m
    <3>1. T \subseteq Nat
      OBVIOUS
    <3> HIDE DEF T
    <3> QED
      BY <1>3, <3>1, LeastNatural
  <2>2. n \in 0 .. Len(log) /\ g[n] # h[n] /\ n # 0
    BY <2>1, <1>2
  <2>3. n - 1 \in 0 .. Len(log) /\ n - 1 \notin T
    BY <2>1, <2>2
  <2> QED
    BY <2>2, <2>3, <1>2
<1> QED
  BY <1>1, <1>3

\* s is what log reserves for t.
SumsTo(log, t, s) == \E g : RunningSum(g, log, t) /\ g[Len(log)] = s

\* Reserved is the sum of the log.
LEMMA ReservedIs ==
  ASSUME events \in Seq(Event), NEW t, NEW s, SumsTo(events, t, s)
  PROVE  Reserved(t) = s
<1>1. PICK g : RunningSum(g, events, t) /\ g[Len(events)] = s
  BY DEF SumsTo
<1>2. Reserved(t) = (CHOOSE h : RunningSum(h, events, t))[Len(events)]
  BY Zenon DEF Reserved, RunningSum
<1>3. RunningSum((CHOOSE h : RunningSum(h, events, t)), events, t)
  BY <1>1, Zenon
<1>4. (CHOOSE h : RunningSum(h, events, t)) = g
  BY <1>1, <1>3, OneRunningSum
<1> QED
  BY <1>1, <1>2, <1>4

\* An appended event adds its reservation to the sum of its task.
LEMMA SumOfAppend ==
  ASSUME NEW log \in Seq(Event), NEW ev \in Event, NEW t, NEW s, SumsTo(log, t, s)
  PROVE  SumsTo(Append(log, ev), t, s + (IF ev.task = t THEN ev.reserved ELSE 0))
<1>1. PICK g : RunningSum(g, log, t) /\ g[Len(log)] = s
  BY DEF SumsTo
<1> DEFINE L == Append(log, ev)
           add == IF ev.task = t THEN ev.reserved ELSE 0
           h == [n \in 0 .. Len(L) |-> IF n = Len(L) THEN s + add ELSE g[n]]
<1>2. /\ Len(log) \in Nat /\ Len(L) = Len(log) + 1
      /\ \A n \in 1 .. Len(log) : L[n] = log[n]
      /\ L[Len(L)] = ev
  OBVIOUS
<1>3. \A n \in 0 .. Len(log) :
        g[n] = IF n = 0 THEN 0
               ELSE g[n - 1] + (IF log[n].task = t THEN log[n].reserved ELSE 0)
  BY <1>1 DEF RunningSum
<1> HIDE DEF L
<1>4. ASSUME NEW n \in 0 .. Len(L)
      PROVE  h[n] = IF n = 0 THEN 0
                    ELSE h[n - 1] + (IF L[n].task = t THEN L[n].reserved ELSE 0)
  <2>1. CASE n = Len(L)
    <3>1. n # 0 /\ n - 1 = Len(log) /\ n - 1 \in 0 .. Len(L) /\ n - 1 # Len(L) /\ L[n] = ev
      BY <2>1, <1>2
    <3>2. h[n] = s + add /\ h[n - 1] = s
      BY <3>1, <2>1, <1>1
    <3> QED
      BY <3>1, <3>2
  <2>2. CASE n # Len(L)
    <3>1. n \in 0 .. Len(log) /\ h[n] = g[n]
      BY <2>2, <1>2
    <3>2. n # 0 => /\ n - 1 \in 0 .. Len(L) /\ n - 1 # Len(L) /\ h[n - 1] = g[n - 1]
                   /\ L[n] = log[n]
      BY <2>2, <1>2
    <3> HIDE DEF h
    <3> QED
      BY <3>1, <3>2, <1>3
  <2> QED
    BY <2>1, <2>2
<1>5. RunningSum(h, L, t)
  BY <1>4 DEF RunningSum
<1>6. h[Len(L)] = s + add
  BY <1>2
<1> QED
  BY <1>5, <1>6 DEF SumsTo, L

\* What a task has spent is the sum of its log, and nothing before it exists.
BudgetInv ==
  \A t \in Task : /\ SumsTo(events, t, tasks[t].spent)
                  /\ tasks[t].status = "absent" => tasks[t].spent = 0

\* The empty log sums to nothing.
LEMMA InitBudgetInv == Init => BudgetInv
<1> SUFFICES ASSUME Init, NEW t \in Task
             PROVE  SumsTo(<<>>, t, 0) /\ events = <<>> /\ tasks[t].spent = 0
  BY DEF BudgetInv, Init, NoTask
<1>1. RunningSum([n \in {0} |-> 0], <<>>, t)
  BY DEF RunningSum
<1>2. SumsTo(<<>>, t, 0)
  BY <1>1 DEF SumsTo
<1> QED
  BY <1>2 DEF Init, NoTask

\* Every operation charges a task what it logs.
LEMMA ChargeStep ==
  ASSUME IInv, BudgetInv, NEW t \in Task, NEW ev \in Event,
         events' = Append(events, ev), ev.task = t,
         \A u \in Task \ {t} : tasks'[u] = tasks[u],
         tasks'[t].status # "absent",
         tasks'[t].spent = tasks[t].spent + ev.reserved
  PROVE  BudgetInv'
<1> SUFFICES ASSUME NEW u \in Task
             PROVE  /\ SumsTo(events', u, tasks'[u].spent)
                    /\ tasks'[u].status = "absent" => tasks'[u].spent = 0
  BY DEF BudgetInv
<1>1. events \in Seq(Event) /\ tasks[u].spent \in Nat /\ SumsTo(events, u, tasks[u].spent)
  BY DEF BudgetInv, IInv, TypeOK, TaskRow
<1>2. SumsTo(Append(events, ev), u, tasks[u].spent + (IF ev.task = u THEN ev.reserved ELSE 0))
  BY <1>1, SumOfAppend
<1>3. tasks'[u].spent = tasks[u].spent + (IF ev.task = u THEN ev.reserved ELSE 0)
  BY <1>1
<1>4. tasks'[u].status = "absent" => tasks'[u].spent = 0
  BY DEF BudgetInv
<1> QED
  BY <1>2, <1>3, <1>4

\* Every step keeps the budget's invariant.
LEMMA NextBudgetInv ==
  ASSUME IInv, IInv', BudgetInv, [Next]_vars
  PROVE  BudgetInv'
<1>0. /\ tasks \in [Task -> TaskRow] /\ events' \in Seq(Event) /\ events \in Seq(Event)
      /\ \A t \in Task : tasks[t].spent \in Nat
      /\ \A t \in Task : leases[t].epoch \in Nat
      /\ \A t \in Task : leases[t].epoch > 0 => leases[t].head \in Commit
      /\ None \notin Commit
  BY StoreConstants DEF IInv, TypeOK, TaskRow, LeaseRow
<1>1. ASSUME NEW t \in Task, NEW p \in Profile, CreateTask(t, p)
      PROVE  BudgetInv'
  <2>1. PICK ev : ev = [type |-> "created", task |-> t, run |-> None, epoch |-> 0,
                        head |-> p.base, reserved |-> 0]
    OBVIOUS
  <2>2. ev \in Event /\ ev.task = t /\ ev.reserved = 0
    BY <2>1, StoreConstants DEF ProfileType, Event
  <2>3. events' = Append(events, ev)
    BY <1>1, <2>1 DEF CreateTask, Log
  <2>4. /\ tasks'[t].status = "queued" /\ tasks'[t].spent = 0
        /\ tasks[t].status = "absent"
        /\ \A u \in Task \ {t} : tasks'[u] = tasks[u]
    BY <1>0, <1>1 DEF CreateTask
  <2>5. tasks'[t].spent = tasks[t].spent + ev.reserved
    BY <2>2, <2>4 DEF BudgetInv
  <2> QED
    BY <2>2, <2>3, <2>4, <2>5, ChargeStep
<1>2. ASSUME NEW t \in Task, NEW r \in Run, NEW w \in Worktree, NEW h \in Commit,
             NEW ttl \in TTL, NEW c \in Cost, ClaimWorkspace(t, r, w, h, ttl, c)
      PROVE  BudgetInv'
  <2>1. PICK ev : ev = [type |-> "claimed", task |-> t, run |-> r, epoch |-> NextEpoch(t),
                        head |-> h, reserved |-> c]
    OBVIOUS
  <2>2. ev \in Event /\ ev.task = t /\ ev.reserved = c
    BY <2>1, <1>0, StoreConstants DEF Event, NextEpoch
  <2>3. events' = Append(events, ev)
    BY <1>2, <2>1 DEF ClaimWorkspace, Log
  <2>4. /\ tasks'[t].status = "running" /\ tasks'[t].spent = tasks[t].spent + c
        /\ \A u \in Task \ {t} : tasks'[u] = tasks[u]
    BY <1>0, <1>2 DEF ClaimWorkspace, NewSpent, TaskRow
  <2> QED
    BY <2>2, <2>3, <2>4, ChargeStep
<1>3. ASSUME NEW t \in Task, NEW r \in Run, NEW e \in {leases[t].epoch, leases[t].epoch - 1},
             NEW ttl \in TTL, NEW h \in Commit \cup {None}, NEW x, Heartbeat(t, r, e, ttl, h, x)
      PROVE  BudgetInv'
  <2>1. PICK ev : ev = [type |-> "heartbeat", task |-> t, run |-> r, epoch |-> e,
                        head |-> HeadOr(h, t), reserved |-> 0]
    OBVIOUS
  <2>2. e = leases[t].epoch /\ ~leases[t].released /\ tasks' = tasks
    BY <1>3 DEF Heartbeat, WriterAuthority
  <2>3. leases[t].epoch > 0 /\ tasks[t].status # "absent" /\ leases[t].head \in Commit
    BY <2>2, LeasedExists
  <2>4. ev \in Event /\ ev.task = t /\ ev.reserved = 0
    BY <2>1, <2>2, <2>3, <1>0 DEF Event, HeadOr
  <2>5. events' = Append(events, ev)
    BY <1>3, <2>1 DEF Heartbeat, Log
  <2>6. tasks'[t].spent = tasks[t].spent + ev.reserved
    BY <1>0, <2>2, <2>4
  <2> QED
    BY <2>2, <2>3, <2>4, <2>5, <2>6, ChargeStep
<1>4. ASSUME NEW t \in Task, NEW r \in Run, NEW e \in {leases[t].epoch, leases[t].epoch - 1},
             NEW o \in Outcome, NEW h \in Commit \cup {None}, NEW x, Release(t, r, e, h, o, x)
      PROVE  BudgetInv'
  <2>1. PICK ev : ev = [type |-> "released", task |-> t, run |-> r, epoch |-> e,
                        head |-> HeadOr(h, t), reserved |-> 0]
    OBVIOUS
  <2>2. e = leases[t].epoch /\ ~leases[t].released
    BY <1>4 DEF Release, WriterAuthority
  <2>3. leases[t].epoch > 0 /\ leases[t].head \in Commit
    BY <2>2, LeasedExists
  <2>4. ev \in Event /\ ev.task = t /\ ev.reserved = 0
    BY <2>1, <2>2, <2>3, <1>0 DEF Event, HeadOr
  <2>5. events' = Append(events, ev)
    BY <1>4, <2>1 DEF Release, Log
  <2>6. /\ tasks'[t].status = o /\ tasks'[t].spent = tasks[t].spent
        /\ \A u \in Task \ {t} : tasks'[u] = tasks[u]
    BY <1>0, <1>4 DEF Release, TaskRow
  <2>7. tasks'[t].spent = tasks[t].spent + ev.reserved /\ o # "absent"
    BY <1>0, <2>4, <2>6, StoreConstants
  <2> QED
    BY <2>4, <2>5, <2>6, <2>7, ChargeStep
<1>5. CASE Tick
  BY <1>5 DEF Tick, BudgetInv
<1>6. CASE UNCHANGED vars
  BY <1>6 DEF vars, BudgetInv
<1> QED
  <2>1. CASE \E t \in Task, p \in Profile : CreateTask(t, p)
    BY <2>1, <1>1
  <2>2. CASE Claim
    BY <2>2, <1>2 DEF Claim
  <2>3. CASE Renew
    BY <2>3, <1>3 DEF Renew
  <2>4. CASE Finish
    BY <2>4, <1>4 DEF Finish
  <2> QED
    BY <2>1, <2>2, <2>3, <2>4, <1>5, <1>6 DEF Next

\* The log accounts for every unit of budget a task has spent.
THEOREM BudgetAccounted == Spec => []BudgetConserved
<1>1. ASSUME IInv, BudgetInv PROVE BudgetConserved
  <2> SUFFICES ASSUME NEW t \in Task PROVE tasks[t].spent = Reserved(t)
    BY DEF BudgetConserved
  <2>1. events \in Seq(Event) /\ SumsTo(events, t, tasks[t].spent)
    BY <1>1 DEF IInv, TypeOK, BudgetInv
  <2> QED
    BY <2>1, ReservedIs
<1>2. Init => BudgetInv
  BY InitBudgetInv
<1>3. IInv /\ IInv' /\ BudgetInv /\ [Next]_vars => BudgetInv'
  BY NextBudgetInv
<1>4. IInv /\ BudgetInv => BudgetConserved
  BY <1>1
<1> QED
  BY <1>2, <1>3, <1>4, SpecIInv, PTL DEF Spec
=============================================================================
