------------------------- MODULE GovernedLaunchProofs -------------------------
(***************************************************************************)
(* Proofs about GovernedLaunch, for every number of requests, runs, tasks  *)
(* and worktrees, every duration and every number of crashes.              *)
(*                                                                         *)
(* A launch drives the store of ControlStore and nothing else, so all that *)
(* ControlStoreProofs shows holds of it too.  The invariant follows a      *)
(* lease from the claim to the paid start: until the expiry the claim      *)
(* computed has passed, the run that was claimed for is still its owner.   *)
(* That needs single flight, since another thread of the same run could    *)
(* release the lease, and needs that the thread of a worker that has not   *)
(* paid yet still waits for it.                                            *)
(*                                                                         *)
(* The second part is about the worktree.  Its invariant WorkInv says what *)
(* a thread past its claim, or gone in a crash, left of its worker and its *)
(* marker.  That one worktree has one writer needs only that a launch      *)
(* starts within its lease (StartsInLease), because the next one looks for *)
(* containers (ApartInv); that no marker surprises a launch needs that it  *)
(* also ends within it (EndsInLease).                                      *)
(***************************************************************************)
EXTENDS GovernedLaunch, ControlStoreProofs

\* A created task has a base.
BasesKnown == \A t \in Task : tasks[t].status # "absent" => tasks[t].base \in Commit

\* A request in flight has its parameters, and its run is in the active set.
Serving ==
  \A q \in Req : InFlight(q) =>
    req[q].task \in Task /\ req[q].run \in active /\ req[q].ws \in Worktree

\* With these lease rows and at this time: run r owns task t's lease, which
\* ends at e, or e has passed.
Owns(rows, time, r, t, e) ==
  time >= e \/ (rows[t].run = r /\ ~rows[t].released /\ rows[t].expires = e)

\* A claimed request owns its lease up to the worker's spawn.
ClaimKept ==
  \A q \in Req : req[q].pc \in PreSpawn =>
    /\ runs[req[q].run].status # "absent" /\ runs[req[q].run].task = req[q].task
    /\ Owns(leases, now, req[q].run, req[q].task, req[q].claimedAt + LeaseTTL)

\* So does a worker before its paid start, until its envelope expires.
WorkerKept ==
  \A r \in Run : worker[r].st = "spawned" =>
    /\ runs[r].status # "absent" /\ runs[r].task \in Task
    /\ Owns(leases, now, r, runs[r].task, worker[r].envExpires)

\* Only a worker that was never spawned has no worktree.
Placed(rows) ==
  \A r \in Run : rows[r].ws \in Worktree \/ (rows[r].st = "none" /\ rows[r].containerEnd = 0)

\* The thread that serves the run of such a worker, if one does, waits for it.
SpawnedIsWaited ==
  \A q \in Req : InFlight(q) /\ worker[req[q].run].st = "spawned" => req[q].pc = "waiting"

LaunchInv ==
  /\ IInv
  /\ LaunchTypeOK
  /\ BasesKnown
  /\ Serving
  /\ SingleFlight
  /\ ClaimKept
  /\ WorkerKept
  /\ SpawnedIsWaited
  /\ Placed(worker)

\* Initially nothing is claimed, spawned or in flight.
LEMMA InitLaunchInv == LaunchInit => LaunchInv
<1> SUFFICES ASSUME LaunchInit PROVE LaunchInv
  OBVIOUS
<1>1. IInv
  BY InitIInv DEF LaunchInit
<1>2. LaunchTypeOK
  BY <1>1, LaunchConstants DEF LaunchInit, LaunchTypeOK, IInv, ReqRow, PC, WorkerRow,
     WorkerState, LaunchOutcome
<1>3. BasesKnown
  BY DEF LaunchInit, Init, NoTask, BasesKnown
<1> QED
  BY <1>1, <1>2, <1>3 DEF LaunchInit, LaunchInv, Serving, SingleFlight, InFlight, ClaimKept,
     WorkerKept, SpawnedIsWaited, PreSpawn, Placed

\* Moving a thread's program counter changes nothing else of its row.
LEMMA GotoStep ==
  ASSUME LaunchInv, NEW q \in Req, NEW pc \in PC, Goto(q, pc)
  PROVE  /\ req' \in [Req -> ReqRow]
         /\ req'[q] = [req[q] EXCEPT !.pc = pc]
         /\ \A p \in Req \ {q} : req'[p] = req[p]
BY DEF Goto, LaunchInv, LaunchTypeOK, ReqRow

\* A step of one thread that leaves the store alone, starts no worker, and is
\* not the wait for an unpaid one keeps the invariant.
LEMMA QuietStep ==
  ASSUME LaunchInv, NEW q \in Req, InFlight(q), UNCHANGED vars, UNCHANGED crashes,
         req' \in [Req -> ReqRow],
         \A p \in Req \ {q} : req'[p] = req[p],
         req'[q].task = req[q].task, req'[q].run = req[q].run, req'[q].ws = req[q].ws,
         req'[q].claimedAt = req[q].claimedAt,
         req'[q].pc \in PreSpawn => req[q].pc \in PreSpawn,
         \/ active' = active
         \/ req'[q].pc = "done" /\ active' = active \ {req[q].run},
         usedKeys' \subseteq Run, quarantined' \subseteq Worktree, dirty' \subseteq Worktree,
         worker' \in [Run -> WorkerRow],
         \A r \in Run : worker'[r].st = "spawned" =>
           worker[r].st = "spawned" /\ worker'[r].envExpires = worker[r].envExpires,
         worker'[req[q].run].st # "spawned",
         Placed(worker')
  PROVE  LaunchInv'
<1> USE DEF LaunchInv
<1>1. IInv'
  BY NextIInv
<1>2. LaunchTypeOK'
  BY <1>1 DEF LaunchTypeOK, IInv
<1>3. BasesKnown'
  BY DEF BasesKnown, vars
<1>4. \A p \in Req : InFlight(p)' => InFlight(p) /\ req'[p].run = req[p].run
  BY DEF InFlight
<1>5. Serving'
  <2> SUFFICES ASSUME NEW p \in Req, InFlight(p)'
               PROVE  /\ req'[p].task \in Task /\ req'[p].ws \in Worktree
                      /\ req'[p].run \in active'
    BY DEF Serving
  <2>1. /\ req[p].task \in Task /\ req[p].ws \in Worktree /\ req[p].run \in active
        /\ req'[p].task = req[p].task /\ req'[p].ws = req[p].ws /\ req'[p].run = req[p].run
    BY <1>4 DEF Serving
  <2>2. CASE active' = active
    BY <2>1, <2>2
  <2>3. CASE req'[q].pc = "done" /\ active' = active \ {req[q].run}
    <3>1. p # q
      BY <2>3 DEF InFlight
    <3> QED
      BY <2>1, <2>3, <3>1, <1>4 DEF SingleFlight
  <2> QED
    BY <2>1, <2>2, <2>3
<1>6. SingleFlight'
  BY <1>4 DEF SingleFlight
<1>7. ClaimKept'
  BY DEF ClaimKept, Owns, vars
<1>8. WorkerKept'
  BY DEF WorkerKept, Owns, vars
<1>9. SpawnedIsWaited'
  <2> SUFFICES ASSUME NEW p \in Req, InFlight(p)', worker'[req'[p].run].st = "spawned"
               PROVE  req'[p].pc = "waiting"
    BY DEF SpawnedIsWaited
  <2>1. p # q /\ InFlight(p) /\ req'[p] = req[p]
    BY <1>4
  <2>2. req[p].run \in Run
    BY <2>1 DEF Serving, LaunchTypeOK
  <2> QED
    BY <2>1, <2>2 DEF SpawnedIsWaited
<1> QED
  BY <1>1, <1>2, <1>3, <1>5, <1>6, <1>7, <1>8, <1>9

\* Removing containers keeps the workers and their states.
LEMMA RemovedContainers ==
  ASSUME LaunchInv, NEW w
  PROVE  /\ RemoveContainers(w) \in [Run -> WorkerRow]
         /\ Placed(RemoveContainers(w))
         /\ \A r \in Run : /\ RemoveContainers(w)[r].st = worker[r].st
                           /\ RemoveContainers(w)[r].envExpires = worker[r].envExpires
BY DEF RemoveContainers, LaunchInv, LaunchTypeOK, WorkerRow, WorkerState, Placed

\* The thread's steps that leave the store alone and start no worker.
LEMMA ThreadQuietInv ==
  ASSUME LaunchInv, NEW q \in Req,
         \/ Validate(q) \/ Admit(q) \/ Recheck(q) \/ Isolate(q) \/ IssueGuardLease(q)
         \/ Collect(q) \/ Timeout(q) \/ CleanAfterExit(q) \/ CleanAfterTimeout(q)
         \/ CleanAfterError(q) \/ CollectError(q)
         \/ Settle(q) \/ Quarantine(q) \/ Keep(q)
  PROVE  LaunchInv'
<1> DEFINE r == req[q].run
<1>1. /\ worker \in [Run -> WorkerRow] /\ req \in [Req -> ReqRow] /\ Placed(worker)
      /\ usedKeys \subseteq Run /\ quarantined \subseteq Worktree /\ dirty \subseteq Worktree
  BY DEF LaunchInv, LaunchTypeOK
<1>2. InFlight(q)
  BY DEF InFlight, Validate, Admit, Recheck, Isolate, IssueGuardLease, Collect, Timeout,
     CleanAfterExit, CleanAfterTimeout, CleanAfterError, CollectError, Settle, Quarantine, Keep
<1>3. r \in Run /\ req[q].ws \in Worktree
  BY <1>2 DEF LaunchInv, LaunchTypeOK, Serving
<1>4. req[q].pc # "waiting" => worker[r].st # "spawned"
  BY <1>2 DEF LaunchInv, SpawnedIsWaited
<1> HIDE DEF r
\* A step that moves the program counter and touches nothing a worker needs.
<1>5. ASSUME NEW pc \in PC, Goto(q, pc), pc \in PreSpawn => req[q].pc \in PreSpawn,
             req[q].pc # "waiting",
             UNCHANGED <<vars, usedKeys, dirty, worker, crashes>>,
             quarantined' \subseteq Worktree,
             active' = active \/ (pc = "done" /\ active' = active \ {r})
      PROVE  LaunchInv'
  <2>1. /\ req' \in [Req -> ReqRow] /\ req'[q] = [req[q] EXCEPT !.pc = pc]
        /\ \A p \in Req \ {q} : req'[p] = req[p]
    BY <1>5, GotoStep
  <2>2. /\ req'[q].task = req[q].task /\ req'[q].run = req[q].run /\ req'[q].ws = req[q].ws
        /\ req'[q].claimedAt = req[q].claimedAt /\ req'[q].pc = pc
    BY <2>1, <1>1 DEF ReqRow
  <2> QED
    BY <1>1, <1>2, <1>3, <1>4, <1>5, <2>1, <2>2, QuietStep DEF r
<1>6. CASE Validate(q)
  BY <1>6, <1>5, <1>1 DEF Validate, End, PC, PreSpawn, StoreUnchanged, r
<1>7. CASE Admit(q)
  BY <1>7, <1>5, <1>1 DEF Admit, End, PC, PreSpawn, StoreUnchanged, r
<1>8. CASE Recheck(q) \/ Isolate(q) \/ IssueGuardLease(q)
  BY <1>8, <1>5, <1>1 DEF Recheck, Isolate, IssueGuardLease, PC, PreSpawn, Finishing, StoreUnchanged
<1>9. CASE Quarantine(q)
  BY <1>9, <1>5, <1>1, <1>3 DEF Quarantine, PC, PreSpawn, Finishing, StoreUnchanged
<1>10. CASE Keep(q)
  BY <1>10, <1>5, <1>1 DEF Keep, End, PC, PreSpawn, Finishing, StoreUnchanged, r
\* A step that moves the counter to a later one and changes the workers.
<1>11. ASSUME NEW pc \in Finishing, Goto(q, pc),
              UNCHANGED <<vars, active, usedKeys, quarantined, dirty, crashes>>,
              worker' \in [Run -> WorkerRow], worker'[r].st # "spawned",
              \A s \in Run : worker'[s].st = "spawned" =>
                worker[s].st = "spawned" /\ worker'[s].envExpires = worker[s].envExpires,
              Placed(worker')
       PROVE  LaunchInv'
  <2>1. /\ pc \in PC /\ pc \notin PreSpawn
    BY DEF PC, Finishing, PreSpawn
  <2>2. /\ req' \in [Req -> ReqRow] /\ req'[q] = [req[q] EXCEPT !.pc = pc]
        /\ \A p \in Req \ {q} : req'[p] = req[p]
    BY <1>11, <2>1, GotoStep
  <2>3. /\ req'[q].task = req[q].task /\ req'[q].run = req[q].run /\ req'[q].ws = req[q].ws
        /\ req'[q].claimedAt = req[q].claimedAt /\ req'[q].pc = pc
    BY <2>2, <1>1 DEF ReqRow
  <2> QED
    BY <1>1, <1>2, <1>11, <2>1, <2>2, <2>3, QuietStep DEF r
<1>12. CASE Collect(q)
  BY <1>12, <1>11, <1>1 DEF Collect, Finishing, StoreUnchanged, r
<1>13. CASE Timeout(q)
  <2>1. /\ worker' \in [Run -> WorkerRow] /\ worker'[r].st # "spawned"
        /\ \A s \in Run : worker'[s].st = "spawned" => worker'[s] = worker[s]
    BY <1>13, <1>1, <1>3 DEF Timeout, WorkerRow, WorkerState, r
  <2>2. Placed(worker')
    BY <1>13, <1>1, <1>3 DEF Timeout, WorkerRow, WorkerState, Placed, Running, r
  <2> QED
    BY <1>13, <1>11, <2>1, <2>2 DEF Timeout, Finishing, StoreUnchanged
<1>14. CASE CleanAfterExit(q)
  BY <1>14, <1>11, <1>1, <1>3, <1>4, RemovedContainers
     DEF CleanAfterExit, AfterCleanup, Finishing, StoreUnchanged
<1>15. CASE CleanAfterTimeout(q)
  BY <1>15, <1>11, <1>1, <1>3, <1>4, RemovedContainers
     DEF CleanAfterTimeout, Finishing, StoreUnchanged
<1>17. CASE CleanAfterError(q)
  BY <1>17, <1>11, <1>1, <1>3, <1>4, RemovedContainers
     DEF CleanAfterError, Finishing, StoreUnchanged
<1>18. CASE CollectError(q)
  <2>1. /\ worker' \in [Run -> WorkerRow] /\ worker'[r].st # "spawned"
        /\ \A s \in Run : worker'[s].st = "spawned" => worker'[s] = worker[s]
    BY <1>18, <1>1, <1>3 DEF CollectError, WorkerRow, WorkerState, r
  <2>2. Placed(worker')
    BY <1>18, <1>1, <1>3 DEF CollectError, WorkerRow, WorkerState, Placed, Running, r
  <2> QED
    BY <1>18, <1>11, <2>1, <2>2 DEF CollectError, Finishing, StoreUnchanged
<1>16. CASE Settle(q)
  <2>1. ASSUME NEW o \in LaunchOutcome, req' = [req EXCEPT ![q].pc = "releasing", ![q].outcome = o]
        PROVE  /\ req' \in [Req -> ReqRow] /\ req'[q].pc = "releasing"
               /\ \A p \in Req \ {q} : req'[p] = req[p]
               /\ req'[q].task = req[q].task /\ req'[q].run = req[q].run
               /\ req'[q].ws = req[q].ws /\ req'[q].claimedAt = req[q].claimedAt
    BY <2>1, <1>1 DEF ReqRow, PC, Finishing
  <2>2. CASE worker[r].rc = 0
    <3>1. PICK o \in LaunchOutcome : req' = [req EXCEPT ![q].pc = "releasing", ![q].outcome = o]
      BY <1>16, <2>2, LaunchConstants DEF Settle, r
    <3>2. /\ UNCHANGED <<vars, active, usedKeys, quarantined, dirty, worker, crashes>>
          /\ req[q].pc # "waiting"
      BY <1>16, <2>2 DEF Settle, StoreUnchanged, r
    <3> QED
      BY <2>1, <3>1, <3>2, <1>1, <1>2, <1>4, QuietStep DEF PreSpawn, r
  <2>3. CASE worker[r].rc # 0
    BY <2>3, <1>16, <1>5, <1>1, <1>3 DEF Settle, PC, PreSpawn, Finishing, StoreUnchanged, r
  <2> QED
    BY <2>2, <2>3
<1> QED
  BY <1>6, <1>7, <1>8, <1>9, <1>10, <1>12, <1>13, <1>14, <1>15, <1>16, <1>17, <1>18

\* A spawn hands the worker the lease its request still owns.
LEMMA SpawnInv ==
  ASSUME LaunchInv, NEW q \in Req, Spawn(q)
  PROVE  LaunchInv'
<1> DEFINE r == req[q].run
           w == req[q].ws
           row == [st |-> "spawned", ws |-> w, envExpires |-> req[q].claimedAt + LeaseTTL,
                   deadline |-> now + WorkerTimeout, containerEnd |-> 0, rc |-> 0]
<1>1. /\ worker \in [Run -> WorkerRow] /\ req \in [Req -> ReqRow] /\ Placed(worker) /\ now \in Nat
      /\ usedKeys \subseteq Run /\ quarantined \subseteq Worktree /\ dirty \subseteq Worktree
  BY DEF LaunchInv, LaunchTypeOK, TypeOK
<1>2. /\ InFlight(q) /\ req[q].pc = "guarded" /\ UNCHANGED vars
      /\ UNCHANGED <<active, usedKeys, quarantined, dirty, crashes>>
  BY DEF InFlight, Spawn, StoreUnchanged
<1>3. r \in Run /\ w \in Worktree /\ req[q].task \in Task
  BY <1>2 DEF LaunchInv, LaunchTypeOK, Serving
<1>4. worker[r].st # "spawned"
  BY <1>2 DEF LaunchInv, SpawnedIsWaited
<1>5. CASE worker' = [worker EXCEPT ![r] = row] /\ Goto(q, "waiting")
  <2>1. /\ req' \in [Req -> ReqRow]
        /\ \A p \in Req \ {q} : req'[p] = req[p]
        /\ req'[q] = [req[q] EXCEPT !.pc = "waiting"]
    BY <1>5, GotoStep DEF PC
  <2>2. /\ req'[q].task = req[q].task /\ req'[q].run = r /\ req'[q].ws = w
        /\ req'[q].pc = "waiting"
    BY <2>1, <1>1 DEF ReqRow
  <2>3. req[q].claimedAt + LeaseTTL \in Nat /\ now + WorkerTimeout \in Nat
    BY <1>1, LaunchConstants, StoreConstants DEF ReqRow
  <2>4. row \in WorkerRow
    BY <2>3, <1>3 DEF WorkerRow, WorkerState
  <2> HIDE DEF r, w, row
  <2>5. /\ worker' \in [Run -> WorkerRow] /\ worker'[r] = row
        /\ \A s \in Run \ {r} : worker'[s] = worker[s]
    BY <2>4, <1>5, <1>1, <1>3
  <2>6. IInv'
    BY <1>2, NextIInv DEF LaunchInv
  <2>7. LaunchTypeOK'
    BY <2>1, <2>5, <2>6, <1>2 DEF LaunchTypeOK, IInv, LaunchInv
  <2>8. BasesKnown'
    BY <1>2 DEF LaunchInv, BasesKnown, vars
  <2>9. \A p \in Req : InFlight(p)' => InFlight(p) /\ req'[p].run = req[p].run
    BY <2>1, <2>2, <1>2 DEF InFlight, r
  <2>10. Serving'
    BY <2>1, <2>2, <2>9, <1>2 DEF LaunchInv, Serving, r, w
  <2>11. SingleFlight'
    BY <2>9 DEF LaunchInv, SingleFlight
  <2>12. ClaimKept'
    <3>1. \A p \in Req : req'[p].pc \in PreSpawn => req'[p] = req[p]
      BY <2>1, <2>2 DEF PreSpawn
    <3> QED
      BY <3>1, <1>2 DEF LaunchInv, ClaimKept, Owns, vars
  <2>13. WorkerKept'
    <3>1. /\ runs[r].status # "absent" /\ runs[r].task \in Task
          /\ Owns(leases, now, r, runs[r].task, row.envExpires)
      BY <1>2, <1>3 DEF LaunchInv, ClaimKept, PreSpawn, row, r
    <3>2. ASSUME NEW s \in Run, worker'[s].st = "spawned"
          PROVE  /\ runs[s].status # "absent" /\ runs[s].task \in Task
                 /\ Owns(leases, now, s, runs[s].task, worker'[s].envExpires)
      BY <3>1, <3>2, <2>5 DEF LaunchInv, WorkerKept
    <3> QED
      BY <3>2, <1>2 DEF WorkerKept, Owns, vars
  <2>14. SpawnedIsWaited'
    <3> SUFFICES ASSUME NEW p \in Req \ {q}, InFlight(p)', worker'[req'[p].run].st = "spawned"
                 PROVE  req'[p].pc = "waiting"
      BY <2>2 DEF SpawnedIsWaited
    <3>1. InFlight(p) /\ req'[p] = req[p]
      BY <2>1, <2>9
    <3>2. req[p].run \in Run /\ req[p].run # r
      BY <3>1, <1>2 DEF LaunchInv, LaunchTypeOK, Serving, SingleFlight, r
    <3> QED
      BY <3>1, <3>2, <2>5 DEF LaunchInv, SpawnedIsWaited
  <2>15. Placed(worker')
    <3>1. row.ws \in Worktree
      BY <1>3 DEF row
    <3> QED
      BY <3>1, <2>5, <1>1 DEF Placed
  <2> QED
    BY <2>6, <2>7, <2>8, <2>10, <2>11, <2>12, <2>13, <2>14, <2>15 DEF LaunchInv
<1>6. ASSUME NEW pc \in {"releasing", "uncertain"}, Goto(q, pc),
             worker' \in {worker, RemoveContainers(w)}
      PROVE  LaunchInv'
  <2>1. pc \in PC /\ pc \notin PreSpawn
    BY DEF PC, Finishing, PreSpawn
  <2>2. /\ req' \in [Req -> ReqRow] /\ req'[q] = [req[q] EXCEPT !.pc = pc]
        /\ \A p \in Req \ {q} : req'[p] = req[p]
    BY <1>6, <2>1, GotoStep
  <2>3. /\ req'[q].task = req[q].task /\ req'[q].run = req[q].run /\ req'[q].ws = req[q].ws
        /\ req'[q].claimedAt = req[q].claimedAt /\ req'[q].pc = pc
    BY <2>2, <1>1 DEF ReqRow
  <2>4. /\ worker' \in [Run -> WorkerRow]
        /\ \A s \in Run : /\ worker'[s].st = worker[s].st
                           /\ worker'[s].envExpires = worker[s].envExpires
        /\ Placed(worker')
    BY <1>6, <1>1, RemovedContainers
  <2> QED
    BY <1>1, <1>2, <1>3, <1>4, <2>1, <2>2, <2>3, <2>4, QuietStep
<1> QED
  BY <1>5, <1>6 DEF Spawn

\* The head a claim must present is one the store may hold.
LEMMA ExpectedHeadIsHead ==
  ASSUME LaunchInv, NEW t \in Task, tasks[t].status # "absent"
  PROVE  ExpectedHead(t) \in Commit
BY DEF LaunchInv, IInv, TypeOK, TaskRow, LeaseRow, BasesKnown, ExpectedHead

\* A claim cannot take the lease of a run before its expiry, and serves a run
\* that has no worker yet.
LEMMA ClaimInv ==
  ASSUME LaunchInv, NEW q \in Req, ClaimStep(q)
  PROVE  LaunchInv' /\ [Next]_vars
<1> DEFINE r == req[q].run
           t == req[q].task
           w == req[q].ws
<1>1. /\ worker \in [Run -> WorkerRow] /\ req \in [Req -> ReqRow] /\ Placed(worker) /\ now \in Nat
      /\ usedKeys \subseteq Run /\ quarantined \subseteq Worktree /\ dirty \subseteq Worktree
      /\ leases \in [Task -> LeaseRow] /\ runs \in [Run -> RunRow] /\ tasks \in [Task -> TaskRow]
  BY DEF LaunchInv, LaunchTypeOK, TypeOK
<1>2. /\ InFlight(q) /\ req[q].pc = "ready" /\ usedKeys' = usedKeys \cup {r}
      /\ UNCHANGED <<quarantined, dirty, worker, crashes>>
  BY DEF InFlight, ClaimStep
<1>3. r \in Run /\ w \in Worktree /\ t \in Task
  BY <1>2 DEF LaunchInv, LaunchTypeOK, Serving
<1>4. worker[r].st # "spawned"
  BY <1>2 DEF LaunchInv, SpawnedIsWaited
<1> HIDE DEF r, t, w
<1>5. CASE End(q) /\ StoreUnchanged
  <2>1. /\ req' \in [Req -> ReqRow] /\ req'[q] = [req[q] EXCEPT !.pc = "done"]
        /\ \A p \in Req \ {q} : req'[p] = req[p]
    BY <1>5, GotoStep DEF End, PC
  <2>2. /\ req'[q].task = req[q].task /\ req'[q].run = req[q].run /\ req'[q].ws = req[q].ws
        /\ req'[q].claimedAt = req[q].claimedAt /\ req'[q].pc = "done"
    BY <2>1, <1>1 DEF ReqRow
  <2>3. active' = active \ {r} /\ UNCHANGED vars
    BY <1>5 DEF End, StoreUnchanged, r
  <2> QED
    BY <1>1, <1>2, <1>3, <1>4, <2>1, <2>2, <2>3, QuietStep DEF PreSpawn, r
<1>6. ASSUME NEW c \in Cost,
             ClaimWorkspace(t, r, w, ExpectedHead(t), LeaseTTL, c),
             req' = [req EXCEPT ![q].pc = "claimed", ![q].epoch = NextEpoch(t),
                                ![q].claimedAt = now],
             UNCHANGED active
      PROVE  LaunchInv' /\ [Next]_vars
  <2>1. ExpectedHead(t) \in Commit /\ LeaseTTL \in TTL
    BY <1>6, <1>3, ExpectedHeadIsHead, LaunchConstants DEF ClaimWorkspace
  <2>2. Claim
    BY <1>6, <1>3, <2>1 DEF Claim
  <2>3. Next /\ IInv'
    BY <2>2, NextIInv DEF Next, LaunchInv
  <2>4. /\ req' \in [Req -> ReqRow]
        /\ \A p \in Req \ {q} : req'[p] = req[p]
        /\ req'[q].task = t /\ req'[q].run = r /\ req'[q].ws = w
        /\ req'[q].pc = "claimed" /\ req'[q].claimedAt = now
    <3>1. NextEpoch(t) \in Nat
      BY <1>1, <1>3 DEF NextEpoch, LeaseRow
    <3> DEFINE claimed == [req[q] EXCEPT !.pc = "claimed", !.epoch = NextEpoch(t),
                                         !.claimedAt = now]
    <3>2. req' = [req EXCEPT ![q] = claimed]
      BY <1>6, <1>1
    <3>3. /\ claimed \in ReqRow /\ claimed.task = t /\ claimed.run = r /\ claimed.ws = w
          /\ claimed.pc = "claimed" /\ claimed.claimedAt = now
      BY <3>1, <1>1 DEF ReqRow, PC, PreSpawn, r, t, w
    <3> HIDE DEF claimed
    <3> QED
      BY <3>2, <3>3, <1>1
  <2>5. /\ leases'[t].run = r /\ ~leases'[t].released /\ leases'[t].expires = now + LeaseTTL
        /\ \A u \in Task \ {t} : leases'[u] = leases[u]
        /\ runs'[r].status = "running" /\ runs'[r].task = t
        /\ \A s \in Run \ {r} : runs'[s] = runs[s]
        /\ \A u \in Task : tasks'[u].base = tasks[u].base
        /\ \A u \in Task : tasks'[u].status # "absent" => tasks[u].status # "absent"
        /\ now' = now
    <3> DEFINE lease == [epoch |-> NextEpoch(t), run |-> r, worktree |-> w,
                         expires |-> now + LeaseTTL, released |-> FALSE,
                         head |-> ExpectedHead(t), reserved |-> c]
               run == [status |-> "running", task |-> t, attempt |-> NextAttempt(t),
                       epoch |-> NextEpoch(t)]
    <3>1. /\ leases' = [leases EXCEPT ![t] = lease] /\ runs' = [runs EXCEPT ![r] = run]
          /\ tasks' = [tasks EXCEPT ![t].status = "running", ![t].spent = NewSpent(t, c)]
          /\ now' = now /\ tasks[t].status # "absent"
      BY <1>6 DEF ClaimWorkspace
    <3>2. /\ lease.run = r /\ ~lease.released /\ lease.expires = now + LeaseTTL
          /\ run.status = "running" /\ run.task = t
      OBVIOUS
    <3> HIDE DEF lease, run
    <3>3. leases'[t] = lease /\ \A u \in Task \ {t} : leases'[u] = leases[u]
      BY <3>1, <1>1, <1>3
    <3>4. runs'[r] = run /\ \A s \in Run \ {r} : runs'[s] = runs[s]
      BY <3>1, <1>1, <1>3
    <3>5. /\ \A u \in Task : tasks'[u].base = tasks[u].base
          /\ \A u \in Task : tasks'[u].status # "absent" => tasks[u].status # "absent"
      BY <3>1, <1>1, <1>3 DEF TaskRow
    <3> QED
      BY <3>1, <3>2, <3>3, <3>4, <3>5
  <2>6. LeaseFree(t) /\ runs[r].status = "absent"
    BY <1>6 DEF ClaimWorkspace
  <2>7. \A s \in Run \ {r}, u \in Task, e \in Nat :
          Owns(leases, now, s, u, e) => Owns(leases', now', s, u, e)
    BY <2>5, <2>6, <1>1 DEF Owns, LeaseFree
  <2>8. LaunchTypeOK'
    BY <1>2, <1>3, <1>6, <2>3, <2>4 DEF LaunchTypeOK, IInv, LaunchInv
  <2>9. BasesKnown'
    BY <2>5 DEF LaunchInv, BasesKnown
  <2>10. \A p \in Req : /\ InFlight(p)' => InFlight(p)
                        /\ req'[p].run = req[p].run /\ req'[p].ws = req[p].ws
                        /\ req'[p].task = req[p].task
    <3>1. \A p \in Req \ {q} : req'[p] = req[p]
      BY <2>4
    <3>2. /\ InFlight(q) /\ req'[q].run = req[q].run /\ req'[q].ws = req[q].ws
          /\ req'[q].task = req[q].task
      BY <2>4, <1>2 DEF r, t, w
    <3> QED
      BY <3>1, <3>2 DEF InFlight
  <2>11. Serving' /\ SingleFlight'
    <3>1. Serving /\ SingleFlight /\ active' = active
      BY <1>6 DEF LaunchInv
    <3>2. Serving'
      BY <3>1, <2>10 DEF Serving
    <3>3. SingleFlight'
      BY <3>1, <2>10 DEF SingleFlight
    <3> QED
      BY <3>2, <3>3
  <2>12. ClaimKept'
    <3> SUFFICES ASSUME NEW p \in Req, req'[p].pc \in PreSpawn
                 PROVE  /\ runs'[req'[p].run].status # "absent"
                        /\ runs'[req'[p].run].task = req'[p].task
                        /\ Owns(leases', now', req'[p].run, req'[p].task,
                                req'[p].claimedAt + LeaseTTL)
      BY DEF ClaimKept
    <3>1. CASE p = q
      BY <3>1, <2>4, <2>5 DEF Owns
    <3>2. CASE p # q
      <4>1. /\ InFlight(p) /\ req'[p] = req[p] /\ req[p].pc \in PreSpawn
        BY <3>2, <2>4, <2>10 DEF InFlight, PreSpawn
      <4>2. req[p].run \in Run \ {r} /\ req[p].task \in Task
        BY <4>1, <3>2, <1>2 DEF LaunchInv, LaunchTypeOK, Serving, SingleFlight, r
      <4>3. req[p].claimedAt + LeaseTTL \in Nat
        BY <1>1, LaunchConstants, StoreConstants DEF ReqRow
      <4>4. /\ runs[req[p].run].status # "absent" /\ runs[req[p].run].task = req[p].task
            /\ Owns(leases, now, req[p].run, req[p].task, req[p].claimedAt + LeaseTTL)
        BY <4>1 DEF LaunchInv, ClaimKept
      <4> QED
        BY <4>1, <4>2, <4>3, <4>4, <2>5, <2>7
    <3> QED
      BY <3>1, <3>2
  <2>13. WorkerKept'
    <3> SUFFICES ASSUME NEW s \in Run, worker[s].st = "spawned"
                 PROVE  /\ runs'[s].status # "absent" /\ runs'[s].task \in Task
                        /\ Owns(leases', now', s, runs'[s].task, worker[s].envExpires)
      BY <1>2 DEF WorkerKept
    <3>1. /\ s # r /\ runs[s].status # "absent" /\ runs[s].task \in Task
          /\ Owns(leases, now, s, runs[s].task, worker[s].envExpires)
      BY <1>4 DEF LaunchInv, WorkerKept
    <3>2. worker[s].envExpires \in Nat
      BY <1>1 DEF WorkerRow, WorkerState
    <3> QED
      BY <3>1, <3>2, <2>5, <2>7
  <2>14. SpawnedIsWaited'
    BY <2>4, <2>10, <1>2, <1>4 DEF LaunchInv, SpawnedIsWaited
  <2> QED
    BY <1>1, <1>2, <2>3, <2>8, <2>9, <2>11, <2>12, <2>13, <2>14 DEF LaunchInv
<1> QED
  BY <1>5, <1>6 DEF ClaimStep, r, t, w

\* A release frees the lease of its own run only, which nothing needs any more.
LEMMA ReleaseInv ==
  ASSUME LaunchInv, NEW q \in Req, ReleaseStep(q)
  PROVE  LaunchInv' /\ [Next]_vars
<1> DEFINE r == req[q].run
           t == req[q].task
<1>1. /\ worker \in [Run -> WorkerRow] /\ req \in [Req -> ReqRow] /\ Placed(worker) /\ now \in Nat
      /\ usedKeys \subseteq Run /\ quarantined \subseteq Worktree /\ dirty \subseteq Worktree
      /\ leases \in [Task -> LeaseRow] /\ runs \in [Run -> RunRow] /\ tasks \in [Task -> TaskRow]
  BY DEF LaunchInv, LaunchTypeOK, TypeOK
<1>2. /\ InFlight(q) /\ req[q].pc = "releasing"
      /\ UNCHANGED <<usedKeys, quarantined, dirty, worker, crashes>>
      /\ Goto(q, "done") /\ active' = active \ {r}
  BY DEF InFlight, ReleaseStep, End
<1>3. r \in Run /\ req[q].ws \in Worktree /\ t \in Task
  BY <1>2 DEF LaunchInv, LaunchTypeOK, Serving
<1>4. worker[r].st # "spawned"
  BY <1>2 DEF LaunchInv, SpawnedIsWaited
<1>5. /\ req' \in [Req -> ReqRow] /\ req'[q] = [req[q] EXCEPT !.pc = "done"]
      /\ \A p \in Req \ {q} : req'[p] = req[p]
  BY <1>2, GotoStep DEF PC
<1>6. /\ req'[q].task = req[q].task /\ req'[q].run = req[q].run /\ req'[q].ws = req[q].ws
      /\ req'[q].claimedAt = req[q].claimedAt /\ req'[q].pc = "done"
  BY <1>5, <1>1 DEF ReqRow
<1> HIDE DEF r, t
<1>7. CASE UNCHANGED vars
  BY <1>1, <1>2, <1>3, <1>4, <1>5, <1>6, <1>7, QuietStep DEF PreSpawn, r
<1>8. CASE Release(t, r, req[q].epoch, None, req[q].outcome, None)
  <2>1. leases[t].epoch = req[q].epoch /\ leases[t].run = r
    BY <1>8 DEF Release, WriterAuthority
  <2>2. Finish
    BY <1>8, <1>1, <1>3, <2>1, LaunchConstants DEF Finish, ReqRow
  <2>3. Next /\ IInv'
    BY <2>2, NextIInv DEF Next, LaunchInv
  <2>4. /\ \A u \in Task \ {t} : leases'[u] = leases[u]
        /\ \A s \in Run : runs'[s].task = runs[s].task
        /\ \A s \in Run : runs[s].status # "absent" => runs'[s].status # "absent"
        /\ \A u \in Task : tasks'[u].base = tasks[u].base
        /\ \A u \in Task : tasks'[u].status # "absent" => tasks[u].status # "absent"
        /\ now' = now
    <3>1. req[q].outcome # "absent"
      BY <1>1 DEF ReqRow, LaunchOutcome
    <3> QED
      BY <3>1, <1>8, <1>1, <1>3 DEF Release, LeaseRow, RunRow, TaskRow
  <2>5. \A s \in Run \ {r}, u \in Task, e \in Nat :
          Owns(leases, now, s, u, e) => Owns(leases', now', s, u, e)
    BY <2>1, <2>4, <1>1 DEF Owns
  <2>6. LaunchTypeOK'
    BY <1>2, <1>5, <2>3 DEF LaunchTypeOK, IInv, LaunchInv
  <2>7. BasesKnown'
    BY <2>4 DEF LaunchInv, BasesKnown
  <2>8. \A p \in Req : InFlight(p)' => p # q /\ InFlight(p) /\ req'[p] = req[p]
    BY <1>5, <1>6 DEF InFlight
  <2>9. \A p \in Req : p # q /\ InFlight(p) => req[p].run \in Run \ {r}
    BY <1>2 DEF LaunchInv, LaunchTypeOK, Serving, SingleFlight, r
  <2>10. Serving' /\ SingleFlight'
    BY <2>8, <2>9, <1>2 DEF LaunchInv, Serving, SingleFlight
  <2>11. ClaimKept'
    <3> SUFFICES ASSUME NEW p \in Req, req'[p].pc \in PreSpawn
                 PROVE  /\ runs'[req'[p].run].status # "absent"
                        /\ runs'[req'[p].run].task = req'[p].task
                        /\ Owns(leases', now', req'[p].run, req'[p].task,
                                req'[p].claimedAt + LeaseTTL)
      BY DEF ClaimKept
    <3>1. p # q /\ req'[p] = req[p] /\ InFlight(p)
      BY <1>5, <1>6 DEF PreSpawn, InFlight
    <3>2. req[p].run \in Run \ {r} /\ req[p].task \in Task
      BY <3>1, <2>9 DEF LaunchInv, Serving
    <3>3. req[p].claimedAt + LeaseTTL \in Nat
      BY <1>1, LaunchConstants, StoreConstants DEF ReqRow
    <3>4. /\ runs[req[p].run].status # "absent" /\ runs[req[p].run].task = req[p].task
          /\ Owns(leases, now, req[p].run, req[p].task, req[p].claimedAt + LeaseTTL)
      BY <3>1 DEF LaunchInv, ClaimKept
    <3> QED
      BY <3>1, <3>2, <3>3, <3>4, <2>4, <2>5
  <2>12. WorkerKept'
    <3> SUFFICES ASSUME NEW s \in Run, worker[s].st = "spawned"
                 PROVE  /\ runs'[s].status # "absent" /\ runs'[s].task \in Task
                        /\ Owns(leases', now', s, runs'[s].task, worker[s].envExpires)
      BY <1>2 DEF WorkerKept
    <3>1. /\ s # r /\ runs[s].status # "absent" /\ runs[s].task \in Task
          /\ Owns(leases, now, s, runs[s].task, worker[s].envExpires)
      BY <1>4 DEF LaunchInv, WorkerKept
    <3>2. worker[s].envExpires \in Nat
      BY <1>1 DEF WorkerRow, WorkerState
    <3> QED
      BY <3>1, <3>2, <2>4, <2>5
  <2>13. SpawnedIsWaited'
    BY <2>8, <1>2 DEF LaunchInv, SpawnedIsWaited
  <2> QED
    BY <1>1, <1>2, <2>3, <2>6, <2>7, <2>10, <2>11, <2>12, <2>13 DEF LaunchInv
<1> QED
  BY <1>7, <1>8 DEF ReleaseStep, StoreUnchanged, r, t

\* A run that may start is served by no other thread and has no worker.
LEMMA ArriveInv ==
  ASSUME LaunchInv, NEW q \in Req, NEW t \in Task, NEW r \in Run, NEW w \in Worktree,
         Arrive(q, t, r, w)
  PROVE  LaunchInv'
<1> DEFINE row == [req[q] EXCEPT !.pc = "launching", !.task = t, !.run = r, !.ws = w]
<1>1. /\ req \in [Req -> ReqRow] /\ UNCHANGED vars
      /\ UNCHANGED <<usedKeys, quarantined, dirty, worker, crashes>>
      /\ active' = active \cup {r} /\ r \notin active /\ runs[r].status = "absent"
  BY DEF LaunchInv, LaunchTypeOK, Arrive, MayStart, StoreUnchanged
<1>2. req' = [req EXCEPT ![q] = row]
  BY <1>1 DEF Arrive
<1>3. row \in ReqRow /\ row.pc = "launching" /\ row.task = t /\ row.run = r /\ row.ws = w
  BY <1>1 DEF ReqRow, PC
<1> HIDE DEF row
<1>4. /\ req' \in [Req -> ReqRow] /\ req'[q] = row
      /\ \A p \in Req \ {q} : req'[p] = req[p]
  BY <1>1, <1>2, <1>3
<1>5. worker[r].st # "spawned"
  BY <1>1 DEF LaunchInv, WorkerKept
<1>6. IInv'
  BY <1>1, NextIInv DEF LaunchInv
<1>7. LaunchTypeOK'
  BY <1>1, <1>4, <1>6 DEF LaunchTypeOK, IInv, LaunchInv
<1>8. BasesKnown' /\ WorkerKept'
  BY <1>1 DEF LaunchInv, BasesKnown, WorkerKept, vars
<1>9. \A p \in Req : InFlight(p)' => p = q \/ (InFlight(p) /\ req'[p] = req[p])
  BY <1>4 DEF InFlight
<1>10. Serving'
  BY <1>1, <1>3, <1>4, <1>9 DEF LaunchInv, Serving
<1>11. SingleFlight'
  BY <1>1, <1>3, <1>4, <1>9 DEF LaunchInv, SingleFlight, Serving
<1>12. ClaimKept'
  <2>1. \A p \in Req : req'[p].pc \in PreSpawn => req'[p] = req[p]
    BY <1>3, <1>4 DEF PreSpawn
  <2> QED
    BY <2>1, <1>1 DEF LaunchInv, ClaimKept, vars
<1>13. SpawnedIsWaited'
  BY <1>1, <1>3, <1>4, <1>5, <1>9 DEF LaunchInv, SpawnedIsWaited
<1> QED
  BY <1>1, <1>6, <1>7, <1>8, <1>10, <1>11, <1>12, <1>13 DEF LaunchInv

\* What happens outside the threads, the store left alone: no worker becomes
\* unpaid, and no thread takes part.
LEMMA OutsideStep ==
  ASSUME LaunchInv, UNCHANGED <<vars, req, active, usedKeys, quarantined, crashes>>,
         dirty' \subseteq Worktree, worker' \in [Run -> WorkerRow],
         \A r \in Run : worker'[r].st = "spawned" => worker'[r] = worker[r],
         Placed(worker')
  PROVE  LaunchInv'
<1> USE DEF LaunchInv
<1>1. IInv' /\ BasesKnown'
  BY NextIInv DEF BasesKnown, vars
<1>2. LaunchTypeOK'
  BY <1>1 DEF LaunchTypeOK, IInv
<1>3. Serving' /\ SingleFlight'
  BY DEF Serving, SingleFlight, InFlight
<1>4. ClaimKept'
  BY DEF ClaimKept, vars
<1>5. WorkerKept'
  BY DEF WorkerKept, vars
<1>6. SpawnedIsWaited'
  BY <1>3 DEF SpawnedIsWaited, Serving, InFlight, LaunchTypeOK
<1> QED
  BY <1>1, <1>2, <1>3, <1>4, <1>5, <1>6

\* The worker's own steps and the owner's reset.
LEMMA WorkerInv ==
  ASSUME LaunchInv, NEW r \in Run,
         PaidCheck(r) \/ PaidStart(r) \/ StartContainer(r) \/ Work(r) \/ WorkerExit(r)
  PROVE  LaunchInv'
<1>1. /\ worker \in [Run -> WorkerRow] /\ Placed(worker) /\ dirty \subseteq Worktree /\ now \in Nat
  BY DEF LaunchInv, LaunchTypeOK, TypeOK
<1>2. CASE PaidCheck(r) \/ PaidStart(r)
  <2>1. /\ worker' \in [Run -> WorkerRow]
        /\ \A s \in Run : worker'[s].st = "spawned" => worker'[s] = worker[s]
        /\ Placed(worker')
    BY <1>1, <1>2 DEF PaidCheck, PaidStart, WorkerRow, WorkerState, Placed
  <2> QED
    BY <1>1, <1>2, <2>1, OutsideStep DEF PaidCheck, PaidStart, StoreUnchanged
<1>3. CASE StartContainer(r)
  <2>1. /\ worker' \in [Run -> WorkerRow]
        /\ \A s \in Run : worker'[s].st = "spawned" => worker'[s] = worker[s]
        /\ Placed(worker')
    <3>1. ContainerEnd \in Nat
      BY <1>1, LaunchConstants DEF ContainerEnd
    <3> QED
      <4> DEFINE row == [worker[r] EXCEPT !.st = "working", !.containerEnd = ContainerEnd]
      <4>1. worker' = [worker EXCEPT ![r] = row] /\ worker[r].st = "paid"
        BY <1>1, <1>3 DEF StartContainer
      <4>2. row \in WorkerRow /\ row.st = "working" /\ row.ws \in Worktree
        BY <3>1, <4>1, <1>1 DEF WorkerRow, WorkerState, Placed
      <4> HIDE DEF row
      <4> QED
        BY <4>1, <4>2, <1>1 DEF Placed
  <2> QED
    BY <1>1, <1>3, <2>1, OutsideStep DEF StartContainer, StoreUnchanged
<1>4. CASE Work(r)
  <2>1. worker[r].ws \in Worktree
    BY <1>1, <1>4 DEF Work, HasContainer, Placed
  <2> QED
    BY <1>1, <1>4, <2>1, OutsideStep DEF Work, StoreUnchanged
<1>5. CASE WorkerExit(r)
  <2>1. /\ worker' \in [Run -> WorkerRow]
        /\ \A s \in Run : worker'[s].st = "spawned" => worker'[s] = worker[s]
        /\ Placed(worker')
    <3>1. PICK rc \in {0, 1}, end \in {0, worker[r].containerEnd} :
            worker' = [worker EXCEPT ![r].st = "exited", ![r].rc = rc, ![r].containerEnd = end]
      BY <1>5 DEF WorkerExit
    <3> DEFINE row == [worker[r] EXCEPT !.st = "exited", !.rc = rc, !.containerEnd = end]
    <3>2. worker' = [worker EXCEPT ![r] = row] /\ Running(r)
      BY <3>1, <1>1, <1>5 DEF WorkerExit
    <3>3. row \in WorkerRow /\ row.st = "exited" /\ row.ws \in Worktree
      BY <3>1, <3>2, <1>1 DEF WorkerRow, WorkerState, Placed, Running
    <3> HIDE DEF row
    <3> QED
      BY <3>2, <3>3, <1>1 DEF Placed
  <2> QED
    BY <1>1, <1>5, <2>1, OutsideStep DEF WorkerExit, StoreUnchanged
<1> QED
  BY <1>2, <1>3, <1>4, <1>5

\* Time takes no lease from its owner before its expiry, nor does a new task.
LEMMA StoreStep ==
  ASSUME LaunchInv, UNCHANGED launchVars,
         (\E t \in Task, p \in Profile : CreateTask(t, p)) \/ Tick
  PROVE  LaunchInv' /\ [Next]_vars
<1>1. Next /\ IInv'
  BY NextIInv DEF Next, LaunchInv
<1>2. LaunchTypeOK'
  BY <1>1 DEF LaunchInv, LaunchTypeOK, IInv, launchVars
<1>3. /\ tasks \in [Task -> TaskRow] /\ now \in Nat
      /\ worker \in [Run -> WorkerRow] /\ req \in [Req -> ReqRow]
  BY DEF LaunchInv, LaunchTypeOK, TypeOK
<1>4. leases' = leases /\ runs' = runs /\ now' \in Nat /\ now' >= now
  BY <1>3 DEF CreateTask, Tick
<1>5. BasesKnown'
  <2>1. ASSUME NEW t \in Task, NEW p \in Profile, CreateTask(t, p)
        PROVE  BasesKnown'
    <3>1. p.base \in Commit
      BY StoreConstants DEF ProfileType
    <3>2. /\ tasks'[t].base = p.base
          /\ \A u \in Task \ {t} : tasks'[u] = tasks[u]
      BY <2>1, <1>3 DEF CreateTask
    <3> QED
      BY <3>1, <3>2 DEF LaunchInv, BasesKnown
  <2>2. CASE Tick
    BY <2>2 DEF Tick, LaunchInv, BasesKnown
  <2> QED
    BY <2>1, <2>2
<1>6. Serving' /\ SingleFlight' /\ SpawnedIsWaited' /\ Placed(worker)'
  BY DEF LaunchInv, Serving, SingleFlight, SpawnedIsWaited, InFlight, Placed, launchVars
<1>7. ASSUME NEW r, NEW t, NEW e \in Nat, Owns(leases, now, r, t, e)
      PROVE  Owns(leases', now', r, t, e)
  BY <1>3, <1>4, <1>7 DEF Owns
<1>8. ClaimKept'
  <2>1. \A q \in Req : req[q].claimedAt + LeaseTTL \in Nat
    BY <1>3, LaunchConstants, StoreConstants DEF ReqRow
  <2> QED
    BY <2>1, <1>4, <1>7 DEF LaunchInv, ClaimKept, launchVars
<1>9. WorkerKept'
  <2>1. \A r \in Run : worker[r].envExpires \in Nat
    BY <1>3 DEF WorkerRow, WorkerState
  <2> QED
    BY <2>1, <1>4, <1>7 DEF LaunchInv, WorkerKept, launchVars
<1> QED
  BY <1>1, <1>2, <1>5, <1>6, <1>8, <1>9 DEF LaunchInv

\* A crash ends every thread and leaves workers and leases to their expiry.
LEMMA CrashInv ==
  ASSUME LaunchInv, Crash
  PROVE  LaunchInv'
<1>1. /\ UNCHANGED <<vars, quarantined, dirty, worker>> /\ active' = {} /\ usedKeys' = {}
      /\ req' = [q \in Req |-> IF InFlight(q) THEN [req[q] EXCEPT !.pc = "done"] ELSE req[q]]
      /\ crashes < MaxCrashes /\ crashes' = crashes + 1
  BY DEF Crash, StoreUnchanged
<1>2. req' \in [Req -> ReqRow] /\ crashes' \in 0 .. MaxCrashes
  BY <1>1, LaunchConstants DEF LaunchInv, LaunchTypeOK, ReqRow, PC
<1>3. \A q \in Req : ~InFlight(q)' /\ req'[q].pc \notin PreSpawn
  BY <1>1 DEF LaunchInv, LaunchTypeOK, ReqRow, InFlight, PreSpawn
<1>4. IInv' /\ BasesKnown' /\ WorkerKept' /\ Placed(worker)'
  BY <1>1, NextIInv DEF LaunchInv, BasesKnown, WorkerKept, Placed, vars
<1>5. LaunchTypeOK'
  BY <1>1, <1>2, <1>4 DEF LaunchInv, LaunchTypeOK, IInv
<1> QED
  BY <1>3, <1>4, <1>5 DEF LaunchInv, Serving, SingleFlight, ClaimKept, SpawnedIsWaited

\* Every step of a launch keeps the invariant and is a step of the store or
\* leaves it alone.
LEMMA LaunchStepInv ==
  ASSUME LaunchInv, [LaunchNext]_allVars
  PROVE  LaunchInv' /\ [Next]_vars
<1>1. CASE Create
  BY <1>1, StoreStep DEF Create
<1>2. ASSUME NEW q \in Req, NEW t \in Task, NEW r \in Run, NEW w \in Worktree,
             Arrive(q, t, r, w)
      PROVE  LaunchInv' /\ UNCHANGED vars
  BY <1>2, ArriveInv DEF Arrive, StoreUnchanged
<1>3. ASSUME NEW q \in Req, ThreadStep(q) \/ CollectError(q)
      PROVE  LaunchInv' /\ [Next]_vars
  <2>1. CASE ClaimStep(q)
    BY <2>1, ClaimInv
  <2>2. CASE ReleaseStep(q)
    BY <2>2, ReleaseInv
  <2>3. CASE Spawn(q)
    BY <2>3, SpawnInv DEF Spawn, StoreUnchanged
  <2>4. CASE \/ Validate(q) \/ Admit(q) \/ Recheck(q) \/ Isolate(q) \/ IssueGuardLease(q)
             \/ Collect(q) \/ Timeout(q) \/ CleanAfterExit(q) \/ CleanAfterTimeout(q)
         \/ CleanAfterError(q) \/ CollectError(q)
             \/ Settle(q) \/ Quarantine(q) \/ Keep(q)
    <3>1. LaunchInv'
      BY <2>4, ThreadQuietInv
    <3>2. UNCHANGED vars
      BY <2>4 DEF Validate, Admit, Recheck, Isolate, IssueGuardLease, Collect, Timeout,
         CleanAfterExit, CleanAfterTimeout, CleanAfterError, CollectError, Settle, Quarantine,
         Keep, StoreUnchanged
    <3> QED
      BY <3>1, <3>2
  <2> QED
    BY <1>3, <2>1, <2>2, <2>3, <2>4 DEF ThreadStep
<1>4. ASSUME NEW r \in Run, PaidCheck(r) \/ PaidStart(r) \/ StartContainer(r) \/ Work(r) \/ WorkerExit(r)
      PROVE  LaunchInv' /\ UNCHANGED vars
  BY <1>4, WorkerInv DEF PaidCheck, PaidStart, StartContainer, Work, WorkerExit, StoreUnchanged
<1>5. ASSUME NEW w \in Worktree, ResetWorkspace(w)
      PROVE  LaunchInv' /\ UNCHANGED vars
  BY <1>5, OutsideStep DEF ResetWorkspace, StoreUnchanged, LaunchInv, LaunchTypeOK, Placed
<1>6. CASE Crash
  BY <1>6, CrashInv DEF Crash, StoreUnchanged
<1>7. CASE TickStep
  BY <1>7, StoreStep DEF TickStep
<1>8. CASE UNCHANGED allVars
  BY <1>8, OutsideStep DEF allVars, launchVars, LaunchInv, LaunchTypeOK, Placed
<1> QED
  BY <1>1, <1>2, <1>3, <1>4, <1>5, <1>6, <1>7, <1>8 DEF LaunchNext

\* The invariant holds in every reachable state.
LEMMA AlwaysLaunchInv == LaunchSpec => []LaunchInv
BY InitLaunchInv, LaunchStepInv, PTL DEF LaunchSpec

\* The launch drives the store only through its own operations: every behaviour
\* of launches, workers and crashes is one of the store, whose theorems
\* therefore hold of it.
THEOREM LaunchKeepsStore == LaunchSpec => Spec
<1>1. LaunchInit => Init
  BY DEF LaunchInit
<1> QED
  BY <1>1, AlwaysLaunchInv, LaunchStepInv, PTL DEF LaunchSpec, Spec

\* Type correctness of the requests, workers and markers.
THEOREM LaunchTypeCorrect == LaunchSpec => []LaunchTypeOK
<1>1. LaunchInv => LaunchTypeOK
  BY DEF LaunchInv
<1> QED
  BY <1>1, AlwaysLaunchInv, PTL

\* active_governed_runs admits one thread per run id, through crashes and
\* through claims that come long after the check.
THEOREM OneThreadPerRun == LaunchSpec => []SingleFlight
<1>1. LaunchInv => SingleFlight
  BY DEF LaunchInv
<1> QED
  BY <1>1, AlwaysLaunchInv, PTL

\* No delay and no crash lets a worker pass the check of its paid start without
\* its task's live lease: the envelope expires no later than the lease its run
\* was given, and until then the run owns it.
THEOREM CheckedWithAuthority == LaunchSpec => CheckedUnderLiveLease
<1>1. LaunchInv /\ [LaunchNext]_allVars =>
        [\A r \in Run : worker[r].st # "checked" /\ worker'[r].st = "checked" =>
           Live(runs[r].task) /\ leases[runs[r].task].run = r]_allVars
  <2> SUFFICES ASSUME LaunchInv, LaunchNext, NEW r \in Run,
                      worker[r].st # "checked", worker'[r].st = "checked"
               PROVE  Live(runs[r].task) /\ leases[runs[r].task].run = r
    OBVIOUS
  <2>1. /\ worker \in [Run -> WorkerRow] /\ now \in Nat /\ leases \in [Task -> LeaseRow]
    BY DEF LaunchInv, LaunchTypeOK, TypeOK
  <2>2. ASSUME NEW q \in Req, ThreadStep(q) PROVE FALSE
    <3>1. CASE UNCHANGED worker
      BY <3>1
    <3>2. ASSUME NEW w, worker' = RemoveContainers(w) PROVE FALSE
      BY <3>2, RemovedContainers
    <3>3. CASE Spawn(q)
      BY <3>1, <3>2, <3>3, <2>1 DEF Spawn
    <3>4. CASE Timeout(q)
      BY <3>4, <2>1 DEF Timeout
    <3>5. CASE CleanAfterExit(q) \/ CleanAfterTimeout(q) \/ CleanAfterError(q)
      BY <3>1, <3>2, <3>5 DEF CleanAfterExit, CleanAfterTimeout, CleanAfterError
    <3>6. CASE ~(Spawn(q) \/ Timeout(q) \/ CleanAfterExit(q) \/ CleanAfterTimeout(q) \/ CleanAfterError(q))
      BY <2>2, <3>1, <3>6 DEF ThreadStep, Validate, ClaimStep, Admit, Recheck, Isolate,
         IssueGuardLease, Collect, Settle, Quarantine, ReleaseStep, Keep
    <3> QED
      BY <3>3, <3>4, <3>5, <3>6
  <2>9. ASSUME NEW q \in Req, CollectError(q) PROVE FALSE
    BY <2>9, <2>1 DEF CollectError
  <2>3. ASSUME NEW s \in Run, PaidStart(s) \/ StartContainer(s) \/ Work(s) \/ WorkerExit(s) PROVE FALSE
    <3>1. CASE StartContainer(s)
      BY <3>1, <2>1 DEF StartContainer
    <3>4. CASE PaidStart(s)
      BY <3>4, <2>1 DEF PaidStart
    <3>2. CASE Work(s)
      BY <3>2 DEF Work
    <3>3. CASE WorkerExit(s)
      <4>1. PICK rc \in {0, 1}, end \in {0, worker[s].containerEnd} :
              worker' = [worker EXCEPT ![s].st = "exited", ![s].rc = rc, ![s].containerEnd = end]
        BY <3>3 DEF WorkerExit
      <4>2. worker'[s].st = "exited" /\ \A x \in Run \ {s} : worker'[x] = worker[x]
        BY <4>1, <2>1 DEF WorkerRow, WorkerState
      <4> QED
        BY <4>2
    <3> QED
      BY <2>3, <3>1, <3>2, <3>3, <3>4
  <2>4. ~(Create \/ Crash \/ TickStep)
    BY DEF Create, Crash, TickStep, launchVars
  <2>5. \A q \in Req, t \in Task, s \in Run, w \in Worktree : ~Arrive(q, t, s, w)
    BY DEF Arrive
  <2>6. \A w \in Worktree : ~ResetWorkspace(w)
    BY DEF ResetWorkspace
  <2>7. PICK s \in Run : PaidCheck(s)
    BY <2>2, <2>3, <2>4, <2>5, <2>6, <2>9 DEF LaunchNext
  <2>8. s = r /\ worker[r].st = "spawned" /\ now < worker[r].envExpires
    BY <2>1, <2>7 DEF PaidCheck
  <2>10. runs[r].task \in Task /\ Owns(leases, now, r, runs[r].task, worker[r].envExpires)
    BY <2>8 DEF LaunchInv, WorkerKept
  <2> QED
    BY <2>1, <2>8, <2>10 DEF Owns, Live, WorkerRow, WorkerState, LeaseRow
<1> QED
  BY <1>1, AlwaysLaunchInv, PTL DEF LaunchSpec, CheckedUnderLiveLease
-----------------------------------------------------------------------------
(* Worktrees.  A thread that claimed, and a worker that has paid, hold a   *)
(* lease on their worktree until the expiry the claim computed; what a     *)
(* thread proves before it releases stays true.                            *)

Claimed == PreSpawn \cup Finishing \cup {"waiting"}

\* Run r owns task t's lease on worktree w, which ends at e, or e has passed.
OwnsOn(rows, time, r, t, e, w) ==
  \/ time >= e
  \/ rows[t].run = r /\ ~rows[t].released /\ rows[t].expires = e /\ rows[t].worktree = w

\* Nothing of the run is left, and its failure is marked.
Settled(r) ==
  /\ ~Running(r) /\ ~HasContainer(r)
  /\ worker[r].rc = 0 \/ worker[r].st = "unread" \/ worker[r].ws \in quarantined

\* What a request's thread knows of its run.
ThreadOK(q) ==
  LET r == req[q].run IN
  /\ req[q].pc \in Claimed =>
       /\ runs[r].status = "running" /\ runs[r].task = req[q].task
       /\ OwnsOn(leases, now, r, req[q].task, req[q].claimedAt + LeaseTTL, req[q].ws)
       /\ now <= req[q].claimedAt + Startup + WorkerTimeout + Cleanup
  /\ req[q].pc \in PreSpawn =>
       now <= req[q].claimedAt + Startup /\ worker[r].st = "none"
  /\ req[q].pc \in {"waiting", "exited", "timedout", "unread", "cleaned"} => worker[r].ws = req[q].ws
  /\ req[q].pc \in {"exited", "cleaned"} => worker[r].st = "exited"
  /\ req[q].pc = "unread" => worker[r].st = "unread"
  /\ req[q].pc = "cleaned" => ~HasContainer(r)
  /\ req[q].pc = "releasing" => Settled(r)

\* What a run's worker relies on, and what its row tells.
WorkerOK(r) ==
  /\ runs[r].status = "absent" => worker[r].st = "none"
  /\ worker[r].st = "none" => worker[r].containerEnd = 0 /\ worker[r].rc = 0
  /\ worker[r].st \in {"spawned", "checked", "paid"} => now <= worker[r].envExpires - LeaseTTL + Startup
  /\ worker[r].st \in {"spawned", "checked"} \/ Writing(r) =>
       /\ runs[r].status # "absent" /\ runs[r].task \in Task
       /\ OwnsOn(leases, now, r, runs[r].task, worker[r].envExpires, worker[r].ws)
  /\ runs[r].status \in LaunchOutcome => Settled(r)

WorkInv == (\A q \in Req : ThreadOK(q)) /\ \A r \in Run : WorkerOK(r)

\* A thread past its readiness check finds no marker on its worktree.
CheckedInv ==
  \A q \in Req : req[q].pc \in {"rechecked", "isolated", "guarded"} => req[q].ws \notin quarantined


\* Types the steps below rely on.
LEMMA WorkTypes ==
  ASSUME LaunchInv
  PROVE  /\ now \in Nat /\ leases \in [Task -> LeaseRow] /\ runs \in [Run -> RunRow]
         /\ req \in [Req -> ReqRow] /\ worker \in [Run -> WorkerRow]
         /\ LeaseTTL \in Nat /\ LeaseTTL > 0 /\ Startup \in Nat /\ WorkerTimeout \in Nat /\ Cleanup \in Nat
         /\ ContainerLife \in Nat /\ "running" \notin LaunchOutcome /\ "absent" \notin LaunchOutcome
         /\ \A q \in Req : InFlight(q) =>
              req[q].run \in Run /\ req[q].task \in Task /\ req[q].ws \in Worktree
         /\ \A q \in Req : req[q].claimedAt \in Nat /\ req[q].pc \in PC
         /\ \A r \in Run : worker[r].envExpires \in Nat /\ worker[r].containerEnd \in Nat
<1>1. /\ now \in Nat /\ leases \in [Task -> LeaseRow] /\ runs \in [Run -> RunRow]
      /\ req \in [Req -> ReqRow] /\ worker \in [Run -> WorkerRow]
  BY DEF LaunchInv, LaunchTypeOK, TypeOK
<1>2. \A q \in Req : InFlight(q) => req[q].run \in Run /\ req[q].task \in Task /\ req[q].ws \in Worktree
  BY DEF LaunchInv, LaunchTypeOK, Serving
<1>3. /\ \A q \in Req : req[q].claimedAt \in Nat /\ req[q].pc \in PC
      /\ \A r \in Run : worker[r].envExpires \in Nat /\ worker[r].containerEnd \in Nat
  BY <1>1 DEF ReqRow, WorkerRow, WorkerState
<1> QED
  BY <1>1, <1>2, <1>3, LaunchConstants, StoreConstants DEF LaunchOutcome

\* A claimed thread is in flight.
LEMMA ClaimedInFlight ==
  ASSUME NEW q \in Req, req[q].pc \in Claimed
  PROVE  InFlight(q)
BY DEF Claimed, PreSpawn, Finishing, InFlight

\* How a worker may change under a thread that is not its spawner.
Tame(r) ==
  /\ worker'[r].ws = worker[r].ws
  /\ ~Running(r) => worker'[r].st = worker[r].st /\ worker'[r].rc = worker[r].rc
  /\ now < worker'[r].containerEnd => HasContainer(r) \/ worker[r].st = "paid"

\* A thread that does not move, its store and marker untouched.
LEMMA ThreadFrame ==
  ASSUME LaunchInv, NEW q \in Req, ThreadOK(q), req'[q] = req[q], UNCHANGED vars,
         quarantined \subseteq quarantined', InFlight(q) => Tame(req[q].run)
  PROVE  ThreadOK(q)'
<1>1. CASE ~InFlight(q)
  BY <1>1 DEF ThreadOK, Claimed, PreSpawn, Finishing, InFlight
<1>2. CASE InFlight(q)
  <2>1. PICK r \in Run : r = req[q].run
    BY <1>2, WorkTypes
  <2>2. Tame(r)
    BY <1>2, <2>1 DEF Tame, Running, HasContainer
  <2> QED
    BY <2>1, <2>2 DEF ThreadOK, Tame, Settled, Running, HasContainer, OwnsOn, Claimed, PreSpawn, vars
<1> QED
  BY <1>1, <1>2

\* A thread without a claim has nothing to keep.
LEMMA ThreadFree ==
  ASSUME NEW q \in Req, req'[q].pc \notin Claimed
  PROVE  ThreadOK(q)'
BY DEF ThreadOK, Claimed, PreSpawn, Finishing

\* A thread with a claim that moves, the store untouched.
LEMMA ThreadMoves ==
  ASSUME LaunchInv, NEW q \in Req, ThreadOK(q), req[q].pc \in Claimed, NEW r \in Run, r = req[q].run,
         NEW pc \in Claimed, req'[q].pc = pc, UNCHANGED vars,
         req'[q].task = req[q].task, req'[q].run = r, req'[q].ws = req[q].ws,
         req'[q].claimedAt = req[q].claimedAt,
         pc \in PreSpawn => req[q].pc \in PreSpawn /\ worker'[r].st = "none",
         pc \in {"waiting", "exited", "timedout", "unread", "cleaned"} => worker'[r].ws = req[q].ws,
         pc \in {"exited", "cleaned"} => worker'[r].st = "exited",
         pc = "unread" => worker'[r].st = "unread",
         pc = "cleaned" => ~(now < worker'[r].containerEnd),
         pc = "releasing" => /\ worker'[r].st \notin {"spawned", "checked", "paid", "working"}
                             /\ ~(now < worker'[r].containerEnd)
                             /\ worker'[r].rc = 0 \/ worker'[r].st = "unread" \/ worker'[r].ws \in quarantined'
  PROVE  ThreadOK(q)'
BY DEF ThreadOK, Settled, Running, HasContainer, OwnsOn, vars

\* A worker that does not move, but for its container.
LEMMA WorkerFrame ==
  ASSUME LaunchInv, NEW r \in Run, WorkerOK(r), UNCHANGED vars, quarantined \subseteq quarantined',
         worker'[r].st = worker[r].st, worker'[r].ws = worker[r].ws, worker'[r].rc = worker[r].rc,
         worker'[r].envExpires = worker[r].envExpires,
         worker'[r].containerEnd \in {0, worker[r].containerEnd}
  PROVE  WorkerOK(r)'
<1>1. now \in Nat
  BY WorkTypes
<1>2. HasContainer(r)' => HasContainer(r) /\ worker'[r].containerEnd = worker[r].containerEnd
  BY <1>1 DEF HasContainer, vars
<1> QED
  BY <1>1, <1>2 DEF WorkerOK, Settled, Running, Writing, OwnsOn, vars

\* What is removed is the containers and nothing else.
LEMMA ContainersRemoved ==
  ASSUME LaunchInv, NEW w, NEW r \in Run
  PROVE  LET new == RemoveContainers(w)[r] IN
         /\ new.st = worker[r].st /\ new.ws = worker[r].ws /\ new.rc = worker[r].rc
         /\ new.envExpires = worker[r].envExpires
         /\ new.containerEnd \in {0, worker[r].containerEnd}
         /\ worker[r].ws = w => ~(now < new.containerEnd)
<1>1. worker[r] \in WorkerRow /\ now \in Nat
  BY WorkTypes
<1>2. CASE r \in ContainersOn(w)
  BY <1>1, <1>2 DEF RemoveContainers, WorkerRow, WorkerState
<1>3. CASE r \notin ContainersOn(w)
  BY <1>1, <1>3 DEF RemoveContainers, ContainersOn, HasContainer
<1> QED
  BY <1>2, <1>3

\* A worker's row but for its container, which may be removed.
Spared(r) ==
  /\ worker'[r].st = worker[r].st /\ worker'[r].ws = worker[r].ws /\ worker'[r].rc = worker[r].rc
  /\ worker'[r].envExpires = worker[r].envExpires
  /\ worker'[r].containerEnd \in {0, worker[r].containerEnd}

\* A step of one thread that leaves the store alone and spares other workers.
LEMMA ThreadStepWork ==
  ASSUME LaunchInv, WorkInv, NEW q \in Req, InFlight(q), UNCHANGED vars, quarantined \subseteq quarantined',
         \A p \in Req \ {q} : req'[p] = req[p],
         NEW r \in Run, r = req[q].run, \A s \in Run \ {r} : Spared(s),
         ThreadOK(q)', WorkerOK(r)'
  PROVE  WorkInv'
<1>1. ASSUME NEW p \in Req \ {q} PROVE ThreadOK(p)'
  <2>1. req'[p] = req[p] /\ ThreadOK(p)
    BY DEF WorkInv
  <2>2. CASE InFlight(p)
    <3>1. PICK s \in Run : s = req[p].run
      BY <2>2, WorkTypes
    <3>2. s # r
      BY <2>2, <3>1 DEF LaunchInv, SingleFlight
    <3>3. Tame(s)
      BY <3>2, WorkTypes DEF Spared, Tame, HasContainer
    <3>4. Tame(req[p].run)
      BY <3>1, <3>3 DEF Tame, Running, HasContainer
    <3> QED
      BY <2>1, <3>4, ThreadFrame
  <2>3. CASE ~InFlight(p)
    BY <2>1, <2>3, ThreadFrame
  <2> QED
    BY <2>2, <2>3
<1>2. ASSUME NEW s \in Run \ {r} PROVE WorkerOK(s)'
  <2>1. WorkerOK(s) /\ Spared(s)
    BY DEF WorkInv
  <2> QED
    BY <2>1, WorkerFrame DEF Spared
<1>3. \A p \in Req : ThreadOK(p)'
  BY <1>1
<1>4. \A s \in Run : WorkerOK(s)'
  BY <1>2
<1> QED
  BY <1>3, <1>4 DEF WorkInv

\* The thread's steps from its claim on that start no worker and neither
\* settle nor time out: with pc' next, worker spared.
LEMMA ThreadGoesOn ==
  ASSUME LaunchInv, WorkInv, NEW q \in Req, InFlight(q), UNCHANGED vars, quarantined \subseteq quarantined',
         NEW pc \in PC, Goto(q, pc), \A s \in Run : Spared(s),
         NEW r \in Run, r = req[q].run,
         pc \in Claimed => req[q].pc \in Claimed,
         pc \in PreSpawn => req[q].pc \in PreSpawn,
         pc \in {"waiting", "exited", "timedout", "unread", "cleaned"} => worker[r].ws = req[q].ws,
         pc \in {"exited", "cleaned"} => worker[r].st = "exited",
         pc = "unread" => worker[r].st = "unread",
         pc = "cleaned" => ~(now < worker'[r].containerEnd),
         pc = "releasing" => \/ req[q].pc \in PreSpawn
                             \/ /\ worker[r].st \notin {"spawned", "checked", "paid", "working"}
                                /\ ~(now < worker'[r].containerEnd)
                                /\ \/ worker[r].rc = 0 \/ worker[r].st = "unread"
                                   \/ worker[r].ws \in quarantined'
  PROVE  WorkInv'
<1>1. /\ \A p \in Req \ {q} : req'[p] = req[p]
      /\ req'[q] = [req[q] EXCEPT !.pc = pc] /\ req' \in [Req -> ReqRow]
  BY GotoStep
<1>2. /\ req'[q].task = req[q].task /\ req'[q].run = r /\ req'[q].ws = req[q].ws
      /\ req'[q].claimedAt = req[q].claimedAt /\ req'[q].pc = pc
  BY <1>1, WorkTypes DEF ReqRow
<1>3. WorkerOK(r) /\ ThreadOK(q) /\ Spared(r)
  BY DEF WorkInv
<1>4. WorkerOK(r)'
  BY <1>3, WorkerFrame DEF Spared
<1>5. CASE pc \notin Claimed
  BY <1>1, <1>2, <1>4, <1>5, ThreadFree, ThreadStepWork
<1>6. CASE pc \in Claimed
  <2>1. req[q].pc \in PreSpawn => worker[r].st = "none" /\ worker[r].containerEnd = 0 /\ worker[r].rc = 0
    BY <1>3 DEF ThreadOK, WorkerOK
  <2>2. now \in Nat /\ worker'[r].containerEnd \in {0, worker[r].containerEnd}
    BY <1>3, WorkTypes DEF Spared
  <2>3. pc = "releasing" => /\ worker'[r].st \notin {"spawned", "checked", "paid", "working"}
                            /\ ~(now < worker'[r].containerEnd)
                            /\ worker'[r].rc = 0 \/ worker'[r].st = "unread" \/ worker'[r].ws \in quarantined'
    BY <1>3, <2>1, <2>2 DEF Spared, HasContainer
  <2>4. pc \in PreSpawn => req[q].pc \in PreSpawn /\ worker'[r].st = "none"
    BY <1>3, <2>1 DEF Spared
  <2>5. /\ pc \in {"waiting", "exited", "timedout", "unread", "cleaned"} => worker'[r].ws = req[q].ws
        /\ pc \in {"exited", "cleaned"} => worker'[r].st = "exited"
        /\ pc = "unread" => worker'[r].st = "unread"
    BY <1>3 DEF Spared
  <2>6. ThreadOK(q)'
    BY <1>2, <1>3, <1>6, <2>3, <2>4, <2>5, ThreadMoves
  <2> QED
    BY <1>1, <1>4, <2>6, ThreadStepWork
<1> QED
  BY <1>5, <1>6

\* The thread's steps that leave the store alone and start or stop no worker.
LEMMA ThreadWork ==
  ASSUME LaunchInv, WorkInv, NEW q \in Req,
         \/ Validate(q) \/ Admit(q) \/ Recheck(q) \/ Isolate(q) \/ IssueGuardLease(q)
         \/ Collect(q) \/ CleanAfterExit(q) \/ CleanAfterTimeout(q) \/ CleanAfterError(q)
         \/ Settle(q) \/ Quarantine(q) \/ Keep(q)
  PROVE  WorkInv'
<1>1. InFlight(q)
  BY DEF InFlight, Validate, Admit, Recheck, Isolate, IssueGuardLease, Collect,
     CleanAfterExit, CleanAfterTimeout, CleanAfterError, Settle, Quarantine, Keep
<1>2. PICK r \in Run : r = req[q].run
  BY <1>1, WorkTypes
<1>3. ThreadOK(q) /\ WorkerOK(r)
  BY DEF WorkInv
<1>4. UNCHANGED worker => \A s \in Run : Spared(s)
  BY DEF Spared
<1>5. \A w : worker' = RemoveContainers(w) =>
        /\ \A s \in Run : Spared(s)
        /\ worker[r].ws = w => ~(now < worker'[r].containerEnd)
  BY ContainersRemoved DEF Spared
<1>6. ASSUME NEW pc \in PC, Goto(q, pc), UNCHANGED <<vars, quarantined, worker>>,
             pc \in Claimed => req[q].pc \in Claimed,
             pc \in PreSpawn \cup {"releasing"} => req[q].pc \in PreSpawn,
             pc \notin {"waiting", "exited", "timedout", "unread", "cleaned"}
      PROVE  WorkInv'
  BY <1>1, <1>2, <1>4, <1>6, ThreadGoesOn
<1>7. CASE Validate(q)
  BY <1>6, <1>7 DEF Validate, End, PC, PreSpawn, Finishing, Claimed, StoreUnchanged
<1>8. CASE Admit(q)
  BY <1>6, <1>8 DEF Admit, End, PC, PreSpawn, Finishing, Claimed, StoreUnchanged
<1>9. CASE Recheck(q) \/ Isolate(q) \/ IssueGuardLease(q)
  BY <1>6, <1>9 DEF Recheck, Isolate, IssueGuardLease, PC, PreSpawn, Finishing, Claimed, StoreUnchanged
<1>10. CASE Keep(q)
  BY <1>6, <1>10 DEF Keep, End, PC, PreSpawn, Finishing, Claimed, StoreUnchanged
<1>11. CASE Collect(q)
  <2>1. /\ req[q].pc = "waiting" /\ worker[r].st = "exited" /\ worker[r].ws = req[q].ws
        /\ Goto(q, "exited") /\ UNCHANGED <<vars, quarantined, worker>>
    BY <1>2, <1>3, <1>11 DEF Collect, StoreUnchanged, ThreadOK
  <2> QED
    BY <1>1, <1>2, <1>4, <2>1, ThreadGoesOn DEF PC, PreSpawn, Finishing, Claimed
<1>12. CASE CleanAfterExit(q)
  <2>1. /\ req[q].pc = "exited" /\ worker[r].st = "exited" /\ worker[r].ws = req[q].ws
        /\ UNCHANGED <<vars, quarantined>>
    BY <1>2, <1>3, <1>12 DEF CleanAfterExit, StoreUnchanged, ThreadOK
  <2>2. CASE worker' = RemoveContainers(req[q].ws) /\ Goto(q, "cleaned")
    <3>1. (\A s \in Run : Spared(s)) /\ ~(now < worker'[r].containerEnd)
      BY <1>5, <2>1, <2>2
    <3> QED
      BY <1>1, <1>2, <2>1, <2>2, <3>1, ThreadGoesOn DEF PC, PreSpawn, Finishing, Claimed
  <2>3. CASE UNCHANGED worker /\ Goto(q, "uncertain")
    BY <1>1, <1>2, <1>4, <2>1, <2>3, ThreadGoesOn DEF PC, PreSpawn, Finishing, Claimed
  <2> QED
    BY <1>12, <2>2, <2>3 DEF CleanAfterExit, AfterCleanup
<1>13. CASE CleanAfterTimeout(q)
  <2>1. /\ req[q].pc = "timedout" /\ Goto(q, "uncertain") /\ UNCHANGED <<vars, quarantined>>
        /\ worker' = worker \/ worker' = RemoveContainers(req[q].ws)
    BY <1>13 DEF CleanAfterTimeout, StoreUnchanged
  <2>2. \A s \in Run : Spared(s)
    BY <1>4, <1>5, <2>1
  <2> QED
    BY <1>1, <1>2, <2>1, <2>2, ThreadGoesOn DEF PC, PreSpawn, Finishing, Claimed
<1>16. CASE CleanAfterError(q)
  <2>1. /\ req[q].pc = "unread" /\ worker[r].st = "unread" /\ worker[r].ws = req[q].ws
        /\ UNCHANGED <<vars, quarantined>>
    BY <1>2, <1>3, <1>16 DEF CleanAfterError, StoreUnchanged, ThreadOK
  <2>2. CASE worker' = RemoveContainers(req[q].ws) /\ Goto(q, "releasing")
    <3>1. (\A s \in Run : Spared(s)) /\ ~(now < worker'[r].containerEnd)
      BY <1>5, <2>1, <2>2
    <3> QED
      BY <1>1, <1>2, <2>1, <2>2, <3>1, ThreadGoesOn DEF PC, PreSpawn, Finishing, Claimed
  <2>3. CASE UNCHANGED worker /\ Goto(q, "uncertain")
    BY <1>1, <1>2, <1>4, <2>1, <2>3, ThreadGoesOn DEF PC, PreSpawn, Finishing, Claimed
  <2> QED
    BY <1>16, <2>2, <2>3 DEF CleanAfterError
<1>14. CASE Quarantine(q)
  <2>1. /\ req[q].pc = "uncertain" /\ Goto(q, "keeping") /\ UNCHANGED <<vars, worker>>
        /\ quarantined \subseteq quarantined'
    BY <1>14 DEF Quarantine, StoreUnchanged
  <2> QED
    BY <1>1, <1>2, <1>4, <2>1, ThreadGoesOn DEF PC, PreSpawn, Finishing, Claimed
<1>15. CASE Settle(q)
  <2>1. /\ req[q].pc = "cleaned" /\ UNCHANGED <<vars, worker>> /\ quarantined \subseteq quarantined'
        /\ worker[r].st = "exited" /\ worker[r].ws = req[q].ws /\ ~HasContainer(r)
        /\ req[q].pc \in Claimed /\ req \in [Req -> ReqRow]
    BY <1>2, <1>3, <1>15, WorkTypes DEF Settle, StoreUnchanged, ThreadOK, Claimed, Finishing
  <2>2. CASE worker[r].rc = 0
    <3>1. PICK o \in LaunchOutcome : req' = [req EXCEPT ![q].pc = "releasing", ![q].outcome = o]
      BY <1>2, <1>15, <2>2, LaunchConstants DEF Settle
    <3>2. req' = [req EXCEPT ![q] = [req[q] EXCEPT !.pc = "releasing", !.outcome = o]]
      BY <3>1, <2>1
    <3>3. LET row == [req[q] EXCEPT !.pc = "releasing", !.outcome = o] IN
          /\ row.task = req[q].task /\ row.run = r /\ row.ws = req[q].ws
          /\ row.claimedAt = req[q].claimedAt /\ row.pc = "releasing"
      BY <1>2, <2>1 DEF ReqRow
    <3>4. /\ req'[q].task = req[q].task /\ req'[q].run = r /\ req'[q].ws = req[q].ws
          /\ req'[q].claimedAt = req[q].claimedAt /\ req'[q].pc = "releasing"
          /\ \A p \in Req \ {q} : req'[p] = req[p]
      BY <2>1, <3>2, <3>3
    <3>5. /\ "releasing" \in Claimed /\ "releasing" \notin PreSpawn
          /\ worker'[r].st \notin {"spawned", "checked", "paid", "working"}
          /\ ~(now < worker'[r].containerEnd) /\ worker'[r].rc = 0
      BY <2>1, <2>2 DEF Claimed, Finishing, PreSpawn, HasContainer
    <3>6. ThreadOK(q)'
      BY <1>2, <1>3, <2>1, <3>4, <3>5, ThreadMoves
    <3>7. WorkerOK(r)'
      BY <1>3, <2>1, WorkerFrame
    <3> QED
      BY <1>1, <1>2, <1>4, <2>1, <3>4, <3>6, <3>7, ThreadStepWork
  <2>3. CASE worker[r].rc # 0
    <3>1. \/ quarantined' = quarantined \cup {req[q].ws} /\ Goto(q, "releasing")
          \/ UNCHANGED quarantined /\ Goto(q, "keeping")
      BY <1>2, <1>15, <2>3 DEF Settle
    <3>2. CASE quarantined' = quarantined \cup {req[q].ws} /\ Goto(q, "releasing")
      <4>1. worker[r].ws \in quarantined'
        BY <2>1, <3>2
      <4>2. ~(now < worker'[r].containerEnd) /\ worker'[r].st = "exited" /\ \A s \in Run : Spared(s)
        BY <1>4, <2>1 DEF HasContainer
      <4> QED
        BY <1>1, <1>2, <2>1, <3>2, <4>1, <4>2, ThreadGoesOn DEF PC, PreSpawn, Finishing, Claimed
    <3>3. CASE UNCHANGED quarantined /\ Goto(q, "keeping")
      BY <1>1, <1>2, <1>4, <2>1, <3>3, ThreadGoesOn DEF PC, PreSpawn, Finishing, Claimed
    <3> QED
      BY <3>1, <3>2, <3>3
  <2> QED
    BY <2>2, <2>3
<1> QED
  BY <1>7, <1>8, <1>9, <1>10, <1>11, <1>12, <1>13, <1>14, <1>15, <1>16

\* A spawn gives the worker the lease its thread holds.
LEMMA SpawnWork ==
  ASSUME LaunchInv, WorkInv, NEW q \in Req, Spawn(q)
  PROVE  WorkInv'
<1>1. InFlight(q) /\ req[q].pc = "guarded" /\ UNCHANGED <<vars, quarantined>>
  BY DEF InFlight, Spawn, StoreUnchanged
<1>2. PICK r \in Run : r = req[q].run
  BY <1>1, WorkTypes
<1>3. ThreadOK(q) /\ WorkerOK(r) /\ req[q].pc \in PreSpawn /\ req[q].pc \in Claimed
  BY <1>1 DEF WorkInv, PreSpawn, Claimed
<1>4. ASSUME NEW pc \in {"releasing", "uncertain"}, Goto(q, pc),
             worker' \in {worker, RemoveContainers(req[q].ws)}
      PROVE  WorkInv'
  <2>1. \A s \in Run : Spared(s)
    BY <1>4, ContainersRemoved DEF Spared
  <2>2. pc \in PC /\ pc \notin PreSpawn /\ pc \notin {"waiting", "exited", "timedout", "unread", "cleaned"}
    BY DEF PC, Finishing, PreSpawn
  <2> QED
    BY <1>1, <1>2, <1>3, <1>4, <2>1, <2>2, ThreadGoesOn
<1>5. ASSUME worker' = [worker EXCEPT ![r] =
               [st |-> "spawned", ws |-> req[q].ws, envExpires |-> req[q].claimedAt + LeaseTTL,
                deadline |-> now + WorkerTimeout, containerEnd |-> 0, rc |-> 0]],
             Goto(q, "waiting")
      PROVE  WorkInv'
  <2>1. /\ worker'[r].st = "spawned" /\ worker'[r].ws = req[q].ws /\ worker'[r].containerEnd = 0
        /\ worker'[r].envExpires = req[q].claimedAt + LeaseTTL
        /\ \A s \in Run \ {r} : worker'[s] = worker[s]
    BY <1>2, <1>5, WorkTypes
  <2>2. /\ \A p \in Req \ {q} : req'[p] = req[p]
        /\ req'[q] = [req[q] EXCEPT !.pc = "waiting"]
    BY <1>5, GotoStep DEF PC
  <2>3. /\ req'[q].task = req[q].task /\ req'[q].run = r /\ req'[q].ws = req[q].ws
        /\ req'[q].claimedAt = req[q].claimedAt /\ req'[q].pc = "waiting"
    BY <1>2, <2>2, WorkTypes DEF ReqRow
  <2>4. "waiting" \in Claimed /\ "waiting" \notin PreSpawn
    BY DEF Claimed, PreSpawn
  <2>5. ThreadOK(q)'
    BY <1>1, <1>2, <1>3, <2>1, <2>3, <2>4, ThreadMoves
  <2>6. WorkerOK(r)'
    <3>1. /\ runs[r].status = "running" /\ runs[r].task = req[q].task /\ req[q].task \in Task
          /\ OwnsOn(leases, now, r, req[q].task, req[q].claimedAt + LeaseTTL, req[q].ws)
          /\ now <= req[q].claimedAt + Startup
      BY <1>1, <1>2, <1>3, WorkTypes DEF ThreadOK
    <3>2. /\ now \in Nat /\ LeaseTTL \in Nat /\ Startup \in Nat /\ req[q].claimedAt \in Nat
          /\ "running" \notin LaunchOutcome
      BY WorkTypes
    <3>3. now <= (req[q].claimedAt + LeaseTTL) - LeaseTTL + Startup
      BY <3>1, <3>2
    <3>4. /\ runs' = runs /\ leases' = leases /\ now' = now
      BY <1>1 DEF vars
    <3>5. ~HasContainer(r)' /\ now' <= worker'[r].envExpires - LeaseTTL + Startup
      BY <2>1, <3>2, <3>3, <3>4 DEF HasContainer
    <3>6. OwnsOn(leases', now', r, runs'[r].task, worker'[r].envExpires, worker'[r].ws)
      BY <2>1, <3>1, <3>4
    <3> QED
      BY <2>1, <3>1, <3>2, <3>4, <3>5, <3>6 DEF WorkerOK
  <2>7. \A s \in Run \ {r} : Spared(s)
    BY <2>1 DEF Spared
  <2> QED
    BY <1>1, <1>2, <2>2, <2>5, <2>6, <2>7, ThreadStepWork
<1> QED
  BY <1>2, <1>4, <1>5 DEF Spawn

\* A worker that leaves its process behind keeps what its container relies on.
LEMMA WorkerStops ==
  ASSUME LaunchInv, NEW r \in Run, WorkerOK(r), UNCHANGED vars,
         runs[r].status # "absent", runs[r].status \notin LaunchOutcome,
         worker'[r].st \in {"exited", "killed", "unread"}, worker'[r].ws = worker[r].ws,
         worker'[r].envExpires = worker[r].envExpires,
         worker'[r].containerEnd \in {0, worker[r].containerEnd}
  PROVE  WorkerOK(r)'
<1>1. now \in Nat
  BY WorkTypes
<1>2. HasContainer(r)' => HasContainer(r) /\ worker'[r].containerEnd = worker[r].containerEnd
  BY <1>1 DEF HasContainer, vars
<1> QED
  BY <1>1, <1>2 DEF WorkerOK, Writing, OwnsOn, vars

\* A timeout kills the process; the container stays.
LEMMA TimeoutWork ==
  ASSUME LaunchInv, WorkInv, NEW q \in Req, Timeout(q)
  PROVE  WorkInv'
<1>1. InFlight(q) /\ req[q].pc = "waiting" /\ UNCHANGED <<vars, quarantined>> /\ Goto(q, "timedout")
  BY DEF InFlight, Timeout, StoreUnchanged
<1>2. PICK r \in Run : r = req[q].run
  BY <1>1, WorkTypes
<1>3. ThreadOK(q) /\ WorkerOK(r) /\ req[q].pc \in Claimed /\ worker[r].ws = req[q].ws
  BY <1>1, <1>2 DEF WorkInv, Claimed, ThreadOK
<1>4. Running(r) /\ worker' = [worker EXCEPT ![r] = [worker[r] EXCEPT !.st = "killed", !.rc = 1]]
  BY <1>2, WorkTypes DEF Timeout, Running
<1>5. LET row == [worker[r] EXCEPT !.st = "killed", !.rc = 1] IN
      /\ row.st = "killed" /\ row.ws = worker[r].ws /\ row.envExpires = worker[r].envExpires
      /\ row.containerEnd = worker[r].containerEnd
  BY WorkTypes DEF WorkerRow, WorkerState
<1>6. /\ worker'[r].st = "killed" /\ worker'[r].ws = worker[r].ws
      /\ worker'[r].envExpires = worker[r].envExpires
      /\ worker'[r].containerEnd = worker[r].containerEnd
      /\ \A s \in Run \ {r} : worker'[s] = worker[s]
  BY <1>4, <1>5, WorkTypes
<1>7. WorkerOK(r)'
  <2>1. runs[r].status # "absent" /\ runs[r].status \notin LaunchOutcome
    BY <1>3, <1>4 DEF WorkerOK, Running, Settled
  <2> QED
    BY <1>1, <1>3, <1>6, <2>1, WorkerStops
<1>8. /\ \A p \in Req \ {q} : req'[p] = req[p]
      /\ req'[q] = [req[q] EXCEPT !.pc = "timedout"]
  BY <1>1, GotoStep DEF PC, Finishing
<1>9. /\ req'[q].task = req[q].task /\ req'[q].run = r /\ req'[q].ws = req[q].ws
      /\ req'[q].claimedAt = req[q].claimedAt /\ req'[q].pc = "timedout"
  BY <1>2, <1>8, WorkTypes DEF ReqRow
<1>10. "timedout" \in Claimed /\ "timedout" \notin PreSpawn
  BY DEF Claimed, PreSpawn, Finishing
<1>11. ThreadOK(q)'
  BY <1>1, <1>2, <1>3, <1>6, <1>9, <1>10, ThreadMoves
<1>12. \A s \in Run \ {r} : Spared(s)
  BY <1>6 DEF Spared
<1> QED
  BY <1>1, <1>2, <1>7, <1>8, <1>11, <1>12, ThreadStepWork

\* An error after the spawn kills the process, if it lives; the container stays.
LEMMA ErrorWork ==
  ASSUME LaunchInv, WorkInv, NEW q \in Req, CollectError(q)
  PROVE  WorkInv'
<1>1. InFlight(q) /\ req[q].pc = "waiting" /\ UNCHANGED <<vars, quarantined>> /\ Goto(q, "unread")
  BY DEF InFlight, CollectError, StoreUnchanged
<1>2. PICK r \in Run : r = req[q].run
  BY <1>1, WorkTypes
<1>3. ThreadOK(q) /\ WorkerOK(r) /\ req[q].pc \in Claimed /\ worker[r].ws = req[q].ws
  BY <1>1, <1>2 DEF WorkInv, Claimed, ThreadOK
<1> DEFINE rc == IF Running(r) THEN 1 ELSE worker[r].rc
<1>4. worker' = [worker EXCEPT ![r] = [worker[r] EXCEPT !.st = "unread", !.rc = rc]]
  BY <1>2, WorkTypes DEF CollectError
<1>5. LET row == [worker[r] EXCEPT !.st = "unread", !.rc = rc] IN
      /\ row.st = "unread" /\ row.ws = worker[r].ws /\ row.envExpires = worker[r].envExpires
      /\ row.containerEnd = worker[r].containerEnd
  BY WorkTypes DEF WorkerRow, WorkerState
<1>6. /\ worker'[r].st = "unread" /\ worker'[r].ws = worker[r].ws
      /\ worker'[r].envExpires = worker[r].envExpires
      /\ worker'[r].containerEnd = worker[r].containerEnd
      /\ \A s \in Run \ {r} : worker'[s] = worker[s]
  BY <1>4, <1>5, WorkTypes
<1>7. WorkerOK(r)'
  <2>1. runs[r].status # "absent" /\ runs[r].status \notin LaunchOutcome
    BY <1>1, <1>2, <1>3, WorkTypes DEF ThreadOK
  <2> QED
    BY <1>1, <1>3, <1>6, <2>1, WorkerStops
<1>8. /\ \A p \in Req \ {q} : req'[p] = req[p]
      /\ req'[q] = [req[q] EXCEPT !.pc = "unread"]
  BY <1>1, GotoStep DEF PC, Finishing
<1>9. /\ req'[q].task = req[q].task /\ req'[q].run = r /\ req'[q].ws = req[q].ws
      /\ req'[q].claimedAt = req[q].claimedAt /\ req'[q].pc = "unread"
  BY <1>2, <1>8, WorkTypes DEF ReqRow
<1>10. "unread" \in Claimed /\ "unread" \notin PreSpawn
  BY DEF Claimed, PreSpawn, Finishing
<1>11. ThreadOK(q)'
  BY <1>1, <1>2, <1>3, <1>6, <1>9, <1>10, ThreadMoves
<1>12. \A s \in Run \ {r} : Spared(s)
  BY <1>6 DEF Spared
<1> QED
  BY <1>1, <1>2, <1>7, <1>8, <1>11, <1>12, ThreadStepWork

\* The worker's own steps.
LEMMA WorkerWork ==
  ASSUME LaunchInv, WorkInv, NEW r \in Run,
         PaidCheck(r) \/ PaidStart(r) \/ StartContainer(r) \/ Work(r) \/ WorkerExit(r)
  PROVE  WorkInv'
<1>1. UNCHANGED <<vars, req, quarantined>>
  BY DEF PaidCheck, PaidStart, StartContainer, Work, WorkerExit, StoreUnchanged
<1>2. WorkerOK(r) /\ worker[r] \in WorkerRow
  BY WorkTypes DEF WorkInv
<1>3. ASSUME \A s \in Run \ {r} : worker'[s] = worker[s], Tame(r), WorkerOK(r)'
      PROVE  WorkInv'
  <2>1. ASSUME NEW q \in Req PROVE ThreadOK(q)'
    <3>1. InFlight(q) => Tame(req[q].run)
      <4> SUFFICES ASSUME InFlight(q) PROVE Tame(req[q].run)
        OBVIOUS
      <4>1. PICK s \in Run : s = req[q].run
        BY WorkTypes
      <4>2. Tame(s)
        BY <1>3 DEF Tame, HasContainer
      <4> QED
        BY <4>1, <4>2 DEF Tame, Running, HasContainer
    <3>2. ThreadOK(q) /\ req'[q] = req[q]
      BY <1>1 DEF WorkInv
    <3> QED
      BY <1>1, <3>1, <3>2, ThreadFrame
  <2>2. ASSUME NEW s \in Run PROVE WorkerOK(s)'
    <3>1. CASE s = r
      BY <1>3, <3>1
    <3>2. CASE s # r
      BY <1>1, <1>3, <3>2, WorkerFrame DEF WorkInv
    <3> QED
      BY <3>1, <3>2
  <2> QED
    BY <2>1, <2>2 DEF WorkInv
<1>8. CASE PaidCheck(r)
  <2>1. /\ worker[r].st = "spawned"
        /\ worker' = [worker EXCEPT ![r] = [worker[r] EXCEPT !.st = "checked"]]
    BY <1>8, WorkTypes DEF PaidCheck
  <2>2. LET row == [worker[r] EXCEPT !.st = "checked"] IN
        /\ row.st = "checked" /\ row.ws = worker[r].ws /\ row.envExpires = worker[r].envExpires
        /\ row.containerEnd = worker[r].containerEnd
    BY <1>2 DEF WorkerRow, WorkerState
  <2>3. /\ worker'[r].st = "checked" /\ worker'[r].ws = worker[r].ws
        /\ worker'[r].envExpires = worker[r].envExpires
        /\ worker'[r].containerEnd = worker[r].containerEnd
        /\ \A s \in Run \ {r} : worker'[s] = worker[s]
    BY <2>1, <2>2, WorkTypes
  <2>4. WorkerOK(r)'
    BY <1>1, <1>2, <2>1, <2>3 DEF WorkerOK, Settled, Running, Writing, HasContainer, OwnsOn, vars
  <2>5. Tame(r)
    BY <2>1, <2>3 DEF Tame, Running, HasContainer
  <2> QED
    BY <1>3, <2>3, <2>4, <2>5
<1>4. CASE PaidStart(r)
  <2>1. /\ worker[r].st = "checked" /\ worker' = [worker EXCEPT ![r] = [worker[r] EXCEPT !.st = "paid"]]
    BY <1>4, WorkTypes DEF PaidStart
  <2>2. LET row == [worker[r] EXCEPT !.st = "paid"] IN
        /\ row.st = "paid" /\ row.ws = worker[r].ws /\ row.envExpires = worker[r].envExpires
        /\ row.containerEnd = worker[r].containerEnd
    BY <1>2 DEF WorkerRow, WorkerState
  <2>3. /\ worker'[r].st = "paid" /\ worker'[r].ws = worker[r].ws
        /\ worker'[r].envExpires = worker[r].envExpires
        /\ worker'[r].containerEnd = worker[r].containerEnd
        /\ \A s \in Run \ {r} : worker'[s] = worker[s]
    BY <2>1, <2>2, WorkTypes
  <2>4. WorkerOK(r)'
    BY <1>1, <1>2, <2>1, <2>3 DEF WorkerOK, Settled, Running, Writing, HasContainer, OwnsOn, vars
  <2>5. Tame(r)
    BY <2>1, <2>3 DEF Tame, Running, HasContainer
  <2> QED
    BY <1>3, <2>3, <2>4, <2>5
<1>5. CASE StartContainer(r)
  <2>1. PICK end \in Nat : end = now + ContainerLife
    BY WorkTypes
  <2>2. /\ worker[r].st = "paid"
        /\ worker' = [worker EXCEPT ![r] = [worker[r] EXCEPT !.st = "working", !.containerEnd = end]]
    BY <1>5, <2>1, WorkTypes DEF StartContainer, ContainerEnd
  <2>3. LET row == [worker[r] EXCEPT !.st = "working", !.containerEnd = end] IN
        /\ row.st = "working" /\ row.ws = worker[r].ws /\ row.envExpires = worker[r].envExpires
        /\ row.containerEnd = end
    BY <1>2 DEF WorkerRow, WorkerState
  <2>4. /\ worker'[r].st = "working" /\ worker'[r].ws = worker[r].ws
        /\ worker'[r].envExpires = worker[r].envExpires /\ worker'[r].containerEnd = end
        /\ \A s \in Run \ {r} : worker'[s] = worker[s]
    BY <2>2, <2>3, WorkTypes
  <2>5. /\ runs[r].status # "absent" /\ runs[r].task \in Task /\ runs[r].status \notin LaunchOutcome
        /\ OwnsOn(leases, now, r, runs[r].task, worker[r].envExpires, worker[r].ws)
    BY <1>2, <2>2 DEF WorkerOK, Writing, Settled, Running
  <2>6. runs' = runs /\ leases' = leases /\ now' = now
    BY <1>1 DEF vars
  <2>7. WorkerOK(r)'
    BY <2>4, <2>5, <2>6 DEF WorkerOK, OwnsOn
  <2>8. Tame(r)
    BY <2>2, <2>4 DEF Tame, Running
  <2> QED
    BY <1>3, <2>4, <2>7, <2>8
<1>6. CASE Work(r)
  <2>1. worker' = worker
    BY <1>6 DEF Work
  <2>2. Tame(r) /\ WorkerOK(r)'
    BY <1>1, <1>2, <2>1, WorkerFrame DEF Tame, HasContainer
  <2> QED
    BY <1>3, <2>1, <2>2
<1>7. CASE WorkerExit(r)
  <2>1. PICK rc \in {0, 1}, end \in {0, worker[r].containerEnd} :
          worker' = [worker EXCEPT ![r].st = "exited", ![r].rc = rc, ![r].containerEnd = end]
    BY <1>7 DEF WorkerExit
  <2>2. /\ Running(r)
        /\ worker' = [worker EXCEPT ![r] = [worker[r] EXCEPT !.st = "exited", !.rc = rc, !.containerEnd = end]]
    BY <1>7, <2>1, WorkTypes DEF WorkerExit
  <2>3. LET row == [worker[r] EXCEPT !.st = "exited", !.rc = rc, !.containerEnd = end] IN
        /\ row.st = "exited" /\ row.ws = worker[r].ws /\ row.envExpires = worker[r].envExpires
        /\ row.containerEnd = end
    BY <1>2 DEF WorkerRow, WorkerState
  <2>4. /\ worker'[r].st = "exited" /\ worker'[r].ws = worker[r].ws
        /\ worker'[r].envExpires = worker[r].envExpires /\ worker'[r].containerEnd = end
        /\ \A s \in Run \ {r} : worker'[s] = worker[s]
    BY <2>2, <2>3, WorkTypes
  <2>5. WorkerOK(r)'
    <3>1. runs[r].status # "absent" /\ runs[r].status \notin LaunchOutcome
      BY <1>2, <2>2 DEF WorkerOK, Running, Settled
    <3> QED
      BY <1>1, <1>2, <2>4, <3>1, WorkerStops
  <2>6. Tame(r)
    BY <2>2, <2>4, WorkTypes DEF Tame, HasContainer
  <2> QED
    BY <1>3, <2>4, <2>5, <2>6
<1> QED
  BY <1>4, <1>5, <1>6, <1>7, <1>8

\* A lease that is not taken or released from under its owner is kept.
LEMMA ThreadKeepsLease ==
  ASSUME LaunchInv, NEW q \in Req, ThreadOK(q), req'[q] = req[q],
         UNCHANGED <<now, worker, quarantined>>,
         req[q].pc \in Claimed =>
           /\ runs'[req[q].run].status = "running" /\ runs'[req[q].run].task = req[q].task
           /\ OwnsOn(leases', now, req[q].run, req[q].task, req[q].claimedAt + LeaseTTL, req[q].ws)
  PROVE  ThreadOK(q)'
<1>1. CASE req[q].pc \in Claimed
  BY <1>1 DEF ThreadOK, Settled, Running, HasContainer
<1>2. CASE req[q].pc \notin Claimed
  BY <1>2, ThreadFree
<1> QED
  BY <1>1, <1>2

\* A lease that is kept for the run keeps what is said of its worker.
LEMMA WorkerKeepsLease ==
  ASSUME LaunchInv, NEW r \in Run, WorkerOK(r), runs'[r] = runs[r],
         UNCHANGED <<now, worker, quarantined>>,
         \A t \in Task, e \in Nat : \A w :
           runs[r].status # "absent" /\ runs[r].status \notin LaunchOutcome /\ OwnsOn(leases, now, r, t, e, w)
             => OwnsOn(leases', now, r, t, e, w)
  PROVE  WorkerOK(r)'
<1>1. worker[r].envExpires \in Nat
  BY WorkTypes
<1>2. worker[r].st \in {"spawned", "checked"} \/ Writing(r) => runs[r].status \notin LaunchOutcome
  BY DEF WorkerOK, Settled, Writing, Running
<1>3. worker[r].st \in {"spawned", "checked"} \/ Writing(r) =>
        OwnsOn(leases', now, r, runs[r].task, worker[r].envExpires, worker[r].ws)
  BY <1>1, <1>2 DEF WorkerOK
<1> QED
  BY <1>3 DEF WorkerOK, Settled, Running, Writing, HasContainer

\* A claim takes no lease that has not expired or been released.
LEMMA ClaimWork ==
  ASSUME LaunchInv, WorkInv, NEW q \in Req, ClaimStep(q)
  PROVE  WorkInv'
<1> DEFINE t == req[q].task
<1>1. InFlight(q) /\ req[q].pc = "ready" /\ UNCHANGED <<quarantined, worker>>
  BY DEF InFlight, ClaimStep
<1>2. PICK r \in Run : r = req[q].run
  BY <1>1, WorkTypes
<1>3. t \in Task /\ req[q].ws \in Worktree
  BY <1>1, WorkTypes
<1>4. CASE End(q) /\ StoreUnchanged
  <2>1. \A s \in Run : Spared(s)
    BY <1>1 DEF Spared
  <2> QED
    BY <1>1, <1>2, <1>4, <2>1, ThreadGoesOn DEF End, StoreUnchanged, PC, Claimed, PreSpawn, Finishing
<1>5. ASSUME NEW c \in Cost, ClaimWorkspace(t, r, req[q].ws, ExpectedHead(t), LeaseTTL, c),
             req' = [req EXCEPT ![q].pc = "claimed", ![q].epoch = NextEpoch(t), ![q].claimedAt = now]
      PROVE  WorkInv'
  <2>1. /\ now' = now /\ LeaseFree(t) /\ runs[r].status = "absent"
    BY <1>5 DEF ClaimWorkspace
  <2>2. PICK lease, run :
          /\ lease = [epoch |-> NextEpoch(t), run |-> r, worktree |-> req[q].ws,
                      expires |-> now + LeaseTTL, released |-> FALSE,
                      head |-> ExpectedHead(t), reserved |-> c]
          /\ run = [status |-> "running", task |-> t, attempt |-> NextAttempt(t), epoch |-> NextEpoch(t)]
          /\ leases' = [leases EXCEPT ![t] = lease] /\ runs' = [runs EXCEPT ![r] = run]
    BY <1>5 DEF ClaimWorkspace
  <2>3. /\ leases'[t].run = r /\ ~leases'[t].released /\ leases'[t].expires = now + LeaseTTL
        /\ leases'[t].worktree = req[q].ws
        /\ \A u \in Task \ {t} : leases'[u] = leases[u]
        /\ runs'[r].status = "running" /\ runs'[r].task = t
        /\ \A s \in Run \ {r} : runs'[s] = runs[s]
    <3> HIDE DEF t
    <3> QED
      BY <1>3, <2>2, WorkTypes
  <2>4. /\ \A p \in Req \ {q} : req'[p] = req[p]
        /\ req'[q].task = t /\ req'[q].run = r /\ req'[q].ws = req[q].ws
        /\ req'[q].pc = "claimed" /\ req'[q].claimedAt = now
    <3>1. PICK e \in Nat : e = NextEpoch(t)
      BY <1>3, WorkTypes DEF NextEpoch, LeaseRow
    <3>2. PICK n \in Nat : n = now
      BY WorkTypes
    <3>3. req' = [req EXCEPT ![q] = [req[q] EXCEPT !.pc = "claimed", !.epoch = e, !.claimedAt = n]]
      BY <1>5, <3>1, <3>2, WorkTypes
    <3>4. LET row == [req[q] EXCEPT !.pc = "claimed", !.epoch = e, !.claimedAt = n] IN
          /\ row.task = t /\ row.run = r /\ row.ws = req[q].ws /\ row.pc = "claimed" /\ row.claimedAt = n
      BY <1>2, WorkTypes DEF ReqRow
    <3> QED
      BY <3>2, <3>3, <3>4, WorkTypes
  <2> HIDE DEF t
  <2>5. \A s \in Run \ {r}, u \in Task, e \in Nat : \A w :
          OwnsOn(leases, now, s, u, e, w) => OwnsOn(leases', now, s, u, e, w)
    BY <2>1, <2>3, WorkTypes DEF OwnsOn, LeaseFree
  <2>6. worker[r].st = "none" /\ worker[r].containerEnd = 0 /\ worker[r].rc = 0
    BY <2>1 DEF WorkInv, WorkerOK
  <2>7. ThreadOK(q)'
    <3>1. /\ runs'[r].status = "running" /\ runs'[r].task = t
          /\ OwnsOn(leases', now', r, t, now + LeaseTTL, req[q].ws)
      BY <2>3 DEF OwnsOn
    <3>2. now' <= now + Startup /\ now' <= now + Startup + WorkerTimeout + Cleanup
      BY <2>1, WorkTypes
    <3> QED
      BY <1>1, <2>4, <2>6, <3>1, <3>2 DEF ThreadOK
  <2>8. WorkerOK(r)'
    BY <1>1, <2>1, <2>3, <2>6, WorkTypes DEF WorkerOK, HasContainer, Writing
  <2>9. ASSUME NEW p \in Req \ {q} PROVE ThreadOK(p)'
    <3>1. ThreadOK(p)
      BY DEF WorkInv
    <3>2. ASSUME req[p].pc \in Claimed
          PROVE  /\ runs'[req[p].run].status = "running" /\ runs'[req[p].run].task = req[p].task
                 /\ OwnsOn(leases', now, req[p].run, req[p].task, req[p].claimedAt + LeaseTTL, req[p].ws)
      <4>1. PICK s \in Run, u \in Task, e \in Nat :
              s = req[p].run /\ u = req[p].task /\ e = req[p].claimedAt + LeaseTTL
        BY <3>2, ClaimedInFlight, WorkTypes
      <4>2. runs[s].status = "running" /\ runs[s].task = u /\ OwnsOn(leases, now, s, u, e, req[p].ws)
        BY <3>1, <3>2, <4>1 DEF ThreadOK
      <4>3. s # r
        BY <2>1, <4>2
      <4> QED
        BY <2>3, <2>5, <4>1, <4>2, <4>3
    <3> QED
      BY <1>1, <2>1, <2>4, <3>1, <3>2, ThreadKeepsLease
  <2>10. ASSUME NEW s \in Run \ {r} PROVE WorkerOK(s)'
    BY <1>1, <2>1, <2>3, <2>5, WorkerKeepsLease DEF WorkInv
  <2> QED
    BY <2>7, <2>8, <2>9, <2>10 DEF WorkInv
<1> QED
  BY <1>2, <1>4, <1>5 DEF ClaimStep

\* A release frees the lease of its own run, which has nothing left.
LEMMA ReleaseWork ==
  ASSUME LaunchInv, WorkInv, NEW q \in Req, ReleaseStep(q)
  PROVE  WorkInv'
<1> DEFINE t == req[q].task
<1>1. /\ InFlight(q) /\ req[q].pc = "releasing" /\ UNCHANGED <<quarantined, worker>> /\ Goto(q, "done")
  BY DEF InFlight, ReleaseStep, End
<1>2. PICK r \in Run : r = req[q].run
  BY <1>1, WorkTypes
<1>3. t \in Task
  BY <1>1, WorkTypes
<1>4. CASE UNCHANGED vars
  <2>1. \A s \in Run : Spared(s)
    BY <1>1 DEF Spared
  <2> QED
    BY <1>1, <1>2, <1>4, <2>1, ThreadGoesOn DEF PC, Claimed, PreSpawn, Finishing
<1>5. CASE Release(t, r, req[q].epoch, None, req[q].outcome, None)
  <2>1. leases[t].run = r /\ now' = now
    BY <1>5 DEF Release, WriterAuthority
  <2>2. /\ \A u \in Task \ {t} : leases'[u] = leases[u]
        /\ runs' = [runs EXCEPT ![r].status = req[q].outcome]
    BY <1>3, <1>5, WorkTypes DEF Release
  <2>3. PICK o \in LaunchOutcome : o = req[q].outcome
    BY WorkTypes DEF ReqRow
  <2>4. runs'[r].status = o /\ \A s \in Run \ {r} : runs'[s] = runs[s]
    BY <2>2, <2>3, WorkTypes DEF RunRow
  <2>5. /\ \A p \in Req \ {q} : req'[p] = req[p]
        /\ req'[q].pc = "done"
    <3>1. /\ \A p \in Req \ {q} : req'[p] = req[p]
          /\ req'[q] = [req[q] EXCEPT !.pc = "done"]
      BY <1>1, GotoStep DEF PC
    <3> QED
      BY <3>1, WorkTypes DEF ReqRow
  <2> HIDE DEF t
  <2>6. \A s \in Run \ {r}, u \in Task, e \in Nat : \A w :
          OwnsOn(leases, now, s, u, e, w) => OwnsOn(leases', now, s, u, e, w)
    BY <2>1, <2>2 DEF OwnsOn
  <2>7. ThreadOK(q)'
    BY <2>5, ThreadFree DEF Claimed, PreSpawn, Finishing
  <2>8. Settled(r) /\ WorkerOK(r)
    BY <1>1, <1>2 DEF WorkInv, ThreadOK
  <2>9. WorkerOK(r)'
    <3>1. Settled(r)' /\ ~Writing(r)' /\ worker'[r].st \notin {"spawned", "checked", "paid"}
      BY <1>1, <2>1, <2>8 DEF Settled, Running, Writing, HasContainer
    <3>2. runs'[r].status # "absent"
      BY <2>3, <2>4, WorkTypes
    <3> QED
      BY <1>1, <2>1, <2>8, <3>1, <3>2 DEF WorkerOK, Settled, HasContainer
  <2>10. ASSUME NEW p \in Req \ {q} PROVE ThreadOK(p)'
    <3>1. ThreadOK(p)
      BY DEF WorkInv
    <3>2. ASSUME req[p].pc \in Claimed
          PROVE  /\ runs'[req[p].run].status = "running" /\ runs'[req[p].run].task = req[p].task
                 /\ OwnsOn(leases', now, req[p].run, req[p].task, req[p].claimedAt + LeaseTTL, req[p].ws)
      <4>1. PICK s \in Run, u \in Task, e \in Nat :
              s = req[p].run /\ u = req[p].task /\ e = req[p].claimedAt + LeaseTTL
        BY <3>2, ClaimedInFlight, WorkTypes
      <4>2. runs[s].status = "running" /\ runs[s].task = u /\ OwnsOn(leases, now, s, u, e, req[p].ws)
        BY <3>1, <3>2, <4>1 DEF ThreadOK
      <4>3. s # r
        BY <1>1, <1>2, <3>2, <4>1, ClaimedInFlight DEF LaunchInv, SingleFlight
      <4> QED
        BY <2>4, <2>6, <4>1, <4>2, <4>3
    <3> QED
      BY <1>1, <2>1, <2>5, <3>1, <3>2, ThreadKeepsLease
  <2>11. ASSUME NEW s \in Run \ {r} PROVE WorkerOK(s)'
    BY <1>1, <2>1, <2>4, <2>6, WorkerKeepsLease DEF WorkInv
  <2> QED
    BY <2>7, <2>9, <2>10, <2>11 DEF WorkInv
<1> QED
  BY <1>2, <1>4, <1>5 DEF ReleaseStep, StoreUnchanged

\* Time passes no bound a thread or an unstarted worker has.
LEMMA TickWork ==
  ASSUME LaunchInv, WorkInv, TickStep
  PROVE  WorkInv'
<1>1. /\ UNCHANGED <<runs, leases, req, worker, quarantined>> /\ now' = now + 1 /\ now \in Nat
  BY WorkTypes DEF TickStep, Tick, launchVars
<1>2. /\ LeaseTTL \in Nat /\ Startup \in Nat /\ WorkerTimeout \in Nat /\ Cleanup \in Nat
      /\ ContainerLife \in Nat
  BY WorkTypes
<1>3. \A r \in Run : HasContainer(r)' => HasContainer(r)
  BY <1>1, WorkTypes DEF HasContainer
<1>4. \A r, t, w : \A e \in Nat : OwnsOn(leases, now, r, t, e, w) => OwnsOn(leases, now', r, t, e, w)
  BY <1>1 DEF OwnsOn
<1>5. ASSUME NEW q \in Req PROVE ThreadOK(q)'
  <2>1. CASE req[q].pc \in Claimed
    <3>1. PICK r \in Run, t \in Task, c \in Nat : r = req[q].run /\ t = req[q].task /\ c = req[q].claimedAt
      BY <2>1, ClaimedInFlight, WorkTypes
    <3>2. ThreadOK(q)
      BY DEF WorkInv
    <3>3. /\ req[q].pc \in PreSpawn => now < c + Startup
          /\ req[q].pc \notin PreSpawn => now < c + Startup + WorkerTimeout + Cleanup
      BY <2>1, <3>1 DEF TickStep, Claimed
    <3>4. /\ now' <= c + Startup + WorkerTimeout + Cleanup
          /\ req[q].pc \in PreSpawn => now' <= c + Startup
      BY <1>1, <1>2, <3>3
    <3>5. /\ runs[r].status = "running" /\ runs[r].task = t
          /\ OwnsOn(leases, now', r, t, c + LeaseTTL, req[q].ws)
      <4>1. c + LeaseTTL \in Nat
        BY <1>2
      <4> QED
        BY <1>4, <2>1, <3>1, <3>2, <4>1 DEF ThreadOK
    <3>6. Settled(r) => Settled(r)'
      BY <1>1, <1>3 DEF Settled, Running
    <3>7. /\ req[q].pc \in PreSpawn => worker[r].st = "none"
          /\ req[q].pc \in {"waiting", "exited", "timedout", "unread", "cleaned"} => worker[r].ws = req[q].ws
          /\ req[q].pc \in {"exited", "cleaned"} => worker[r].st = "exited"
          /\ req[q].pc = "unread" => worker[r].st = "unread"
          /\ req[q].pc = "cleaned" => ~HasContainer(r)'
          /\ req[q].pc = "releasing" => Settled(r)'
      BY <1>3, <3>1, <3>2, <3>6 DEF ThreadOK
    <3> QED
      BY <1>1, <3>1, <3>4, <3>5, <3>7 DEF ThreadOK, Settled, Running, HasContainer
  <2>2. CASE req[q].pc \notin Claimed
    BY <1>1, <2>2, ThreadFree
  <2> QED
    BY <2>1, <2>2
<1>6. ASSUME NEW r \in Run PROVE WorkerOK(r)'
  <2>1. WorkerOK(r) /\ worker[r].envExpires \in Nat /\ worker[r].containerEnd \in Nat
    BY WorkTypes DEF WorkInv
  <2>2. worker[r].st \in {"spawned", "checked", "paid"} => now' <= worker[r].envExpires - LeaseTTL + Startup
    <3>1. worker[r].st \in {"spawned", "checked", "paid"} => now < worker[r].envExpires - LeaseTTL + Startup
      BY DEF TickStep
    <3> QED
      BY <1>1, <1>2, <2>1, <3>1
  <2>3. Writing(r)' => Writing(r)
    BY <1>1, <1>3 DEF Writing
  <2>4. worker[r].st \in {"spawned", "checked"} \/ Writing(r)' =>
          /\ runs[r].status # "absent" /\ runs[r].task \in Task
          /\ OwnsOn(leases, now', r, runs[r].task, worker[r].envExpires, worker[r].ws)
    BY <1>4, <2>1, <2>3 DEF WorkerOK
  <2>5. runs[r].status \in LaunchOutcome => Settled(r)'
    BY <1>1, <1>3, <2>1 DEF WorkerOK, Settled, Running
  <2> QED
    BY <1>1, <2>1, <2>2, <2>4, <2>5 DEF WorkerOK
<1> QED
  BY <1>5, <1>6 DEF WorkInv

\* What touches neither the leases and runs nor the threads that claimed.
LEMMA AsideWork ==
  ASSUME LaunchInv, WorkInv, UNCHANGED <<now, leases, runs, worker, quarantined>>,
         \A q \in Req : req'[q] = req[q] \/ req'[q].pc \notin Claimed
  PROVE  WorkInv'
<1>1. ASSUME NEW q \in Req PROVE ThreadOK(q)'
  <2>1. CASE req'[q] = req[q]
    BY <2>1 DEF WorkInv, ThreadOK, Settled, Running, HasContainer
  <2>2. CASE req'[q].pc \notin Claimed
    BY <2>2, ThreadFree
  <2> QED
    BY <2>1, <2>2
<1>2. ASSUME NEW r \in Run PROVE WorkerOK(r)'
  BY DEF WorkInv, WorkerOK, Settled, Running, Writing, HasContainer
<1> QED
  BY <1>1, <1>2 DEF WorkInv

\* Every step keeps what is said of threads, workers and markers.
LEMMA WorkStep ==
  ASSUME LaunchInv, WorkInv, [LaunchNext]_allVars
  PROVE  WorkInv'
<1>1. CASE Create
  BY <1>1, AsideWork DEF Create, CreateTask, launchVars
<1>2. ASSUME NEW q \in Req, NEW t \in Task, NEW r \in Run, NEW w \in Worktree, Arrive(q, t, r, w)
      PROVE  WorkInv'
  <2>1. UNCHANGED <<now, leases, runs, worker, quarantined>>
    BY <1>2 DEF Arrive, StoreUnchanged, vars
  <2>2. req' = [req EXCEPT ![q] = [req[q] EXCEPT !.pc = "launching", !.task = t, !.run = r, !.ws = w]]
    BY <1>2, WorkTypes DEF Arrive
  <2>3. [req[q] EXCEPT !.pc = "launching", !.task = t, !.run = r, !.ws = w].pc = "launching"
    BY WorkTypes DEF ReqRow
  <2>4. req'[q].pc = "launching" /\ \A p \in Req \ {q} : req'[p] = req[p]
    BY <2>2, <2>3, WorkTypes
  <2> QED
    BY <2>1, <2>4, AsideWork DEF Claimed, PreSpawn, Finishing
<1>3. ASSUME NEW q \in Req, ThreadStep(q) \/ CollectError(q) PROVE WorkInv'
  BY <1>3, ClaimWork, ReleaseWork, SpawnWork, TimeoutWork, ErrorWork, ThreadWork DEF ThreadStep
<1>4. ASSUME NEW r \in Run, PaidCheck(r) \/ PaidStart(r) \/ StartContainer(r) \/ Work(r) \/ WorkerExit(r) PROVE WorkInv'
  BY <1>4, WorkerWork
<1>5. ASSUME NEW w \in Worktree, ResetWorkspace(w) PROVE WorkInv'
  BY <1>5, AsideWork DEF ResetWorkspace, StoreUnchanged, vars
<1>6. CASE Crash
  <2>1. /\ UNCHANGED <<now, leases, runs, worker, quarantined>>
        /\ req' = [q \in Req |-> IF InFlight(q) THEN [req[q] EXCEPT !.pc = "done"] ELSE req[q]]
    BY <1>6 DEF Crash, StoreUnchanged, vars
  <2>2. \A q \in Req : req'[q] = req[q] \/ req'[q].pc = "done"
    BY <2>1, WorkTypes DEF ReqRow
  <2> QED
    BY <2>1, <2>2, AsideWork DEF Claimed, PreSpawn, Finishing
<1>7. CASE TickStep
  BY <1>7, TickWork
<1>8. CASE UNCHANGED allVars
  BY <1>8, AsideWork DEF allVars, launchVars, vars
<1> QED
  BY <1>1, <1>2, <1>3, <1>4, <1>5, <1>6, <1>7, <1>8 DEF LaunchNext

\* Nothing runs in the first state.
LEMMA InitWorkInv == LaunchInit => WorkInv
<1> SUFFICES ASSUME LaunchInit PROVE WorkInv
  OBVIOUS
<1>1. /\ \A q \in Req : req[q].pc = "idle"
      /\ \A r \in Run : worker[r].st = "none" /\ worker[r].containerEnd = 0 /\ worker[r].rc = 0
      /\ now \in Nat
  BY DEF LaunchInit, Init
<1>2. \A q \in Req : ThreadOK(q)
  BY <1>1 DEF ThreadOK, Claimed, PreSpawn, Finishing
<1>3. \A r \in Run : WorkerOK(r)
  BY <1>1 DEF WorkerOK, Writing, HasContainer, Settled, Running
<1> QED
  BY <1>2, <1>3 DEF WorkInv

\* So it holds in every state of a launch.
LEMMA AlwaysWorkInv == LaunchSpec => [](LaunchInv /\ WorkInv)
<1>1. LaunchInit => LaunchInv /\ WorkInv
  BY InitLaunchInv, InitWorkInv
<1>2. LaunchInv /\ WorkInv /\ [LaunchNext]_allVars => (LaunchInv /\ WorkInv)'
  BY LaunchStepInv, WorkStep
<1> QED
  BY <1>1, <1>2, PTL DEF LaunchSpec

\* When a run's row has an outcome, all that the release waited for is done:
\* its worker process has ended and its container is gone, and stay so, for
\* however long a stalled thread took to get there.
THEOREM QuietAfterRelease == LaunchSpec => []ReleasedMeansQuiet
<1>1. WorkInv => ReleasedMeansQuiet
  BY DEF WorkInv, WorkerOK, Settled, ReleasedMeansQuiet
<1> QED
  BY <1>1, AlwaysWorkInv, PTL

\* A worktree whose worker failed before the launcher's eyes, by its exit code
\* or at its deadline, was marked before the release, and no step of another
\* launch takes the marker away.
THEOREM MarkedAfterFailure == LaunchSpec => []FailedMeansQuarantined
<1>1. WorkInv => FailedMeansQuarantined
  BY DEF WorkInv, WorkerOK, Settled, FailedMeansQuarantined
<1> QED
  BY <1>1, AlwaysWorkInv, PTL

-----------------------------------------------------------------------------
(* One writer for a worktree.                                               *)

\* Two runs do not own live leases on one worktree.
LEMMA OwnersApart ==
  ASSUME LaunchInv, NEW r, NEW s, r # s, NEW t \in Task, NEW u \in Task,
         NEW e \in Nat, NEW f \in Nat, NEW w, now < e, now < f,
         OwnsOn(leases, now, r, t, e, w), OwnsOn(leases, now, s, u, f, w)
  PROVE  FALSE
<1>1. now \in Nat
  BY WorkTypes
<1>2. /\ leases[t].run = r /\ ~leases[t].released /\ leases[t].expires = e /\ leases[t].worktree = w
      /\ leases[u].run = s /\ ~leases[u].released /\ leases[u].expires = f /\ leases[u].worktree = w
  BY <1>1 DEF OwnsOn
<1>3. t # u /\ Live(t) /\ Live(u)
  BY <1>1, <1>2 DEF Live
<1>4. Collides(t, leases[t].worktree, u)
  BY <1>2 DEF Collides
<1> QED
  BY <1>3, <1>4 DEF LaunchInv, IInv, LiveLeasesDisjoint

\* The steps at which a thread is past its readiness check.
CheckedPC == {"rechecked", "isolated", "guarded"}
IsolatedPC == {"isolated", "guarded"}

\* A thread gets there by a check, and stays on its worktree.
LEMMA CheckedAfter ==
  ASSUME LaunchInv, [LaunchNext]_allVars, NEW q \in Req, req'[q].pc \in CheckedPC
  PROVE  /\ req'[q].ws = req[q].ws
         /\ (req[q].pc \in CheckedPC /\ req'[q] = req[q]) \/ quarantined' = quarantined
         /\ req[q].pc \in CheckedPC \/ req[q].ws \notin quarantined
         /\ req'[q].pc # "rechecked" =>
              req[q].pc \in IsolatedPC \/ (ContainersOn(req[q].ws) = {} /\ UNCHANGED <<now, worker>>)
<1>0. req \in [Req -> ReqRow]
  BY WorkTypes
<1>1. CASE req'[q] = req[q]
  BY <1>1 DEF CheckedPC, IsolatedPC
<1>2. CASE req'[q] # req[q]
  <2>1. ~(Create \/ Crash \/ TickStep \/ UNCHANGED allVars)
    <3>1. ~Crash
      <4> SUFFICES ASSUME Crash PROVE FALSE
        OBVIOUS
      <4>1. req' = [p \in Req |-> IF InFlight(p) THEN [req[p] EXCEPT !.pc = "done"] ELSE req[p]]
        BY DEF Crash
      <4>2. req'[q].pc = "done"
        BY <1>0, <1>2, <4>1 DEF ReqRow
      <4> QED
        BY <4>2 DEF CheckedPC
    <3> QED
      BY <1>2, <3>1 DEF Create, TickStep, launchVars, allVars
  <2>2. \A r \in Run : ~(PaidCheck(r) \/ PaidStart(r) \/ StartContainer(r) \/ Work(r) \/ WorkerExit(r))
    BY <1>2 DEF PaidCheck, PaidStart, StartContainer, Work, WorkerExit
  <2>3. \A w \in Worktree : ~ResetWorkspace(w)
    BY <1>2 DEF ResetWorkspace
  <2>4. ASSUME NEW p \in Req, NEW t \in Task, NEW r \in Run, NEW w \in Worktree, Arrive(p, t, r, w)
        PROVE  FALSE
    <3>1. req' = [req EXCEPT ![p] = [req[p] EXCEPT !.pc = "launching", !.task = t, !.run = r, !.ws = w]]
      BY <1>0, <2>4 DEF Arrive
    <3>2. [req[p] EXCEPT !.pc = "launching", !.task = t, !.run = r, !.ws = w].pc = "launching"
      BY <1>0 DEF ReqRow
    <3>3. p = q /\ req'[q].pc = "launching"
      BY <1>0, <1>2, <3>1, <3>2
    <3> QED
      BY <3>3 DEF CheckedPC
  <2>5. PICK p \in Req : ThreadStep(p) \/ CollectError(p)
    BY <2>1, <2>2, <2>3, <2>4 DEF LaunchNext
  <2>6. ASSUME NEW pc \in PC, Goto(p, pc)
        PROVE  p = q /\ pc \in CheckedPC /\ req'[q].ws = req[q].ws /\ req'[q].pc = pc
    <3>1. /\ req'[p] = [req[p] EXCEPT !.pc = pc] /\ \A x \in Req \ {p} : req'[x] = req[x]
      BY <2>6, GotoStep
    <3>2. p = q
      BY <1>2, <3>1
    <3> QED
      BY <1>0, <3>1, <3>2 DEF ReqRow
  <2>7. CASE Recheck(p) \/ Isolate(p) \/ IssueGuardLease(p)
    <3>1. \E pc \in PC : Goto(p, pc)
      BY <2>7 DEF Recheck, Isolate, IssueGuardLease, PC, PreSpawn, Finishing
    <3>2. p = q /\ req'[q].ws = req[q].ws
      BY <2>6, <3>1
    <3>3. CASE Recheck(p)
      <4>1. Ready(req[q].ws)
        BY <2>6, <3>2, <3>3 DEF Recheck, CheckedPC, PC, Finishing
      <4>2. req'[q].pc = "rechecked"
        BY <2>6, <3>3 DEF Recheck, CheckedPC, PC, PreSpawn, Finishing
      <4> QED
        BY <3>2, <3>3, <4>1, <4>2 DEF Ready, Recheck
    <3>4. CASE Isolate(p)
      <4>1. ContainersOn(req[q].ws) = {}
        BY <2>6, <3>2, <3>4 DEF Isolate, CheckedPC, PC, Finishing
      <4> QED
        BY <3>2, <3>4, <4>1 DEF Isolate, CheckedPC, StoreUnchanged, vars
    <3>5. CASE IssueGuardLease(p)
      BY <3>2, <3>5 DEF IssueGuardLease, CheckedPC, IsolatedPC
    <3> QED
      BY <2>7, <3>3, <3>4, <3>5
  <2>8. CASE Validate(p) \/ Admit(p) \/ Spawn(p) \/ Collect(p) \/ Timeout(p) \/ CleanAfterExit(p)
             \/ CleanAfterTimeout(p) \/ CleanAfterError(p) \/ CollectError(p) \/ Quarantine(p)
             \/ Keep(p) \/ ReleaseStep(p)
    <3>1. \E pc \in PC \ CheckedPC : Goto(p, pc)
      BY <2>8 DEF Validate, Admit, Spawn, Collect, Timeout, CleanAfterExit, AfterCleanup,
         CleanAfterTimeout, CleanAfterError, CollectError, Quarantine, Keep, ReleaseStep, End, PC,
         PreSpawn, Finishing, CheckedPC
    <3> QED
      BY <2>6, <3>1
  <2>9. CASE ClaimStep(p)
    <3>1. CASE End(p)
      BY <2>6, <3>1 DEF End, PC, CheckedPC
    <3>2. CASE ~End(p)
      <4>1. req' = [req EXCEPT ![p].pc = "claimed", ![p].epoch = NextEpoch(req[p].task), ![p].claimedAt = now]
        BY <2>9, <3>2 DEF ClaimStep
      <4>2. PICK e, n : e = NextEpoch(req[p].task) /\ n = now
        OBVIOUS
      <4>3. req' = [req EXCEPT ![p] = [req[p] EXCEPT !.pc = "claimed", !.epoch = e, !.claimedAt = n]]
        BY <1>0, <4>1, <4>2
      <4>4. [req[p] EXCEPT !.pc = "claimed", !.epoch = e, !.claimedAt = n].pc = "claimed"
        BY <1>0 DEF ReqRow
      <4>5. p = q /\ req'[q].pc = "claimed"
        BY <1>0, <1>2, <4>3, <4>4
      <4> QED
        BY <4>5 DEF CheckedPC
    <3> QED
      BY <3>1, <3>2
  <2>10. CASE Settle(p)
    <3>1. ASSUME NEW o, req' = [req EXCEPT ![p].pc = "releasing", ![p].outcome = o] PROVE FALSE
      <4>1. req' = [req EXCEPT ![p] = [req[p] EXCEPT !.pc = "releasing", !.outcome = o]]
        BY <1>0, <3>1
      <4>2. [req[p] EXCEPT !.pc = "releasing", !.outcome = o].pc = "releasing"
        BY <1>0 DEF ReqRow
      <4>3. p = q /\ req'[q].pc = "releasing"
        BY <1>0, <1>2, <4>1, <4>2
      <4> QED
        BY <4>3 DEF CheckedPC
    <3>2. Goto(p, "releasing") \/ Goto(p, "keeping")
      BY <2>10, <3>1 DEF Settle
    <3> QED
      BY <2>6, <3>2 DEF PC, Finishing, CheckedPC
  <2> QED
    BY <2>5, <2>7, <2>8, <2>9, <2>10 DEF ThreadStep
<1> QED
  BY <1>1, <1>2

\* What a step does to a worker: a thread spawns it, or it goes on where it
\* was, passing its check before it pays, and only one that has paid gets a
\* container.
LEMMA WorkerAfter ==
  ASSUME LaunchInv, [LaunchNext]_allVars, NEW r \in Run
  PROVE  \/ /\ \E q \in Req : req[q].pc = "guarded" /\ req[q].run = r /\ worker'[r].ws = req[q].ws
            /\ worker'[r].st = "spawned" /\ worker'[r].containerEnd = 0
         \/ /\ worker'[r].ws = worker[r].ws
            /\ worker'[r].st = "spawned" => worker[r].st = "spawned"
            /\ worker'[r].st = "checked" => worker[r].st \in {"spawned", "checked"}
            /\ worker'[r].st = "paid" => worker[r].st \in {"checked", "paid"}
            /\ worker'[r].containerEnd \in {0, worker[r].containerEnd} \/ worker[r].st = "paid"
<1> DEFINE Goes == /\ worker'[r].ws = worker[r].ws
                   /\ worker'[r].st = "spawned" => worker[r].st = "spawned"
                   /\ worker'[r].st = "checked" => worker[r].st \in {"spawned", "checked"}
                   /\ worker'[r].st = "paid" => worker[r].st \in {"checked", "paid"}
                   /\ worker'[r].containerEnd \in {0, worker[r].containerEnd} \/ worker[r].st = "paid"
<1>0. worker \in [Run -> WorkerRow] /\ req \in [Req -> ReqRow]
  BY WorkTypes
<1>1. CASE worker'[r] = worker[r]
  BY <1>1
<1>2. ASSUME NEW w, worker' = RemoveContainers(w) PROVE Goes
  BY <1>2, ContainersRemoved
<1>3. ASSUME NEW s \in Run, PaidCheck(s) \/ PaidStart(s) \/ StartContainer(s) \/ Work(s) \/ WorkerExit(s) PROVE Goes
  <2>1. CASE PaidStart(s)
    BY <1>0, <2>1 DEF PaidStart, WorkerRow, WorkerState
  <2>5. CASE PaidCheck(s)
    BY <1>0, <2>5 DEF PaidCheck, WorkerRow, WorkerState
  <2>2. CASE StartContainer(s)
    <3>1. worker' = [worker EXCEPT ![s] = [worker[s] EXCEPT !.st = "working", !.containerEnd = ContainerEnd]]
      BY <1>0, <2>2 DEF StartContainer
    <3>2. [worker[s] EXCEPT !.st = "working", !.containerEnd = ContainerEnd].st = "working"
      BY <1>0 DEF WorkerRow, WorkerState
    <3>3. [worker[s] EXCEPT !.st = "working", !.containerEnd = ContainerEnd].ws = worker[s].ws
      BY <1>0 DEF WorkerRow, WorkerState
    <3> QED
      BY <1>0, <1>1, <2>2, <3>1, <3>2, <3>3 DEF StartContainer
  <2>3. CASE Work(s)
    BY <2>3 DEF Work
  <2>4. CASE WorkerExit(s)
    <3>1. PICK rc \in {0, 1}, end \in {0, worker[s].containerEnd} :
            worker' = [worker EXCEPT ![s].st = "exited", ![s].rc = rc, ![s].containerEnd = end]
      BY <2>4 DEF WorkerExit
    <3>2. /\ worker'[s].st = "exited" /\ worker'[s].ws = worker[s].ws /\ worker'[s].containerEnd = end
          /\ \A x \in Run \ {s} : worker'[x] = worker[x]
      BY <1>0, <3>1 DEF WorkerRow, WorkerState
    <3> QED
      BY <3>2
  <2> QED
    BY <1>3, <2>1, <2>2, <2>3, <2>4, <2>5
<1>4. ASSUME NEW q \in Req, Timeout(q) PROVE Goes
  <2>1. PICK s \in Run : s = req[q].run
    BY <1>4, WorkTypes DEF Timeout, InFlight
  <2>2. /\ worker'[s].st = "killed" /\ worker'[s].ws = worker[s].ws
        /\ worker'[s].containerEnd = worker[s].containerEnd
        /\ \A x \in Run \ {s} : worker'[x] = worker[x]
    BY <1>0, <1>4, <2>1 DEF Timeout, WorkerRow, WorkerState
  <2> QED
    BY <2>2
<1>7. ASSUME NEW q \in Req, CollectError(q) PROVE Goes
  <2>1. PICK s \in Run : s = req[q].run
    BY <1>7, WorkTypes DEF CollectError, InFlight
  <2>2. PICK rc : rc = IF Running(s) THEN 1 ELSE worker[s].rc
    OBVIOUS
  <2>3. worker' = [worker EXCEPT ![s] = [worker[s] EXCEPT !.st = "unread", !.rc = rc]]
    BY <1>0, <1>7, <2>1, <2>2 DEF CollectError
  <2>4. /\ worker'[s].st = "unread" /\ worker'[s].ws = worker[s].ws
        /\ worker'[s].containerEnd = worker[s].containerEnd
        /\ \A x \in Run \ {s} : worker'[x] = worker[x]
    BY <1>0, <2>3 DEF WorkerRow, WorkerState
  <2> QED
    BY <2>4
<1>5. ASSUME NEW q \in Req, Spawn(q), ~(worker'[r] = worker[r]), ~Goes
      PROVE  /\ req[q].pc = "guarded" /\ req[q].run = r
             /\ worker'[r].ws = req[q].ws /\ worker'[r].st = "spawned" /\ worker'[r].containerEnd = 0
  <2>1. PICK s \in Run : s = req[q].run
    BY <1>5, WorkTypes DEF Spawn, InFlight
  <2>2. worker' = [worker EXCEPT ![s] =
          [st |-> "spawned", ws |-> req[q].ws, envExpires |-> req[q].claimedAt + LeaseTTL,
           deadline |-> now + WorkerTimeout, containerEnd |-> 0, rc |-> 0]]
    BY <1>2, <1>5, <2>1 DEF Spawn
  <2>3. /\ worker'[s].ws = req[q].ws /\ worker'[s].st = "spawned" /\ worker'[s].containerEnd = 0
        /\ \A x \in Run \ {s} : worker'[x] = worker[x]
    BY <1>0, <2>2
  <2> QED
    BY <1>5, <2>1, <2>3 DEF Spawn
<1>6. CASE worker' # worker /\ ~Goes
  <2>1. PICK q \in Req : ThreadStep(q)
    BY <1>3, <1>6, <1>7 DEF LaunchNext, Create, Arrive, ResetWorkspace, Crash, TickStep, launchVars, allVars
  <2>2. Spawn(q)
    BY <1>2, <1>4, <1>6, <2>1 DEF ThreadStep, Validate, ClaimStep, Admit, Recheck, Isolate,
       IssueGuardLease, Collect, CleanAfterExit, CleanAfterTimeout, CleanAfterError, Settle, Quarantine,
       ReleaseStep, Keep
  <2> QED
    BY <1>1, <1>5, <2>2
<1> QED
  BY <1>1, <1>6

\* Time does not run backwards.
LEMMA TimeAfter ==
  ASSUME LaunchInv, [LaunchNext]_allVars
  PROVE  now' \in Nat /\ now <= now'
<1>0. now \in Nat
  BY WorkTypes
<1>1. CASE TickStep
  BY <1>0, <1>1 DEF TickStep, Tick
<1>2. CASE now' = now
  BY <1>0, <1>2
<1>3. CASE ~TickStep
  <2>1. ASSUME NEW q \in Req, ThreadStep(q) \/ CollectError(q) PROVE now' = now
    <3>1. CASE ClaimStep(q)
      BY <3>1 DEF ClaimStep, ClaimWorkspace, StoreUnchanged, vars
    <3>2. CASE ReleaseStep(q)
      BY <3>2 DEF ReleaseStep, Release, StoreUnchanged, vars
    <3>3. CASE ~ClaimStep(q) /\ ~ReleaseStep(q)
      <4>1. StoreUnchanged
        BY <2>1, <3>3 DEF ThreadStep, Validate, Admit, Recheck, Isolate, IssueGuardLease, Spawn, Collect,
           Timeout, CleanAfterExit, CleanAfterTimeout, CleanAfterError, CollectError, Settle, Quarantine, Keep
      <4> QED
        BY <4>1 DEF StoreUnchanged, vars
    <3> QED
      BY <3>1, <3>2, <3>3
  <2>2. \A r \in Run : PaidCheck(r) \/ PaidStart(r) \/ StartContainer(r) \/ Work(r) \/ WorkerExit(r) => now' = now
    BY DEF PaidCheck, PaidStart, StartContainer, Work, WorkerExit, StoreUnchanged, vars
  <2>3. Create \/ Crash \/ (\E w \in Worktree : ResetWorkspace(w))
          \/ (\E q \in Req, t \in Task, r \in Run, w \in Worktree : Arrive(q, t, r, w))
          \/ UNCHANGED allVars => now' = now
    BY DEF Create, CreateTask, Crash, ResetWorkspace, Arrive, StoreUnchanged, vars, allVars
  <2> QED
    BY <1>2, <1>3, <2>1, <2>2, <2>3 DEF LaunchNext
<1> QED
  BY <1>1, <1>3

\* A claim's first use of its lease comes while the lease is still its own: the
\* minutes from a claim to the start of its container fit its 1800 s.
StartsInLease == Startup < LeaseTTL

\* A worker that may still start a container owns the lease of its worktree.
LEMMA StarterOwns ==
  ASSUME StartsInLease, LaunchInv, WorkInv, NEW r \in Run, worker[r].st \in {"spawned", "checked", "paid"}
  PROVE  /\ now < worker[r].envExpires /\ worker[r].envExpires \in Nat /\ runs[r].task \in Task
         /\ OwnsOn(leases, now, r, runs[r].task, worker[r].envExpires, worker[r].ws)
<1>1. WorkerOK(r) /\ worker[r].envExpires \in Nat
  BY WorkTypes DEF WorkInv
<1>2. now <= worker[r].envExpires - LeaseTTL + Startup
  BY <1>1 DEF WorkerOK
<1>3. now < worker[r].envExpires
  BY <1>1, <1>2, WorkTypes DEF StartsInLease
<1> QED
  BY <1>1, <1>3 DEF WorkerOK, Writing

\* The paid start is written a Git snapshot after its check, and still under
\* the run's own live lease, when a start-up's minutes fit the lease: without
\* that bound nothing in the worker would notice that the lease ended between.
THEOREM PaidWithAuthority ==
  ASSUME StartsInLease
  PROVE  LaunchSpec => PaidUnderLiveLease
<1>1. LaunchInv /\ WorkInv /\ [LaunchNext]_allVars =>
        [\A r \in Run : worker[r].st # "paid" /\ worker'[r].st = "paid" =>
           Live(runs[r].task) /\ leases[runs[r].task].run = r]_allVars
  <2> SUFFICES ASSUME LaunchInv, WorkInv, [LaunchNext]_allVars, NEW r \in Run,
                      worker[r].st # "paid", worker'[r].st = "paid"
               PROVE  Live(runs[r].task) /\ leases[runs[r].task].run = r
    OBVIOUS
  <2>1. worker[r].st = "checked"
    BY WorkerAfter
  <2>2. /\ now < worker[r].envExpires /\ worker[r].envExpires \in Nat /\ runs[r].task \in Task
        /\ OwnsOn(leases, now, r, runs[r].task, worker[r].envExpires, worker[r].ws)
    BY <2>1, StarterOwns
  <2> QED
    BY <2>2, WorkTypes DEF OwnsOn, Live
<1> QED
  BY <1>1, AlwaysWorkInv, PTL DEF LaunchSpec, PaidUnderLiveLease

\* So does a thread that is about to spawn one.
LEMMA SpawnerOwns ==
  ASSUME StartsInLease, LaunchInv, WorkInv, NEW q \in Req, req[q].pc \in PreSpawn
  PROVE  /\ now < req[q].claimedAt + LeaseTTL /\ req[q].claimedAt + LeaseTTL \in Nat
         /\ req[q].run \in Run /\ req[q].task \in Task
         /\ worker[req[q].run].st = "none"
         /\ OwnsOn(leases, now, req[q].run, req[q].task, req[q].claimedAt + LeaseTTL, req[q].ws)
<1>1. ThreadOK(q) /\ req[q].pc \in Claimed /\ InFlight(q) /\ req[q].claimedAt \in Nat
  BY ClaimedInFlight, WorkTypes DEF WorkInv, Claimed
<1>2. now <= req[q].claimedAt + Startup
  BY <1>1 DEF ThreadOK
<1>3. now < req[q].claimedAt + LeaseTTL /\ req[q].claimedAt + LeaseTTL \in Nat
  BY <1>1, <1>2, WorkTypes DEF StartsInLease
<1> QED
  BY <1>1, <1>3, WorkTypes DEF ThreadOK

\* Two workers on one worktree may not both start a container.
LEMMA StartersApart ==
  ASSUME StartsInLease, LaunchInv, WorkInv, NEW r \in Run, NEW s \in Run, r # s,
         worker[r].st \in {"spawned", "checked", "paid"}, worker[s].st \in {"spawned", "checked", "paid"}
  PROVE  worker[r].ws # worker[s].ws
BY StarterOwns, OwnersApart

\* Nor may one while another's thread is about to spawn there.
LEMMA StarterAndSpawnerApart ==
  ASSUME StartsInLease, LaunchInv, WorkInv, NEW r \in Run, NEW q \in Req,
         worker[r].st \in {"spawned", "checked", "paid"}, req[q].pc \in PreSpawn
  PROVE  worker[r].ws # req[q].ws
<1>1. r # req[q].run
  BY SpawnerOwns
<1> QED
  BY <1>1, StarterOwns, SpawnerOwns, OwnersApart

\* A thread that has looked for containers, and a worker it spawned, have the
\* worktree to themselves.
ApartInv ==
  /\ \A q \in Req, r \in Run :
       req[q].pc \in IsolatedPC /\ worker[r].ws = req[q].ws => ~HasContainer(r)
  /\ \A r, s \in Run :
       r # s /\ worker[r].ws = worker[s].ws /\ (HasContainer(s) \/ worker[s].st \in {"spawned", "checked", "paid"})
         => ~HasContainer(r)

\* A container was there before or belongs to a worker that has paid.
LEMMA ContainerAfter ==
  ASSUME LaunchInv, [LaunchNext]_allVars, NEW r \in Run, HasContainer(r)'
  PROVE  worker'[r].ws = worker[r].ws /\ (HasContainer(r) \/ worker[r].st = "paid")
<1>1. now \in Nat /\ now' \in Nat /\ now <= now' /\ now' < worker'[r].containerEnd
  BY TimeAfter, WorkTypes DEF HasContainer
<1>2. worker'[r].containerEnd # 0 /\ worker[r].containerEnd \in Nat
  BY <1>1, WorkTypes
<1> QED
  BY <1>1, <1>2, WorkerAfter DEF HasContainer

\* Nobody gets a container on a worktree another has to itself.
LEMMA ApartStep ==
  ASSUME StartsInLease, LaunchInv, WorkInv, ApartInv, [LaunchNext]_allVars
  PROVE  ApartInv'
<1>1. ASSUME NEW q \in Req, NEW r \in Run, req'[q].pc \in IsolatedPC, worker'[r].ws = req'[q].ws,
             HasContainer(r)'
      PROVE  FALSE
  <2>1. worker'[r].ws = worker[r].ws /\ (HasContainer(r) \/ worker[r].st = "paid")
    BY <1>1, ContainerAfter
  <2>2. /\ req'[q].ws = req[q].ws
        /\ req[q].pc \in IsolatedPC \/ (ContainersOn(req[q].ws) = {} /\ UNCHANGED <<now, worker>>)
    BY <1>1, CheckedAfter DEF CheckedPC, IsolatedPC
  <2>3. CASE req[q].pc \in IsolatedPC
    <3>1. worker[r].st = "paid"
      BY <1>1, <2>1, <2>2, <2>3 DEF ApartInv
    <3> QED
      BY <1>1, <2>1, <2>2, <2>3, <3>1, StarterAndSpawnerApart DEF IsolatedPC, PreSpawn
  <2>4. CASE ContainersOn(req[q].ws) = {} /\ UNCHANGED <<now, worker>>
    BY <1>1, <2>2, <2>4 DEF ContainersOn, HasContainer
  <2> QED
    BY <2>2, <2>3, <2>4
<1>2. ASSUME NEW r \in Run, NEW s \in Run, r # s, worker'[r].ws = worker'[s].ws, HasContainer(r)',
             HasContainer(s)' \/ worker'[s].st \in {"spawned", "checked", "paid"}
      PROVE  FALSE
  <2>1. worker'[r].ws = worker[r].ws /\ (HasContainer(r) \/ worker[r].st = "paid")
    BY <1>2, ContainerAfter
  <2>2. CASE worker'[s].ws = worker[s].ws /\ (HasContainer(s) \/ worker[s].st \in {"spawned", "checked", "paid"})
    <3>1. worker[r].ws = worker[s].ws
      BY <1>2, <2>1, <2>2
    <3>2. CASE HasContainer(r)
      BY <1>2, <2>2, <3>1, <3>2 DEF ApartInv
    <3>3. CASE worker[r].st = "paid" /\ HasContainer(s)
      BY <1>2, <3>1, <3>3 DEF ApartInv
    <3>4. CASE worker[r].st = "paid" /\ worker[s].st \in {"spawned", "checked", "paid"}
      BY <1>2, <3>1, <3>4, StartersApart
    <3> QED
      BY <2>1, <2>2, <3>2, <3>3, <3>4
  <2>3. CASE \E q \in Req : req[q].pc = "guarded" /\ worker'[s].ws = req[q].ws
    <3>1. PICK q \in Req : req[q].pc = "guarded" /\ worker[r].ws = req[q].ws
      BY <1>2, <2>1, <2>3
    <3>2. CASE HasContainer(r)
      BY <3>1, <3>2 DEF ApartInv, IsolatedPC
    <3>3. CASE worker[r].st = "paid"
      BY <3>1, <3>3, StarterAndSpawnerApart DEF PreSpawn
    <3> QED
      BY <2>1, <3>2, <3>3
  <2> QED
    BY <1>2, <2>2, <2>3, ContainerAfter, WorkerAfter
<1> QED
  BY <1>1, <1>2 DEF ApartInv, HasContainer

\* One worktree has one writer, also when the thread that started it died with
\* the daemon.  A lease guards it until its container has started; from then on
\* the container does, since the next launch looks for one: however long a
\* container lives on after its lease.
THEOREM OneWriter ==
  ASSUME StartsInLease
  PROVE  LaunchSpec => []OneWriterPerWorkspace
<1>1. ASSUME LaunchInit PROVE ApartInv
  BY <1>1 DEF LaunchInit, Init, ApartInv, HasContainer, IsolatedPC
<1>2. LaunchInv /\ WorkInv /\ ApartInv /\ [LaunchNext]_allVars => ApartInv'
  BY ApartStep
<1>3. ASSUME LaunchInv, WorkInv, ApartInv PROVE OneWriterPerWorkspace
  <2> SUFFICES ASSUME NEW r \in Run, NEW s \in Run, r # s, Writing(r), Writing(s),
                      worker[r].ws = worker[s].ws
               PROVE  FALSE
    BY DEF OneWriterPerWorkspace
  <2>1. CASE HasContainer(r) \/ HasContainer(s)
    BY <1>3, <2>1 DEF ApartInv, Writing
  <2>2. CASE worker[r].st = "paid" /\ worker[s].st = "paid"
    BY <1>3, <2>2, StartersApart
  <2> QED
    BY <2>1, <2>2 DEF Writing
<1> QED
  BY <1>1, <1>2, <1>3, AlwaysWorkInv, PTL DEF LaunchSpec
-----------------------------------------------------------------------------
(* Markers.                                                                 *)

\* A marker is set by a thread that claimed the worktree.
LEMMA QuarantineAfter ==
  ASSUME [LaunchNext]_allVars, quarantined' # quarantined
  PROVE  \E p \in Req : req[p].pc \in Finishing /\ quarantined' \subseteq quarantined \cup {req[p].ws}
<1>1. PICK p \in Req : Settle(p) \/ Quarantine(p)
  BY DEF LaunchNext, Create, Arrive, ThreadStep, Validate, ClaimStep, Admit, Recheck, Isolate,
     IssueGuardLease, Spawn, Collect, CollectError, Timeout, CleanAfterExit, CleanAfterTimeout,
     CleanAfterError, ReleaseStep, Keep, PaidCheck, PaidStart, StartContainer, Work, WorkerExit, ResetWorkspace, Crash, TickStep, allVars, launchVars
<1> QED
  BY <1>1 DEF Settle, Quarantine, Finishing

\* A thread that is past its claim is done before the lease it was given ends:
\* the 1200 s a worker may take, some 270 s before and 240 s after it, within
\* 1800 s.
EndsInLease == Startup + WorkerTimeout + Cleanup < LeaseTTL

\* Two threads that claimed in time are not on one worktree.
LEMMA ThreadsApart ==
  ASSUME EndsInLease, LaunchInv, WorkInv, NEW p \in Req, NEW q \in Req, p # q,
         req[p].pc \in Claimed, req[q].pc \in Claimed
  PROVE  req[p].ws # req[q].ws
<1> SUFFICES ASSUME req[p].ws = req[q].ws PROVE FALSE
  OBVIOUS
<1>1. ASSUME NEW x \in Req, req[x].pc \in Claimed
      PROVE  /\ req[x].run \in Run /\ req[x].task \in Task /\ req[x].claimedAt + LeaseTTL \in Nat
             /\ now < req[x].claimedAt + LeaseTTL
             /\ OwnsOn(leases, now, req[x].run, req[x].task, req[x].claimedAt + LeaseTTL, req[x].ws)
  <2>1. ThreadOK(x) /\ InFlight(x) /\ req[x].claimedAt \in Nat
    BY <1>1, ClaimedInFlight, WorkTypes DEF WorkInv
  <2>2. now <= req[x].claimedAt + Startup + WorkerTimeout + Cleanup
    BY <1>1, <2>1 DEF ThreadOK
  <2>3. now < req[x].claimedAt + LeaseTTL /\ req[x].claimedAt + LeaseTTL \in Nat
    BY <2>1, <2>2, WorkTypes DEF EndsInLease
  <2> QED
    BY <1>1, <2>1, <2>3, WorkTypes DEF ThreadOK
<1>2. req[p].run # req[q].run
  BY ClaimedInFlight DEF LaunchInv, SingleFlight
<1> QED
  BY <1>1, <1>2, OwnersApart

\* Every step keeps the readiness a thread relies on.
LEMMA CheckedStep ==
  ASSUME EndsInLease, LaunchInv, WorkInv, CheckedInv, [LaunchNext]_allVars
  PROVE  CheckedInv'
<1> SUFFICES ASSUME NEW q \in Req, req'[q].pc \in CheckedPC PROVE req'[q].ws \notin quarantined'
  BY DEF CheckedInv, CheckedPC
<1>1. req'[q].ws = req[q].ws /\ req[q].ws \notin quarantined
  BY CheckedAfter DEF CheckedInv, CheckedPC
<1>2. CASE quarantined' # quarantined
  <2>1. PICK p \in Req : req[p].pc \in Finishing /\ quarantined' \subseteq quarantined \cup {req[p].ws}
    BY <1>2, QuarantineAfter
  <2>2. req[q].pc \in CheckedPC
    BY <1>2, CheckedAfter
  <2>3. p # q /\ req[p].pc \in Claimed /\ req[q].pc \in Claimed
    BY <2>1, <2>2 DEF Claimed, CheckedPC, Finishing, PreSpawn
  <2> QED
    BY <1>1, <2>1, <2>3, ThreadsApart
<1> QED
  BY <1>1, <1>2

\* The readiness check and the spawn are steps apart, yet no marker comes
\* between them: who could set one holds the worktree's lease no more.
THEOREM NoneSpawnedInQuarantine ==
  ASSUME EndsInLease
  PROVE  LaunchSpec => NoSpawnInQuarantine
<1>1. LaunchInit => CheckedInv
  BY DEF LaunchInit, CheckedInv
<1>2. LaunchInv /\ WorkInv /\ CheckedInv /\ [LaunchNext]_allVars => CheckedInv'
  BY CheckedStep
<1>3. LaunchInv /\ CheckedInv /\ [LaunchNext]_allVars =>
        [\A r \in Run :
           worker[r].st # "spawned" /\ worker'[r].st = "spawned" => worker'[r].ws \notin quarantined]_allVars
  BY WorkerAfter DEF CheckedInv
<1> QED
  BY <1>1, <1>2, <1>3, AlwaysWorkInv, PTL DEF LaunchSpec, NoSpawnInQuarantine
=============================================================================
