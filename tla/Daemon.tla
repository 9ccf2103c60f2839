-------------------------------- MODULE Daemon --------------------------------
(***************************************************************************)
(* ForgeBossDaemon.dispatch (forgeboss/control/daemon.py): the mutating    *)
(* methods, each served by a thread behind the idempotency table of module *)
(* Idempotency, on the store of module ControlStore, with the policy of    *)
(* module ReuseGate in front of task.create_governed and the attestation   *)
(* of forgeboss/control/governed_launch.py in front of a governed claim.   *)
(*                                                                         *)
(* A request runs between TakeKey and Finish of its thread.  Any step may  *)
(* end in an error: what the code rejects is an error that is always       *)
(* possible, what it accepts has its conditions.  Between the claim and    *)
(* the release of a governed run the host launcher works; module           *)
(* GovernedLaunch has its steps, here only its outcome matters.  A restart *)
(* keeps the database, the secrets and what was signed, and forgets the    *)
(* table, the active runs and the threads.                                 *)
(***************************************************************************)
EXTENDS Idempotency

CONSTANTS
  Task, Run, Repo, Commit, Worktree, Path, Below, Profile, Outcome, TTL,
  Cost, MaxTime, MaxEvents,                         \* of ControlStore
  Form,         \* request digest -> its method and parameters
  Canon, Issued, Skew, MaxExemption, MaxReceipt,    \* of ReuseGate
  Sensitive,    \* canonical paths validate_packet refuses
  Budget,       \* budgetUsd of every task and claim
  LeaseTTL,     \* ttlSeconds of a claim
  AttestTTL,    \* ttl_seconds of a launch attestation (120 s)
  MaxRestarts   \* bound: restarts of the daemon

INSTANCE ReuseGate

ASSUME DaemonConstants ==
  /\ Thread \subseteq Nat /\ Key \subseteq Nat
  /\ Result = {"done", "failed"} /\ Failure = {"failed"}
  /\ {Skew, MaxExemption, MaxReceipt, Budget, LeaseTTL, AttestTTL, MaxRestarts} \subseteq Nat
  /\ LeaseTTL \in TTL /\ Budget \in Cost
  /\ "absent" \notin Outcome
  /\ \A q \in Request : Form[q].order.task \in Task
  /\ None \notin WorkKinds
  /\ None \notin [req : Request, kind : WorkKinds \cup {None}, judged : Nat]

VARIABLES
  tasks, leases, runs, events, now,  \* of ControlStore
  filed,      \* Task -> the columns create_task writes and nobody changes
  work,       \* Thread -> what its request has done so far
  active,     \* active_governed_runs
  usedKeys,   \* runs whose internal claim key is taken
  envelopes,  \* history: the launch envelopes signed
  restarts

Store == INSTANCE ControlStore

storeVars == <<tasks, leases, runs, events, now>>
daemonVars == <<filed, work, active, usedKeys, envelopes, restarts>>
dispatchVars == <<idemVars, storeVars, daemonVars>>

Idle == [step |-> "none", judged |-> 0, attestation |-> None]

DaemonInit ==
  /\ IdemInit /\ Store!Init
  /\ filed = [t \in Task |-> None]
  /\ work = [c \in Thread |-> Idle]
  /\ active = {} /\ usedKeys = {} /\ envelopes = {} /\ restarts = 0
-----------------------------------------------------------------------------
(* Helpers.                                                                *)

Exists(t) == filed[t] # None
Governed(t) == Exists(t) /\ filed[t].kind # None

OrderOf(t) == Form[filed[t].req].order
EvidenceOf(t) == Form[filed[t].req].ev

\* Its governance columns come from the policy, not from the request.
Evaluated(t) == Exists(t) /\ Form[filed[t].req].m = "govern"

\* The request a thread executes.
Asked(c) == Form[thread[c].req]
Doing(c, m) == thread[c].pc = "running" /\ Asked(c).m = m
At(c, step) == work[c].step = step

Goto(c, step) == work' = [work EXCEPT ![c].step = step]

\* validate_packet: canonically distinct and not sensitive.
ValidScope(S) ==
  /\ S # {} /\ \A x, y \in S : Canon[x] = Canon[y] => x = y
  /\ CanonSet(S) \cap (Sensitive \cup {None}) = {}

ProfileOf(o) ==
  [repo |-> Canon[o.repo], scope |-> CanonSet(o.paths), base |-> Canon[o.base],
   allocated |-> Budget]

\* The governance columns a creation brings: a plain one those its client sent,
\* a governed one those of its evaluation.  A digest is what it is taken of.
Ungoverned == [mode |-> None, kind |-> None, exemption |-> None, review |-> None, receipt |-> None]
Columns(q) ==
  IF q.m = "create" THEN q.gov
  ELSE [mode |-> "reuse-v1", kind |-> WorkKind(q.ev), exemption |-> q.ev.exemption,
        review |-> q.ev.review, receipt |-> q.ev.receipt]

\* _governance_fields: none without a mode; else evidence of one kind only.
ColumnsOk(o, g) ==
  \/ g = Ungoverned /\ o.subsystem = None
  \/ /\ g.mode = "reuse-v1" /\ g.kind \in WorkKinds
     /\ o.subsystem # None /\ Canon[o.subsystem] = o.subsystem
     /\ IF g.kind = "small-repair"
        THEN g.exemption # None /\ g.review = None /\ g.receipt = None
        ELSE g.exemption = None /\ g.review # None /\ g.receipt # None
-----------------------------------------------------------------------------
(* task.create and task.create_governed.                                   *)

Insert(c, judged) ==
  LET q == Asked(c) IN
  /\ ColumnsOk(q.order, Columns(q))
  /\ Store!CreateTask(q.order.task, ProfileOf(q.order))
  /\ filed' = [filed EXCEPT ![q.order.task] =
       [req |-> thread[c].req, kind |-> Columns(q).kind, judged |-> judged]]
  /\ Finish(c, "done") /\ work' = [work EXCEPT ![c] = Idle]
  /\ UNCHANGED <<active, usedKeys, envelopes, restarts>>

\* The parameters go to the store as they came.
CreateTask(c) ==
  /\ Doing(c, "create") /\ ValidScope(Asked(c).order.paths)
  /\ Insert(c, now)

\* An evaluation that takes every exemption on trust.
MutJudge(c) ==
  LET q == Asked(c) IN
  /\ Doing(c, "govern") /\ At(c, "none")
  /\ ValidScope(q.order.paths) /\ (q.ev.exemption # None \/ Authorised(q.order, q.ev, now))
  /\ work' = [work EXCEPT ![c] = [step |-> "approved", judged |-> now, attestation |-> None]]
  /\ UNCHANGED <<idemVars, storeVars, filed, active, usedKeys, envelopes, restarts>>

\* The policy is evaluated before, and outside, the store's transaction.
Judge(c) ==
  LET q == Asked(c) IN
  /\ Doing(c, "govern") /\ At(c, "none")
  /\ ValidScope(q.order.paths) /\ Authorised(q.order, q.ev, now)
  /\ work' = [work EXCEPT ![c] = [step |-> "approved", judged |-> now, attestation |-> None]]
  /\ UNCHANGED <<idemVars, storeVars, filed, active, usedKeys, envelopes, restarts>>

CreateGoverned(c) ==
  /\ Doing(c, "govern") /\ At(c, "approved")
  /\ Insert(c, work[c].judged)
-----------------------------------------------------------------------------
(* workspace.claim, by its two callers.                                    *)

\* The store's claim and the envelope signed for it.
Claim(c, t, r, w, paths, by) ==
  /\ Store!ClaimWorkspace(t, r, w, Store!ExpectedHead(t), LeaseTTL, Budget)
  /\ envelopes' = envelopes \cup
       {[task |-> t, run |-> r, epoch |-> Store!NextEpoch(t), worktree |-> w,
         base |-> tasks[t].base, paths |-> paths, by |-> by, expires |-> now + LeaseTTL]}
  /\ UNCHANGED <<filed, restarts>>

\* A guard that knows the governed tasks of its own life only.
MutOpenToAll(t) == Exists(t) /\ (Governed(t) => restarts > 0)

\* Direct claims, heartbeats and releases are for legacy tasks only.
OpenToAll(t) == Exists(t) /\ ~Governed(t)

\* SCOPE_ESCALATION otherwise.
Within(paths, t) == CanonSet(paths) \subseteq tasks[t].scope

DirectClaim(c) ==
  LET q == Asked(c)  t == q.order.task IN
  /\ Doing(c, "claim") /\ OpenToAll(t)
  /\ q.order.repo = OrderOf(t).repo /\ q.order.base = tasks[t].base
  /\ ValidScope(q.order.paths) /\ Within(q.order.paths, t)
  /\ Claim(c, t, q.run, q.worktree, CanonSet(q.order.paths), "claim")
  /\ Finish(c, "done") /\ UNCHANGED <<work, active, usedKeys>>

DirectHeartbeat(c) ==
  LET q == Asked(c)  t == q.order.task IN
  /\ Doing(c, "heartbeat") /\ OpenToAll(t)
  /\ Store!Heartbeat(t, q.run, leases[t].epoch, LeaseTTL, None, None)
  /\ Finish(c, "done") /\ UNCHANGED daemonVars

DirectRelease(c) ==
  LET q == Asked(c)  t == q.order.task IN
  /\ Doing(c, "release") /\ OpenToAll(t)
  /\ \E o \in Outcome : Store!Release(t, q.run, leases[t].epoch, None, o, None)
  /\ Finish(c, "done") /\ UNCHANGED daemonVars
-----------------------------------------------------------------------------
(* run.launch_governed.                                                    *)

Reserve(c) ==
  LET q == Asked(c) IN
  /\ Doing(c, "launch") /\ At(c, "none") /\ Governed(q.order.task)
  /\ runs[q.run].status = "absent" /\ q.run \notin active
  /\ active' = active \cup {q.run} /\ Goto(c, "reserved")
  /\ UNCHANGED <<idemVars, storeVars, filed, usedKeys, envelopes, restarts>>

\* A run that is over is answered from its row.
Replayed(c) ==
  LET q == Asked(c) IN
  /\ Doing(c, "launch") /\ At(c, "none") /\ Governed(q.order.task)
  /\ runs[q.run].status \notin {"absent", "running"} /\ runs[q.run].task = q.order.task
  /\ Finish(c, "done") /\ UNCHANGED <<storeVars, daemonVars>>

\* issue_governed_launch_attestation: from the task's row, for this run.
Attestation(c) ==
  LET q == Asked(c)  t == q.order.task IN
  [task |-> t, repo |-> tasks[t].repo, base |-> tasks[t].base, run |-> q.run,
   worktree |-> q.worktree, paths |-> tasks[t].scope, issued |-> now, expires |-> now + AttestTTL]

Attest(c) ==
  /\ Doing(c, "launch") /\ At(c, "reserved") /\ tasks[Asked(c).order.task].scope # {}
  /\ work' = [work EXCEPT ![c] = [step |-> "attested", judged |-> 0, attestation |-> Attestation(c)]]
  /\ UNCHANGED <<idemVars, storeVars, filed, active, usedKeys, envelopes, restarts>>

\* verify_governed_launch_attestation, against the parameters of the claim.
Attested(c) ==
  LET a == work[c].attestation  q == Asked(c) IN
  /\ now < a.expires /\ a.expires - a.issued <= AttestTTL
  /\ <<a.task, a.run, a.worktree>> = <<q.order.task, q.run, q.worktree>>
  /\ <<a.repo, a.base>> = <<tasks[a.task].repo, tasks[a.task].base>>
  /\ a.paths \subseteq tasks[a.task].scope

\* The claim dispatched with the daemon's own capability, under a key that
\* serves one attempt per run and daemon life.
GovernedClaim(c) ==
  LET a == work[c].attestation IN
  /\ Doing(c, "launch") /\ At(c, "attested") /\ a.run \notin usedKeys /\ Attested(c)
  /\ Claim(c, a.task, a.run, a.worktree, a.paths, "launch")
  /\ usedKeys' = usedKeys \cup {a.run} /\ Goto(c, "claimed")
  /\ UNCHANGED <<idemVars, active>>

\* verify_envelope, of what this daemon signed.
Verified(e) == e.expires > now

\* worker.admit: the envelope is verified and its run is the writer.
Admit(c) ==
  LET q == Asked(c)  t == q.order.task IN
  /\ Doing(c, "launch") /\ At(c, "claimed")
  /\ \E e \in envelopes :
       /\ e.task = t /\ e.run = q.run /\ Verified(e)
       /\ Store!WriterAuthority(t, e.run, e.epoch, None) /\ e.worktree = leases[t].worktree
  /\ Goto(c, "admitted")
  /\ UNCHANGED <<idemVars, storeVars, filed, active, usedKeys, envelopes, restarts>>

\* The worker is over, its lease released or kept (module GovernedLaunch).
Settle(c, res) ==
  LET q == Asked(c)  t == q.order.task IN
  /\ Doing(c, "launch") /\ At(c, "admitted")
  /\ \/ \E o \in Outcome : Store!Release(t, q.run, runs[q.run].epoch, None, o, None)
     \/ res = "failed" /\ UNCHANGED storeVars
  /\ Finish(c, res) /\ work' = [work EXCEPT ![c] = Idle] /\ active' = active \ {q.run}
  /\ UNCHANGED <<filed, usedKeys, envelopes, restarts>>

\* An error before the worker started; the `finally' frees the run id, and
\* the attempt of a claim has used its key.
Error(c) ==
  LET q == Asked(c) IN
  /\ thread[c].pc = "running" /\ ~At(c, "admitted")
  /\ Finish(c, "failed") /\ work' = [work EXCEPT ![c] = Idle]
  /\ active' = IF q.m = "launch" /\ ~At(c, "none") THEN active \ {q.run} ELSE active
  /\ usedKeys' = IF At(c, "attested") THEN usedKeys \cup {q.run} ELSE usedKeys
  /\ UNCHANGED <<storeVars, filed, envelopes, restarts>>
-----------------------------------------------------------------------------
(* The daemon.                                                             *)

\* Calls are numbered as they arrive and keys as they are first sent.
Numbered(c, k) ==
  /\ \A d \in Thread : d < c => thread[d].pc # "idle"
  /\ \A j \in Key : j < k => \E d \in Thread : thread[d].key = j

\* _idem's critical sections and the wait.
Arrive(c) ==
  /\ \E k \in Key, q \in Request : Numbered(c, k) /\ (TakeKey(c, k, q) \/ FindKey(c, k, q))
  /\ UNCHANGED <<storeVars, daemonVars>>

LookAgain(c) == Wake(c) /\ UNCHANGED <<storeVars, daemonVars>>

Execute(c) ==
  \/ Error(c)
  \/ CreateTask(c) \/ Judge(c) \/ CreateGoverned(c)
  \/ DirectClaim(c) \/ DirectHeartbeat(c) \/ DirectRelease(c)
  \/ Reserve(c) \/ Replayed(c) \/ Attest(c) \/ GovernedClaim(c) \/ Admit(c)
  \/ \E res \in Result : Settle(c, res)

RestartDaemon ==
  /\ restarts < MaxRestarts
  /\ Restart
  /\ work' = [c \in Thread |-> Idle] /\ active' = {} /\ usedKeys' = {}
  /\ restarts' = restarts + 1
  /\ UNCHANGED <<storeVars, filed, envelopes>>

Tick == Store!Tick /\ UNCHANGED <<idemVars, daemonVars>>

DaemonNext ==
  \/ \E c \in Thread : Arrive(c) \/ LookAgain(c) \/ Execute(c)
  \/ RestartDaemon
  \/ Tick

DaemonSpec == DaemonInit /\ [][DaemonNext]_dispatchVars

\* Some thread that can move does: threads are scheduled, and every call into
\* the store or the launcher ends.  No thread needs more, its steps are few.
FairDaemonSpec ==
  DaemonSpec /\ WF_dispatchVars(\E c \in Thread : LookAgain(c) \/ Execute(c))
-----------------------------------------------------------------------------
(* Properties.                                                             *)

\* An acknowledged creation stands: whoever was told "done", by its own
\* execution, by the table or by a retry, finds exactly the task it asked for,
\* governed or not as it asked, whatever other calls, restarts and pruned
\* answers came between.
AcknowledgedCreation ==
  \A c \in Thread :
    LET q == Asked(c) IN
    thread[c].reply = "done" /\ q.m \in {"create", "govern"} =>
      /\ Exists(q.order.task) /\ tasks[q.order.task].status # "absent"
      /\ OrderOf(q.order.task) = q.order
      /\ filed[q.order.task].kind = Columns(q).kind

\* A task of task.create_governed was approved for what it is: some signed
\* token, in its time when it was judged, is about its task, repository, base,
\* objective and paths, and a substantial one about the very review that was
\* sent.  A plain task.create may bring governance columns of its own, which
\* nobody evaluates: no approval stands behind such a row.
ApprovalOf(t, a) ==
  /\ Bound(a, OrderOf(t))
  /\ a.issued - Skew <= filed[t].judged /\ filed[t].judged < a.expires
  /\ IF filed[t].kind = "small-repair" THEN a.type = "exemption"
     ELSE a.type = "receipt" /\ a.review = EvidenceOf(t).review
GovernedMeansApproved ==
  \A t \in Task : Evaluated(t) =>
    /\ Governed(t) /\ \E a \in Issued : ApprovalOf(t, a)
    /\ TaskReady(OrderOf(t), EvidenceOf(t), filed[t].judged)

\* Every envelope a worker may be admitted with is for a scope within its
\* task's, at its base; for a governed task it comes from a launch, and if the
\* policy evaluated the task its scope is within what an approval was signed for.
EnvelopesInScope ==
  \A e \in envelopes :
    /\ Exists(e.task) /\ e.base = Canon[OrderOf(e.task).base]
    /\ e.paths \subseteq CanonSet(OrderOf(e.task).paths)
    /\ Governed(e.task) => e.by = "launch"
    /\ Evaluated(e.task) =>
         \E a \in Issued : a.about.task = Canon[e.task] /\ e.paths \subseteq a.about.paths

\* The lease of a governed task is the daemon's own: it is made, and given
\* back, only by the thread that launches its run, never by another call.
GovernedLeaseInternal ==
  [][\A t \in Task : Governed(t) /\ leases'[t] # leases[t] =>
       \E c \in Thread :
         /\ thread[c].pc = "running" /\ Asked(c).m = "launch"
         /\ Asked(c).order.task = t /\ Asked(c).run = leases'[t].run
         /\ leases'[t].run \in active]_dispatchVars
=============================================================================
