---------------------------- MODULE ExecutorGuard ----------------------------
(***************************************************************************)
(* The executor guard (forgeboss/security/executor_guard.py) around one    *)
(* worktree, and the runners that work under its leases                    *)
(* (forgeboss/executors/*.py, *.js).                                       *)
(*                                                                         *)
(* An issuer, a runner and a container are processes of their own.  Issue, *)
(* verification and paid start hold the workspace fence from step to step; *)
(* postflight verifies under the fence, lets it go and takes it again.     *)
(* Containers never ask for it: they write between any two looks, and may  *)
(* put back what was there.  The packet file is the controller's, which    *)
(* writes a new one with every plan.  A process dies at any moment; the    *)
(* operating system then frees its fence and leaves its container.         *)
(*                                                                         *)
(* A path holds the committed content, an edit or a link.  One walk over   *)
(* the tree (links, snapshot, git status) is one look.  Paths are those of *)
(* the tree; the canonical forms of one name (norm, key) are one path.     *)
(***************************************************************************)
EXTENDS Integers, FiniteSets

CONSTANTS
  Lease,       \* lease files, each with the process that issues it
  Runner,      \* runner processes
  Path,        \* files of the worktree
  Ignored,     \* those git status does not report
  Sensitive,   \* those no packet may name
  Scope,       \* plan -> allowed_files of its packet
  Pinned,      \* plans whose packet names the head it expects
  Envelope,    \* allowedPaths of the signed control envelope
  Kind,        \* runners there are; see AllKinds
  Isolated,    \* FORGEBOSS_OS_ISOLATION_VERIFIED
  MaxPlans, MaxWrites, MaxDeaths,  \* bounds
  None         \* no value

Plan == 1..MaxPlans
Process == Lease \cup Runner
\* governed: mini-swe behind the daemon.  The last two ask for OS isolation.
AllKinds == {"governed", "mini-swe", "openhands", "opencode"}

ASSUME GuardConstants ==
  /\ None \notin Process /\ Lease \cap Runner = {} /\ Lease # {}
  /\ MaxPlans \in Nat \ {0} /\ {MaxWrites, MaxDeaths} \subseteq Nat
  /\ Kind # {} /\ Kind \subseteq AllKinds
  /\ Scope \in [Plan -> SUBSET Path] /\ Pinned \subseteq Plan
  /\ Ignored \subseteq Path /\ Sensitive \subseteq Path
  /\ Envelope \in SUBSET Path /\ Isolated \in BOOLEAN

VARIABLES
  plan,     \* the packet file's present content
  tree,     \* Path -> what the worktree holds
  history,  \* Git's configuration, refs and index
  fence,    \* the process in the workspace fence, or None
  lease,    \* Lease -> the lease file and its issue
  runner,   \* Runner -> its process
  writes, deaths  \* so far

guardVars == <<plan, tree, history, fence, lease, runner, writes, deaths>>

Content == {"head", "edit", "link"}
Tree == [Path -> Content]
Head == [p \in Path |-> "head"]
\* Git as it was; its refs, index or config changed; HEAD elsewhere; a remote;
\* a config that executes.
History == {"base", "altered", "moved", "remote", "unsafe"}

Executor(k) == IF k = "governed" THEN "mini-swe" ELSE k
IsolationOk(e) == e \in {"openhands", "opencode"} => Isolated
\* openhands_runner.py raises at its call of verify: it never imports subprocess.
CallsVerify(k) == k # "openhands"
Boxed(k) == k \in {"governed", "mini-swe"}   \* edits in a container of its own

\* Between two steps of an issue, and of a verification, in the fence.
Issuing == {"linkless", "before", "clean", "same"}
Fenced == {"linkless", "same", "checked", "relinked", "compared", "scanned"}

LeaseRow ==
  [st : Issuing \cup {"none", "read", "issued", "denied"},
   executor : {"mini-swe", "openhands", "opencode"}, scope : SUBSET Path,
   seen : Tree,                        \* before, then the lease's baseline
   packet : Plan, history : History,   \* packet: the one read, then the one leased
   consumed : BOOLEAN,
   excused : SUBSET Path]              \* history: see CleanBaseline

Ended == {"accepted", "failed", "dead"}
RunnerRow ==
  [pc : Ended \cup Fenced \cup {"idle", "start", "ready", "working", "stopped", "verified"},
   kind : AllKinds, lease : Lease, packet : Plan,
   box : BOOLEAN,                      \* its container is up
   paid : BOOLEAN,                     \* history: it passed paid_start_authority
   scan : Tree]                        \* the tree its postflight accepted

GuardTypeOK ==
  /\ plan \in Plan /\ tree \in Tree /\ history \in History
  /\ fence \in Process \cup {None}
  /\ lease \in [Lease -> LeaseRow] /\ runner \in [Runner -> RunnerRow]
  /\ writes \in Nat /\ deaths \in Nat
  /\ \A l \in Lease : lease[l].st \in Issuing <=> fence = l
  /\ \A r \in Runner : runner[r].pc \in Fenced <=> fence = r

-----------------------------------------------------------------------------
(* Helpers.                                                                *)

Changed(a, b) == {p \in Path : a[p] # b[p]}
Linked(t) == {p \in Path : t[p] = "link"}
Reported(t) == Changed(Head, t) \ Ignored

\* The parts of Git's state the guard's checks look at.
ExactHead(n, h) == n \in Pinned => h # "moved"
NoRemotes(h) == h # "remote"
ConfigSafe(h) == h # "unsafe"

\* A fence that lets everybody in.
MutFree == TRUE

Free == fence = None

\* validate_packet, path by path.
ValidPacket(n) == Scope[n] # {} /\ Scope[n] \cap Sensitive = {}

\* A verification that does not compare the packet file.
MutStillLeased(l, k) ==
  /\ lease[l].executor = Executor(k) /\ IsolationOk(Executor(k))
  /\ ValidPacket(plan) /\ Linked(tree) = {} /\ ExactHead(plan, history) /\ NoRemotes(history)

\* _verify_unlocked before it compares the source tree.
StillLeased(l, k) ==
  /\ lease[l].executor = Executor(k) /\ IsolationOk(Executor(k))
  /\ lease[l].packet = plan
  /\ ValidPacket(plan) /\ Linked(tree) = {} /\ ExactHead(plan, history) /\ NoRemotes(history)

\* Git's metadata can be taken, and is what the lease recorded.
GitAsLeased(l) == ConfigSafe(history) /\ history = lease[l].history

Untouched(l) == tree = lease[l].seen

\* The signed envelope speaks of this lease's paths, and nobody spent it yet.
Authorised(l) == ~lease[l].consumed /\ Envelope = lease[l].scope

\* opencode_runner.js only reads the packet when it prompts.
PromptPacket(r) == IF runner[r].kind = "opencode" THEN plan ELSE runner[r].packet

\* What a runner does next; everything else of it stays.
Step(r, pc) == runner' = [runner EXCEPT ![r].pc = pc]
Row(l, row) == lease' = [lease EXCEPT ![l] = row]

\* An issue's and a runner's next step inside the fence, or none and out.
IssueOn(l, row) == fence' = l /\ Row(l, row)
IssueDenied(l) == fence' = None /\ Row(l, [lease[l] EXCEPT !.st = "denied"])
RunOn(r, pc) == fence' = r /\ Step(r, pc)
RunOut(r, pc) == fence' = None /\ Step(r, pc)

-----------------------------------------------------------------------------
(* Issue.                                                                  *)

GuardInit ==
  /\ plan = 1 /\ tree = Head /\ history = "base" /\ fence = None /\ writes = 0 /\ deaths = 0
  /\ lease = [l \in Lease |->
       [st |-> "none", executor |-> "mini-swe", scope |-> {}, seen |-> Head, packet |-> 1,
        history |-> "base", consumed |-> FALSE, excused |-> {}]]
  /\ runner = [r \in Runner |->
       [pc |-> "idle", kind |-> "governed", lease |-> CHOOSE l \in Lease : TRUE,
        packet |-> 1, box |-> FALSE, paid |-> FALSE, scan |-> Head]]

\* The packet is read and validated before the fence is taken.
IssueRead(l) ==
  /\ lease[l].st = "none"
  /\ \E e \in {Executor(k) : k \in Kind} :
       Row(l, [lease[l] EXCEPT !.executor = e, !.scope = Scope[plan], !.packet = plan,
                 !.st = IF ValidPacket(plan) /\ IsolationOk(e) THEN "read" ELSE "denied"])
  /\ UNCHANGED <<plan, tree, history, fence, runner, writes, deaths>>

\* Links, the expected head and remotes are looked for first.
IssueCheck(l) ==
  /\ lease[l].st = "read" /\ Free
  /\ IF Linked(tree) = {} /\ ExactHead(lease[l].packet, history) /\ NoRemotes(history)
     THEN IssueOn(l, [lease[l] EXCEPT !.st = "linkless"])
     ELSE IssueDenied(l)
  /\ UNCHANGED <<plan, tree, history, runner, writes, deaths>>

IssueBefore(l) ==
  /\ lease[l].st = "linkless"
  /\ IssueOn(l, [lease[l] EXCEPT !.st = "before", !.seen = tree])
  /\ UNCHANGED <<plan, tree, history, runner, writes, deaths>>

\* git status speaks for every reported path only while Git's own state is what
\* the plan started from: a changed index or HEAD may hide any of them.
IssueStatus(l) ==
  /\ lease[l].st = "before"
  /\ \/ /\ history = "base" => Reported(tree) = {}
        /\ IssueOn(l, [lease[l] EXCEPT !.st = "clean",
                         !.excused = IF history = "base" THEN @ ELSE Path])
     \/ /\ history = "base" => Reported(tree) # {}
        /\ IssueDenied(l)
  /\ UNCHANGED <<plan, tree, history, runner, writes, deaths>>

\* An issue that trusts git status and snapshots once.
MutIssueCompare(l) ==
  /\ lease[l].st = "clean"
  /\ IssueOn(l, [lease[l] EXCEPT !.st = "same", !.seen = tree])
  /\ UNCHANGED <<plan, tree, history, runner, writes, deaths>>

\* The second snapshot must equal the first.
IssueCompare(l) ==
  /\ lease[l].st = "clean"
  /\ IF Untouched(l) THEN IssueOn(l, [lease[l] EXCEPT !.st = "same"]) ELSE IssueDenied(l)
  /\ UNCHANGED <<plan, tree, history, runner, writes, deaths>>

\* The packet file's digest, the metadata and the snapshot go into the lease
\* file.  Nobody looks for links, the head or remotes again.
IssueWrite(l) ==
  /\ lease[l].st = "same"
  /\ IF ConfigSafe(history)
     THEN /\ fence' = None
          /\ Row(l, [lease[l] EXCEPT !.st = "issued", !.packet = plan, !.history = history])
     ELSE IssueDenied(l)
  /\ UNCHANGED <<plan, tree, history, runner, writes, deaths>>

-----------------------------------------------------------------------------
(* A runner.                                                               *)

\* The launcher hands a lease over; the packet is read first of all.
Begin(r) ==
  /\ runner[r].pc = "idle"
  /\ \E l \in Lease, k \in Kind :
       /\ lease[l].st = "issued" /\ lease[l].executor = Executor(k)
       /\ runner' = [runner EXCEPT ![r].pc = "start", ![r].kind = k,
                       ![r].lease = l, ![r].packet = plan]
  /\ UNCHANGED <<plan, tree, history, fence, lease, writes, deaths>>

\* Verification, before a paid start or alone: the lease, the packet, links,
\* HEAD and remotes first.  A lease may have expired by then.
VerifyLinks(r) ==
  /\ runner[r].pc = "start" /\ Free
  /\ \/ /\ CallsVerify(runner[r].kind) /\ StillLeased(runner[r].lease, runner[r].kind)
        /\ RunOn(r, "linkless")
     \/ RunOut(r, "failed")
  /\ UNCHANGED <<plan, tree, history, lease, writes, deaths>>

VerifyTree(r) ==
  /\ runner[r].pc = "linkless"
  /\ IF Untouched(runner[r].lease) THEN RunOn(r, "same") ELSE RunOut(r, "failed")
  /\ UNCHANGED <<plan, tree, history, lease, writes, deaths>>

\* Without a control envelope the runner calls "verify" and no more; with one
\* it stays in the fence for its paid start.
VerifyGit(r) ==
  LET l == runner[r].lease IN
  /\ runner[r].pc = "same"
  /\ IF ~GitAsLeased(l) THEN RunOut(r, "failed")
     ELSE IF runner[r].kind # "governed" THEN RunOut(r, "ready")
     ELSE IF Authorised(l) THEN RunOn(r, "checked") ELSE RunOut(r, "failed")
  /\ UNCHANGED <<plan, tree, history, lease, writes, deaths>>

\* The lease file is written back; its fence ends with the empty body.
PaidConsume(r) ==
  LET l == runner[r].lease IN
  /\ runner[r].pc = "checked"
  /\ fence' = None
  /\ IF GitAsLeased(l)
     THEN /\ Row(l, [lease[l] EXCEPT !.consumed = TRUE])
          /\ runner' = [runner EXCEPT ![r].pc = "ready", ![r].paid = TRUE]
     ELSE UNCHANGED lease /\ Step(r, "failed")
  /\ UNCHANGED <<plan, tree, history, writes, deaths>>

\* The agent, and for mini-swe its container, is started with the packet.
Prompt(r) ==
  /\ runner[r].pc = "ready"
  /\ runner' = [runner EXCEPT ![r].pc = "working", ![r].box = Boxed(runner[r].kind),
                  ![r].packet = PromptPacket(r)]
  /\ UNCHANGED <<plan, tree, history, fence, lease, writes, deaths>>

Writing(r) == runner[r].box \/ runner[r].pc = "working"

\* An issue between its first snapshot and git status is told of path p when
\* its committed content is put back.
Excused(p, c) ==
  [l \in Lease |-> IF lease[l].st = "before" /\ c = "head"
                   THEN [lease[l] EXCEPT !.excused = @ \cup {p}] ELSE lease[l]]

\* The agent, or what it left running, writes where it likes, and may take a
\* write back.
Work(r) ==
  /\ Writing(r) /\ writes < MaxWrites /\ writes' = writes + 1
  /\ \/ /\ \E p \in Path, c \in Content :
             tree[p] # c /\ tree' = [tree EXCEPT ![p] = c] /\ lease' = Excused(p, c)
        /\ UNCHANGED history
     \/ history' \in History \ {history} /\ UNCHANGED <<tree, lease>>
  /\ UNCHANGED <<plan, fence, runner, deaths>>

\* The agent stops, at its limits at the latest, or raises.
AgentEnds(r) ==
  /\ runner[r].pc = "working"
  /\ Step(r, "stopped") \/ Step(r, "failed")
  /\ UNCHANGED <<plan, tree, history, fence, lease, writes, deaths>>

\* A postflight whose verification does not let the fence go.
MutPostGit(r) ==
  /\ runner[r].pc = "relinked"
  /\ IF GitAsLeased(runner[r].lease) THEN fence' = r /\ Step(r, "verified") ELSE RunOut(r, "failed")
  /\ UNCHANGED <<plan, tree, history, lease, writes, deaths>>

\* postflight verifies first, except for the source tree, under a fence of its own.
PostLinks(r) ==
  /\ runner[r].pc = "stopped" /\ Free
  /\ \/ StillLeased(runner[r].lease, runner[r].kind) /\ RunOn(r, "relinked")
     \/ RunOut(r, "failed")
  /\ UNCHANGED <<plan, tree, history, lease, writes, deaths>>

PostGit(r) ==
  /\ runner[r].pc = "relinked"
  /\ IF GitAsLeased(runner[r].lease) THEN RunOut(r, "verified") ELSE RunOut(r, "failed")
  /\ UNCHANGED <<plan, tree, history, lease, writes, deaths>>

\* A postflight that only looks at what git reports now.
MutInScope(l) == Reported(tree) \subseteq lease[l].scope

\* No change outside the scope, and no link among the changes.
InScope(l) ==
  LET changes == Changed(lease[l].seen, tree) IN
  changes \subseteq lease[l].scope /\ changes \cap Linked(tree) = {}

\* Then, in the fence again: Git's metadata, the snapshot, remotes.
PostCompare(r) ==
  /\ runner[r].pc = "verified" /\ Free
  /\ IF GitAsLeased(runner[r].lease) THEN RunOn(r, "compared") ELSE RunOut(r, "failed")
  /\ UNCHANGED <<plan, tree, history, lease, writes, deaths>>

PostScan(r) ==
  /\ runner[r].pc = "compared"
  /\ IF InScope(runner[r].lease)
     THEN fence' = r /\ runner' = [runner EXCEPT ![r].pc = "scanned", ![r].scan = tree]
     ELSE RunOut(r, "failed")
  /\ UNCHANGED <<plan, tree, history, lease, writes, deaths>>

PostRemotes(r) ==
  /\ runner[r].pc = "scanned"
  /\ IF NoRemotes(history) THEN RunOut(r, "accepted") ELSE RunOut(r, "failed")
  /\ UNCHANGED <<plan, tree, history, lease, writes, deaths>>

\* env_obj.cleanup() on every way out, or the container's own timeout.
BoxEnds(r) ==
  /\ runner[r].box /\ runner[r].pc \in Ended
  /\ runner' = [runner EXCEPT ![r].box = FALSE]
  /\ UNCHANGED <<plan, tree, history, fence, lease, writes, deaths>>

-----------------------------------------------------------------------------
(* Their surroundings.                                                     *)

\* The controller plans anew and rewrites the packet file.
Replan ==
  /\ plan < MaxPlans /\ plan' = plan + 1
  /\ UNCHANGED <<tree, history, fence, lease, runner, writes, deaths>>

\* The process in the fence dies, or a runner anywhere else.
Dies == deaths < MaxDeaths /\ deaths' = deaths + 1

IssuerDies(l) ==
  /\ lease[l].st \in Issuing /\ Dies
  /\ fence' = None /\ Row(l, [lease[l] EXCEPT !.st = "denied"])
  /\ UNCHANGED <<plan, tree, history, runner, writes>>

RunnerDies(r) ==
  /\ runner[r].pc \notin Ended \cup {"idle"} /\ Dies
  /\ fence' = IF fence = r THEN None ELSE fence
  /\ Step(r, "dead")
  /\ UNCHANGED <<plan, tree, history, lease, writes>>

IssueStep(l) ==
  \/ IssueRead(l) \/ IssueCheck(l) \/ IssueBefore(l) \/ IssueStatus(l) \/ IssueCompare(l) \/ IssueWrite(l)
RunnerStep(r) ==
  \/ VerifyLinks(r) \/ VerifyTree(r) \/ VerifyGit(r) \/ PaidConsume(r) \/ Prompt(r) \/ AgentEnds(r)
  \/ PostLinks(r) \/ PostGit(r) \/ PostCompare(r) \/ PostScan(r) \/ PostRemotes(r)

GuardNext ==
  \/ Replan
  \/ \E l \in Lease : IssueStep(l) \/ IssuerDies(l)
  \/ \E r \in Runner : Begin(r) \/ RunnerStep(r) \/ Work(r) \/ BoxEnds(r) \/ RunnerDies(r)

GuardSpec == GuardInit /\ [][GuardNext]_guardVars

\* Processes are scheduled, and the agent's own limits or its launcher's
\* timeout end its work.  Nobody has to begin, write, plan or die.
FairGuardSpec ==
  /\ GuardSpec
  /\ WF_guardVars(\E l \in Lease : lease[l].st \in Issuing /\ IssueStep(l))
  /\ \A r \in Runner : WF_guardVars(RunnerStep(r))

-----------------------------------------------------------------------------
(* Properties.                                                             *)

\* A lease is good for one paid start: of all runners that hold its token,
\* in whatever order they check and write and wherever they die, at most one
\* ever gets past paid_start_authority, and only a start that was written down.
spentView == {l \in Lease : lease[l].consumed}
paidView == [r \in Runner |-> IF runner[r].paid THEN runner[r].lease ELSE None]
Shot == INSTANCE OneShot WITH spent <- spentView, paid <- paidView
ImplementsOneShot == Shot!ShotSpec

\* What an earlier run left behind may write all the time while a baseline is
\* taken, and still no plain write gets into it: a reported path whose baseline
\* is not the commit is excused, either because its committed content was put
\* back between the first snapshot and git status, to be taken away once more,
\* or because Git's own state was not the plan's when status was asked.
CleanBaseline ==
  \A l \in Lease : lease[l].st = "issued" => Reported(lease[l].seen) \subseteq lease[l].excused

\* A worker is prompted with the packet its lease was issued for, although the
\* controller may write a new packet between any two steps (the quarantined
\* opencode runner, which reads it after the check, aside).
PromptIsLeased ==
  \A r \in Runner :
    runner[r].pc \in {"ready", "working", "stopped", "relinked", "verified", "compared", "scanned", "accepted"}
      /\ runner[r].kind # "opencode" =>
      runner[r].packet = lease[runner[r].lease].packet

\* What postflight accepted is the lease's baseline outside the scope (for a
\* governed run: outside its signed envelope), and the commit itself in every
\* reported path not excused above; and it holds no link the baseline did not,
\* whatever was written between its looks.
AcceptedInScope ==
  \A r \in Runner :
    runner[r].pc = "accepted" =>
      LET l == runner[r].lease
          scope == IF runner[r].kind = "governed" THEN Envelope ELSE lease[l].scope
      IN /\ Reported(runner[r].scan) \subseteq scope \cup lease[l].excused
         /\ Changed(lease[l].seen, runner[r].scan) \subseteq scope
         /\ Linked(runner[r].scan) \subseteq Linked(lease[l].seen)

\* Nobody waits for ever at the fence: every runner that began ends, also when
\* another dies inside the fence or its own postflight needs it twice.
RunnersEnd ==
  \A r \in Runner : runner[r].pc = "start" ~> runner[r].pc \in Ended
=============================================================================
