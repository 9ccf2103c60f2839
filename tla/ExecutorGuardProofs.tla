------------------------- MODULE ExecutorGuardProofs -------------------------
(***************************************************************************)
(* Proofs about ExecutorGuard, for every number of leases and runners,     *)
(* every set of paths, every number of plans, writes and deaths.           *)
(***************************************************************************)
EXTENDS ExecutorGuard, TLAPS

USE GuardConstants

\* Runners that passed their check and did not fail, and those in the check.
Admitted == {"ready", "working", "stopped", "relinked", "verified", "compared", "scanned", "accepted"}
Checking == {"linkless", "same", "checked"}
Judged == {"scanned", "accepted"}

\* What a lease file says is true of the moment it was taken: between the first
\* snapshot and git status an uncommitted path is still so, or was put back.
LeaseFacts(l) ==
  LET e == lease[l] IN
  /\ e.st = "before" =>
       \A p \in Path : e.seen[p] # "head" => tree[p] # "head" \/ p \in e.excused
  /\ e.st \in {"clean", "same", "issued"} => Reported(e.seen) \subseteq e.excused
  /\ e.st = "issued" => e.packet =< plan
  /\ e.consumed => e.st = "issued"

\* What a runner relies on from its start to its end.
RunnerFacts(r) ==
  LET w == runner[r]
      e == lease[runner[r].lease]
  IN
  /\ w.pc # "idle" => e.st = "issued"
  /\ w.pc = "start" => e.packet =< w.packet /\ w.packet =< plan
  /\ w.pc \in Admitted \cup Checking /\ w.kind # "opencode" => w.packet = e.packet
  /\ w.pc \in Admitted \cup {"checked"} /\ w.kind = "governed" => Envelope = e.scope
  /\ w.pc = "checked" => w.kind = "governed" /\ ~e.consumed
  /\ w.pc \in {"idle", "start"} \cup Checking => ~w.paid
  /\ w.paid => e.consumed
  /\ w.pc \in Judged =>
       Changed(e.seen, w.scan) \subseteq e.scope /\ Linked(w.scan) \subseteq Linked(e.seen)

IInv ==
  /\ GuardTypeOK
  /\ \A l \in Lease : LeaseFacts(l)
  /\ \A r \in Runner : RunnerFacts(r)

\* Type correctness and the facts hold at the start.
LEMMA InitIInv == GuardInit => IInv
<1> SUFFICES ASSUME GuardInit PROVE IInv
    OBVIOUS
<1>1. GuardTypeOK
  BY DEF GuardInit, GuardTypeOK, Tree, Content, Head, History, LeaseRow, RunnerRow, Ended, Issuing,
         Fenced, AllKinds, Plan, Process
<1>2. \A l \in Lease : LeaseFacts(l)
  BY DEF GuardInit, LeaseFacts
<1>3. \A r \in Runner : RunnerFacts(r)
  BY DEF GuardInit, RunnerFacts, Admitted, Checking, Judged
<1> QED
  BY <1>1, <1>2, <1>3 DEF IInv

-----------------------------------------------------------------------------
(* One lease or one runner changes.                                        *)

\* How a process that is not in the fence, enters it or leaves it may move it.
Moves(x, inside) ==
  \/ fence' = fence /\ (inside <=> fence = x)
  \/ fence = None /\ fence' = x /\ inside
  \/ fence = x /\ fence' = None /\ ~inside

\* A lease that is not issued may change: no runner relies on it.
LEMMA LeaseChange ==
  ASSUME IInv, NEW l \in Lease, NEW row \in LeaseRow, lease[l].st # "issued",
         lease' = [lease EXCEPT ![l] = row],
         UNCHANGED <<plan, tree, history, runner, writes>>, deaths' \in Nat,
         Moves(l, row.st \in Issuing), LeaseFacts(l)'
  PROVE  IInv'
<1>1. GuardTypeOK'
  <2>1. lease' \in [Lease -> LeaseRow] /\ fence' \in Process \cup {None}
    BY DEF IInv, GuardTypeOK, Moves, Process
  <2>2. \A m \in Lease : lease'[m].st \in Issuing <=> fence' = m
    BY DEF IInv, GuardTypeOK, Moves, Process
  <2>3. \A r \in Runner : runner'[r].pc \in Fenced <=> fence' = r
    BY DEF IInv, GuardTypeOK, Moves, Process
  <2> QED
    BY <2>1, <2>2, <2>3 DEF IInv, GuardTypeOK
<1>2. \A m \in Lease : LeaseFacts(m)'
  <2>1. ASSUME NEW m \in Lease, m # l PROVE LeaseFacts(m)'
    <3>1. lease'[m] = lease[m] /\ tree' = tree /\ plan' = plan
      BY <2>1 DEF IInv, GuardTypeOK
    <3> QED
      BY <3>1 DEF IInv, LeaseFacts, Reported, Changed, Linked
  <2> QED
    BY <2>1
<1>3. \A r \in Runner : RunnerFacts(r)'
  <2>1. ASSUME NEW r \in Runner PROVE RunnerFacts(r)'
    <3>1. RunnerFacts(r) /\ runner' = runner /\ plan' = plan
      BY DEF IInv
    <3>2. CASE runner[r].pc = "idle"
      <4>1. runner[r] \in RunnerRow
        BY DEF IInv, GuardTypeOK
      <4> QED
        BY <3>1, <3>2, <4>1 DEF RunnerFacts, Admitted, Checking, Judged
    <3>3. CASE runner[r].pc # "idle"
      <4>1. lease'[runner[r].lease] = lease[runner[r].lease]
        <5>1. runner[r].lease \in Lease /\ runner[r].lease # l
          BY <3>1, <3>3 DEF IInv, GuardTypeOK, RunnerRow, RunnerFacts
        <5> QED
          BY <5>1 DEF IInv, GuardTypeOK
      <4> QED
        BY <3>1, <4>1 DEF RunnerFacts, Admitted, Checking, Judged, Changed, Linked
    <3> QED
      BY <3>2, <3>3
  <2> QED
    BY <2>1
<1> QED
  BY <1>1, <1>2, <1>3 DEF IInv

\* A runner may change alone if it keeps its own facts.
LEMMA RunnerChange ==
  ASSUME IInv, NEW r \in Runner, NEW row \in RunnerRow,
         runner' = [runner EXCEPT ![r] = row],
         UNCHANGED <<plan, tree, history, lease, writes>>, deaths' \in Nat,
         Moves(r, row.pc \in Fenced), RunnerFacts(r)'
  PROVE  IInv'
<1>1. GuardTypeOK'
  <2>1. runner' \in [Runner -> RunnerRow] /\ fence' \in Process \cup {None}
    BY DEF IInv, GuardTypeOK, Moves, Process
  <2>2. \A m \in Lease : lease'[m].st \in Issuing <=> fence' = m
    BY DEF IInv, GuardTypeOK, Moves, Process
  <2>3. \A q \in Runner : runner'[q].pc \in Fenced <=> fence' = q
    BY DEF IInv, GuardTypeOK, Moves, Process
  <2> QED
    BY <2>1, <2>2, <2>3 DEF IInv, GuardTypeOK
<1>2. \A m \in Lease : LeaseFacts(m)'
  <2>1. lease' = lease /\ tree' = tree /\ plan' = plan
    OBVIOUS
  <2> QED
    BY <2>1 DEF IInv, LeaseFacts, Reported, Changed, Linked
<1>3. \A q \in Runner : RunnerFacts(q)'
  <2>1. ASSUME NEW q \in Runner, q # r PROVE RunnerFacts(q)'
    <3>1. runner'[q] = runner[q] /\ lease' = lease /\ plan' = plan
      BY <2>1 DEF IInv, GuardTypeOK
    <3> QED
      BY <3>1 DEF IInv, RunnerFacts, Admitted, Changed, Linked
  <2> QED
    BY <2>1
<1> QED
  BY <1>1, <1>2, <1>3 DEF IInv

-----------------------------------------------------------------------------
(* The actions.                                                            *)

\* An issue's step: its row and the fence move together.
LEMMA IssueMoves ==
  ASSUME IInv, NEW l \in Lease, NEW row \in LeaseRow, lease[l].st # "issued", fence \in {None, l},
         Row(l, row), fence' = IF row.st \in Issuing THEN l ELSE None,
         UNCHANGED <<plan, tree, history, runner, writes>>, deaths' \in Nat,
         lease'[l] = row => LeaseFacts(l)'
  PROVE  IInv'
<1>1. lease' = [lease EXCEPT ![l] = row] /\ lease'[l] = row
  BY DEF Row, IInv, GuardTypeOK
<1>2. (lease[l].st \in Issuing <=> fence = l) /\ l # None
  BY DEF IInv, GuardTypeOK, Process
<1>3. Moves(l, row.st \in Issuing)
  BY <1>2 DEF Moves
<1> QED
  BY <1>1, <1>3, LeaseChange

\* Issue: what git status reports now was already written when the first
\* snapshot was taken, or later, or put back since.
LEMMA IssueInv ==
  ASSUME IInv, NEW l \in Lease, IssueStep(l) \/ IssuerDies(l)
  PROVE  IInv'
<1> DEFINE e == lease[l]
<1>t. /\ e \in LeaseRow /\ tree \in Tree /\ plan \in Plan /\ history \in History
      /\ LeaseFacts(l) /\ (e.st \in Issuing <=> fence = l) /\ deaths \in Nat
  BY DEF IInv, GuardTypeOK
<1>d. ASSUME e.st # "issued", fence \in {None, l}, IssueDenied(l), deaths' \in Nat,
             UNCHANGED <<plan, tree, history, runner, writes>>
      PROVE  IInv'
  <2> DEFINE row == [e EXCEPT !.st = "denied"]
  <2>1. row \in LeaseRow /\ row.consumed = e.consumed /\ row.st = "denied"
    BY <1>t DEF LeaseRow
  <2>2. Row(l, row) /\ fence' = None
    BY <1>d DEF IssueDenied
  <2> HIDE DEF row
  <2>3. lease'[l] = row => LeaseFacts(l)'
    BY <1>t, <1>d, <2>1 DEF LeaseFacts
  <2> QED
    BY <1>d, <2>1, <2>2, <2>3, IssueMoves DEF Issuing
<1>1. CASE IssueRead(l)
  <2>1. PICK x \in {Executor(k) : k \in Kind} :
          Row(l, [e EXCEPT !.executor = x, !.scope = Scope[plan], !.packet = plan,
                    !.st = IF ValidPacket(plan) /\ IsolationOk(x) THEN "read" ELSE "denied"])
    BY <1>1 DEF IssueRead
  <2> DEFINE row == [e EXCEPT !.executor = x, !.scope = Scope[plan], !.packet = plan,
                       !.st = IF ValidPacket(plan) /\ IsolationOk(x) THEN "read" ELSE "denied"]
  <2>2. row \in LeaseRow /\ row.st \in {"read", "denied"} /\ row.consumed = e.consumed
    BY <1>t, <2>1 DEF LeaseRow, Executor, AllKinds
  <2>3. lease' = [lease EXCEPT ![l] = row] /\ lease'[l] = row
    BY <2>1 DEF Row, IInv, GuardTypeOK
  <2>4. e.st = "none" /\ UNCHANGED <<plan, tree, history, fence, runner, writes, deaths>>
    BY <1>1 DEF IssueRead
  <2>5. LeaseFacts(l)' /\ Moves(l, row.st \in Issuing)
    BY <1>t, <2>2, <2>3, <2>4 DEF LeaseFacts, Moves, Issuing
  <2> HIDE DEF row
  <2> QED
    BY <1>t, <2>2, <2>3, <2>4, <2>5, LeaseChange
<1>2. CASE IssueCheck(l)
  <2>1. /\ e.st = "read" /\ fence = None /\ UNCHANGED <<plan, tree, history, runner, writes, deaths>>
        /\ IssueOn(l, [e EXCEPT !.st = "linkless"]) \/ IssueDenied(l)
    BY <1>2 DEF IssueCheck, Free
  <2>2. CASE IssueOn(l, [e EXCEPT !.st = "linkless"])
    <3> DEFINE row == [e EXCEPT !.st = "linkless"]
    <3>1. row \in LeaseRow /\ row.consumed = e.consumed /\ row.st = "linkless" /\ row.st \in Issuing
      BY <1>t DEF LeaseRow, Issuing
    <3>2. Row(l, row) /\ fence' = l
      BY <2>2 DEF IssueOn
    <3> HIDE DEF row
    <3>3. lease'[l] = row => LeaseFacts(l)'
      BY <1>t, <2>1, <3>1 DEF LeaseFacts
    <3> QED
      BY <1>t, <2>1, <3>1, <3>2, <3>3, IssueMoves
  <2> QED
    BY <1>d, <1>t, <2>1, <2>2
<1>3. CASE IssueBefore(l)
  <2> DEFINE row == [e EXCEPT !.st = "before", !.seen = tree]
  <2>1. /\ row \in LeaseRow /\ row.consumed = e.consumed /\ row.st = "before" /\ row.seen = tree
        /\ row.st \in Issuing
    BY <1>t DEF LeaseRow, Issuing
  <2>2. /\ Row(l, row) /\ fence' = l /\ e.st = "linkless" /\ fence = l
        /\ UNCHANGED <<plan, tree, history, runner, writes, deaths>>
    BY <1>t, <1>3 DEF IssueBefore, IssueOn, Issuing
  <2> HIDE DEF row
  <2>3. lease'[l] = row => LeaseFacts(l)'
    BY <1>t, <2>1, <2>2 DEF LeaseFacts
  <2> QED
    BY <1>t, <2>1, <2>2, <2>3, IssueMoves
<1>4. CASE IssueStatus(l)
  <2> DEFINE row == [e EXCEPT !.st = "clean", !.excused = IF history = "base" THEN @ ELSE Path]
  <2>1. /\ e.st = "before" /\ fence = l /\ UNCHANGED <<plan, tree, history, runner, writes, deaths>>
        /\ \/ (history = "base" => Reported(tree) = {}) /\ IssueOn(l, row)
           \/ IssueDenied(l)
    BY <1>t, <1>4 DEF IssueStatus, Issuing
  <2>2. ASSUME history = "base" => Reported(tree) = {}, IssueOn(l, row)
        PROVE  IInv'
    <3>1. /\ row \in LeaseRow /\ row.consumed = e.consumed /\ row.seen = e.seen /\ row.st = "clean"
          /\ row.st \in Issuing /\ row.excused = IF history = "base" THEN e.excused ELSE Path
      BY <1>t DEF LeaseRow, Issuing
    <3>2. Row(l, row) /\ fence' = l
      BY <2>2 DEF IssueOn
    <3> HIDE DEF row
    <3>3. Reported(e.seen) \subseteq row.excused
      BY <1>t, <2>1, <2>2, <3>1 DEF LeaseFacts, Reported, Changed, Head
    <3>4. lease'[l] = row => LeaseFacts(l)'
      BY <1>t, <2>1, <3>1, <3>3 DEF LeaseFacts, Reported, Changed
    <3> QED
      BY <1>t, <2>1, <3>1, <3>2, <3>4, IssueMoves
  <2> HIDE DEF row
  <2> QED
    BY <1>d, <1>t, <2>1, <2>2
<1>5. CASE IssueCompare(l)
  <2>1. /\ e.st = "clean" /\ fence = l /\ UNCHANGED <<plan, tree, history, runner, writes, deaths>>
        /\ IssueOn(l, [e EXCEPT !.st = "same"]) \/ IssueDenied(l)
    BY <1>t, <1>5 DEF IssueCompare, Issuing
  <2>2. CASE IssueOn(l, [e EXCEPT !.st = "same"])
    <3> DEFINE row == [e EXCEPT !.st = "same"]
    <3>1. /\ row \in LeaseRow /\ row.consumed = e.consumed /\ row.seen = e.seen /\ row.st = "same"
          /\ row.st \in Issuing /\ row.excused = e.excused
      BY <1>t DEF LeaseRow, Issuing
    <3>2. Row(l, row) /\ fence' = l
      BY <2>2 DEF IssueOn
    <3> HIDE DEF row
    <3>3. lease'[l] = row => LeaseFacts(l)'
      BY <1>t, <2>1, <3>1 DEF LeaseFacts, Reported, Changed
    <3> QED
      BY <1>t, <2>1, <3>1, <3>2, <3>3, IssueMoves
  <2> QED
    BY <1>d, <1>t, <2>1, <2>2
<1>6. CASE IssueWrite(l)
  <2> DEFINE row == [e EXCEPT !.st = "issued", !.packet = plan, !.history = history]
  <2>1. /\ e.st = "same" /\ fence = l /\ UNCHANGED <<plan, tree, history, runner, writes, deaths>>
        /\ (fence' = None /\ Row(l, row)) \/ IssueDenied(l)
    BY <1>t, <1>6 DEF IssueWrite, Issuing
  <2>2. CASE fence' = None /\ Row(l, row)
    <3>1. /\ row \in LeaseRow /\ row.consumed = e.consumed /\ row.seen = e.seen /\ row.st = "issued"
          /\ row.st \notin Issuing /\ row.excused = e.excused /\ row.packet = plan
      BY <1>t DEF LeaseRow, Issuing
    <3> HIDE DEF row
    <3>2. lease'[l] = row => LeaseFacts(l)'
      BY <1>t, <2>1, <3>1 DEF LeaseFacts, Reported, Changed, Plan
    <3> QED
      BY <1>t, <2>1, <2>2, <3>1, <3>2, IssueMoves
  <2> HIDE DEF row
  <2> QED
    BY <1>d, <1>t, <2>1, <2>2
<1>7. CASE IssuerDies(l)
  <2>1. /\ e.st \in Issuing /\ fence = l /\ IssueDenied(l) /\ deaths' \in Nat
        /\ UNCHANGED <<plan, tree, history, runner, writes>>
    BY <1>t, <1>7 DEF IssuerDies, IssueDenied, Dies
  <2> QED
    BY <1>d, <2>1 DEF Issuing
<1> QED
  BY <1>1, <1>2, <1>3, <1>4, <1>5, <1>6, <1>7 DEF IssueStep

\* How a runner's step moves the fence.
LEMMA FenceMoves ==
  ASSUME IInv, NEW r \in Runner, NEW pc, fence \in {None, r},
         (RunOn(r, pc) /\ pc \in Fenced) \/ (RunOut(r, pc) /\ pc \notin Fenced)
  PROVE  Step(r, pc) /\ Moves(r, pc \in Fenced)
<1>1. r # None
  BY DEF Process
<1> QED
  BY <1>1 DEF RunOn, RunOut, Moves

\* A runner that only moves on: its packet, lease and payment stay, so its
\* facts do if the new place asks for nothing new.
LEMMA StepKeeps ==
  ASSUME IInv, NEW r \in Runner, NEW pc, [runner[r] EXCEPT !.pc = pc] \in RunnerRow,
         Step(r, pc), UNCHANGED <<plan, tree, history, lease, writes>>, deaths' \in Nat,
         Moves(r, pc \in Fenced), runner[r].pc # "idle",
         \/ pc \in {"failed", "dead"}
         \/ pc \in Admitted \ Judged /\ runner[r].pc \in Admitted
         \/ pc = "accepted" /\ runner[r].pc = "scanned"
         \/ pc = "linkless" /\ runner[r].pc = "start" /\ lease[runner[r].lease].packet = plan
         \/ pc = "same" /\ runner[r].pc = "linkless"
         \/ /\ pc \in {"ready", "checked"} /\ runner[r].pc = "same"
            /\ runner[r].kind = "governed" =>
                 pc = "checked" /\ Envelope = lease[runner[r].lease].scope
                 /\ ~lease[runner[r].lease].consumed
            /\ pc = "checked" => runner[r].kind = "governed"
  PROVE  IInv'
<1> DEFINE row == [runner[r] EXCEPT !.pc = pc]
           e == lease[runner[r].lease]
<1>1. runner[r] \in RunnerRow /\ RunnerFacts(r) /\ plan \in Plan /\ e \in LeaseRow
  BY DEF IInv, GuardTypeOK, RunnerRow
<1>2. runner' = [runner EXCEPT ![r] = row] /\ runner'[r] = row
  BY DEF Step, IInv, GuardTypeOK
<1>3. /\ row.pc = pc /\ row.kind = runner[r].kind /\ row.lease = runner[r].lease
      /\ row.packet = runner[r].packet /\ row.paid = runner[r].paid /\ row.scan = runner[r].scan
  BY <1>1 DEF RunnerRow
<1>4. lease' = lease /\ plan' = plan
  OBVIOUS
<1>5. e.packet \in Int /\ runner[r].packet \in Int /\ plan \in Int
  BY <1>1 DEF LeaseRow, RunnerRow, Plan
<1>6. RunnerFacts(r)'
  <2> HIDE DEF row
  <2>1. CASE pc \in {"failed", "dead"}
    BY <1>1, <1>2, <1>3, <1>4, <2>1 DEF RunnerFacts, Admitted, Checking, Judged
  <2>2. CASE pc \in Admitted \ Judged /\ runner[r].pc \in Admitted
    BY <1>1, <1>2, <1>3, <1>4, <2>2 DEF RunnerFacts, Admitted, Checking, Judged
  <2>3. CASE pc = "accepted" /\ runner[r].pc = "scanned"
    BY <1>1, <1>2, <1>3, <1>4, <2>3 DEF RunnerFacts, Admitted, Checking, Judged, Changed, Linked
  <2>4. CASE pc = "linkless" /\ runner[r].pc = "start" /\ e.packet = plan
    <3>1. runner[r].packet = e.packet
      BY <1>1, <1>5, <2>4 DEF RunnerFacts
    <3> QED
      BY <1>1, <1>2, <1>3, <1>4, <2>4, <3>1 DEF RunnerFacts, Admitted, Checking, Judged
  <2>5. CASE pc = "same" /\ runner[r].pc = "linkless"
    BY <1>1, <1>2, <1>3, <1>4, <2>5 DEF RunnerFacts, Admitted, Checking, Judged
  <2>6. CASE pc \in {"ready", "checked"} /\ runner[r].pc = "same"
    BY <1>1, <1>2, <1>3, <1>4, <2>6 DEF RunnerFacts, Admitted, Checking, Judged
  <2> QED
    BY <2>1, <2>2, <2>3, <2>4, <2>5, <2>6
<1> HIDE DEF row
<1> QED
  BY <1>2, <1>3, <1>6, RunnerChange DEF row

\* The checks before the work: what they compare is what the facts demand.
LEMMA CheckInv ==
  ASSUME IInv, NEW r \in Runner, VerifyLinks(r) \/ VerifyTree(r) \/ VerifyGit(r)
  PROVE  IInv'
<1> DEFINE e == lease[runner[r].lease]
<1>1. /\ runner[r] \in RunnerRow /\ (runner[r].pc \in Fenced <=> fence = r) /\ deaths \in Nat
  BY DEF IInv, GuardTypeOK
<1>2. \A pc \in {"linkless", "same", "checked", "ready", "failed"} :
        [runner[r] EXCEPT !.pc = pc] \in RunnerRow
  BY <1>1 DEF RunnerRow, Ended, Fenced
<1>3. UNCHANGED <<plan, tree, history, lease, writes, deaths>>
  BY DEF VerifyLinks, VerifyTree, VerifyGit
<1>4. ASSUME fence \in {None, r}, runner[r].pc # "idle", RunOut(r, "failed")
      PROVE  IInv'
  BY <1>1, <1>2, <1>3, <1>4, FenceMoves, StepKeeps DEF Fenced
<1>5. CASE VerifyLinks(r)
  <2>1. runner[r].pc = "start" /\ fence = None
    BY <1>5 DEF VerifyLinks, Free
  <2>2. CASE e.packet = plan /\ RunOn(r, "linkless")
    BY <1>1, <1>2, <1>3, <2>1, <2>2, FenceMoves, StepKeeps DEF Fenced
  <2> QED
    BY <1>4, <1>5, <2>1, <2>2 DEF VerifyLinks, StillLeased
<1>6. CASE VerifyTree(r)
  <2>1. runner[r].pc = "linkless" /\ fence = r
    BY <1>1, <1>6 DEF VerifyTree, Fenced
  <2>2. CASE RunOn(r, "same")
    BY <1>1, <1>2, <1>3, <2>1, <2>2, FenceMoves, StepKeeps DEF Fenced
  <2> QED
    BY <1>4, <1>6, <2>1, <2>2 DEF VerifyTree
<1>7. CASE VerifyGit(r)
  <2>1. runner[r].pc = "same" /\ fence = r
    BY <1>1, <1>7 DEF VerifyGit, Fenced
  <2>2. CASE runner[r].kind # "governed" /\ RunOut(r, "ready")
    BY <1>1, <1>2, <1>3, <2>1, <2>2, FenceMoves, StepKeeps DEF Fenced
  <2>3. CASE /\ runner[r].kind = "governed" /\ ~e.consumed /\ Envelope = e.scope
             /\ RunOn(r, "checked")
    BY <1>1, <1>2, <1>3, <2>1, <2>3, FenceMoves, StepKeeps DEF Fenced
  <2> QED
    BY <1>4, <1>7, <2>1, <2>2, <2>3 DEF VerifyGit, Authorised
<1> QED
  BY <1>5, <1>6, <1>7

\* Whether a runner has a container is a truth value.
LEMMA BoxedBoolean == \A k : Boxed(k) \in BOOLEAN
  BY DEF Boxed

\* After the check: the agent ends, its postflight verifies and accepts.
LEMMA AfterInv ==
  ASSUME IInv, NEW r \in Runner,
         \/ Begin(r) \/ Prompt(r) \/ AgentEnds(r) \/ PostLinks(r) \/ PostGit(r) \/ PostCompare(r)
         \/ PostScan(r) \/ PostRemotes(r) \/ BoxEnds(r) \/ RunnerDies(r)
  PROVE  IInv'
<1> DEFINE w == runner[r]
           e == lease[w.lease]
<1>1. /\ w \in RunnerRow /\ (w.pc \in Fenced <=> fence = r) /\ deaths \in Nat
      /\ plan \in Plan /\ tree \in Tree /\ RunnerFacts(r) /\ runner \in [Runner -> RunnerRow]
      /\ \A l \in Lease : lease[l] \in LeaseRow /\ LeaseFacts(l)
  BY DEF IInv, GuardTypeOK
<1>2. \A pc \in {"stopped", "relinked", "verified", "compared", "accepted", "failed", "dead"} :
        [w EXCEPT !.pc = pc] \in RunnerRow
  BY <1>1 DEF RunnerRow, Ended, Fenced
<1>3. CASE Begin(r)
  <2>1. PICK l \in Lease, k \in Kind :
          /\ lease[l].st = "issued"
          /\ runner' = [runner EXCEPT ![r].pc = "start", ![r].kind = k,
                          ![r].lease = l, ![r].packet = plan]
    BY <1>3 DEF Begin
  <2> DEFINE row == [w EXCEPT !.pc = "start", !.kind = k, !.lease = l, !.packet = plan]
  <2>2. /\ row \in RunnerRow /\ row.pc = "start" /\ row.lease = l /\ row.packet = plan
        /\ row.paid = w.paid
    BY <1>1 DEF RunnerRow
  <2>3. runner' = [runner EXCEPT ![r] = row] /\ runner'[r] = row
    BY <1>1, <2>1
  <2>4. w.pc = "idle" /\ UNCHANGED <<plan, tree, history, fence, lease, writes, deaths>>
    BY <1>3 DEF Begin
  <2>5. plan \in Int
    BY <1>1 DEF Plan
  <2> HIDE DEF row
  <2>6. RunnerFacts(r)'
    BY <1>1, <2>1, <2>2, <2>3, <2>4, <2>5 DEF RunnerFacts, LeaseFacts, Admitted, Checking, Judged
  <2>7. Moves(r, row.pc \in Fenced)
    BY <1>1, <2>2, <2>4 DEF Moves, Fenced
  <2> QED
    BY <1>1, <2>2, <2>3, <2>4, <2>6, <2>7, RunnerChange
<1>4. CASE Prompt(r)
  <2> DEFINE row == [w EXCEPT !.pc = "working", !.box = Boxed(w.kind),
                       !.packet = PromptPacket(r)]
  <2>1. /\ row \in RunnerRow /\ row.pc = "working" /\ row.lease = w.lease /\ row.kind = w.kind
        /\ row.paid = w.paid /\ (w.kind # "opencode" => row.packet = w.packet)
    <3>1. PICK box \in BOOLEAN : box = Boxed(w.kind)
      BY BoxedBoolean
    <3>2. row = [w EXCEPT !.pc = "working", !.box = box,
                   !.packet = PromptPacket(r)]
      BY <3>1
    <3> HIDE DEF row
    <3> QED
      BY <1>1, <3>2 DEF RunnerRow, PromptPacket
  <2>2. runner' = [runner EXCEPT ![r] = row] /\ runner'[r] = row
    BY <1>1, <1>4 DEF Prompt
  <2>3. w.pc = "ready" /\ UNCHANGED <<plan, tree, history, fence, lease, writes, deaths>>
    BY <1>4 DEF Prompt
  <2> HIDE DEF row
  <2>4. RunnerFacts(r)'
    BY <1>1, <2>1, <2>2, <2>3 DEF RunnerFacts, Admitted, Checking, Judged
  <2>5. Moves(r, row.pc \in Fenced)
    BY <1>1, <2>1, <2>3 DEF Moves, Fenced
  <2> QED
    BY <1>1, <2>1, <2>2, <2>3, <2>4, <2>5, RunnerChange
<1>5. CASE AgentEnds(r)
  <2>1. /\ w.pc = "working" /\ UNCHANGED <<plan, tree, history, fence, lease, writes, deaths>>
        /\ Step(r, "stopped") \/ Step(r, "failed")
    BY <1>5 DEF AgentEnds
  <2>2. Moves(r, "stopped" \in Fenced) /\ Moves(r, "failed" \in Fenced)
    BY <1>1, <2>1 DEF Moves, Fenced
  <2> QED
    BY <1>1, <1>2, <2>1, <2>2, StepKeeps DEF Admitted, Judged, Fenced
<1>6. ASSUME fence \in {None, r}, w.pc # "idle", RunOut(r, "failed"),
             UNCHANGED <<plan, tree, history, lease, writes, deaths>>
      PROVE  IInv'
  BY <1>1, <1>2, <1>6, FenceMoves, StepKeeps DEF Fenced
<1>10. CASE PostLinks(r)
  <2>1. /\ w.pc = "stopped" /\ fence = None /\ UNCHANGED <<plan, tree, history, lease, writes, deaths>>
        /\ RunOn(r, "relinked") \/ RunOut(r, "failed")
    BY <1>10 DEF PostLinks, Free
  <2>2. CASE RunOn(r, "relinked")
    BY <1>1, <1>2, <2>1, <2>2, FenceMoves, StepKeeps DEF Fenced, Admitted, Judged
  <2> QED
    BY <1>6, <2>1, <2>2
<1>11. CASE PostGit(r)
  <2>1. /\ w.pc = "relinked" /\ fence = r /\ UNCHANGED <<plan, tree, history, lease, writes, deaths>>
        /\ RunOut(r, "verified") \/ RunOut(r, "failed")
    BY <1>1, <1>11 DEF PostGit, Fenced
  <2>2. CASE RunOut(r, "verified")
    BY <1>1, <1>2, <2>1, <2>2, FenceMoves, StepKeeps DEF Fenced, Admitted, Judged
  <2> QED
    BY <1>6, <2>1, <2>2
<1>12. CASE PostCompare(r)
  <2>1. /\ w.pc = "verified" /\ fence = None /\ UNCHANGED <<plan, tree, history, lease, writes, deaths>>
        /\ RunOn(r, "compared") \/ RunOut(r, "failed")
    BY <1>12 DEF PostCompare, Free
  <2>2. CASE RunOn(r, "compared")
    BY <1>1, <1>2, <2>1, <2>2, FenceMoves, StepKeeps DEF Fenced, Admitted, Judged
  <2> QED
    BY <1>6, <2>1, <2>2
<1>7. CASE PostScan(r)
  <2>1. w.pc = "compared" /\ fence = r /\ UNCHANGED <<plan, tree, history, lease, writes, deaths>>
    BY <1>1, <1>7 DEF PostScan, Fenced
  <2>2. CASE RunOut(r, "failed")
    BY <1>6, <2>1, <2>2
  <2>3. ASSUME InScope(w.lease), fence' = r,
               runner' = [runner EXCEPT ![r].pc = "scanned", ![r].scan = tree]
        PROVE  IInv'
    <3> DEFINE row == [w EXCEPT !.pc = "scanned", !.scan = tree]
    <3>1. /\ row \in RunnerRow /\ row.pc = "scanned" /\ row.lease = w.lease /\ row.kind = w.kind
          /\ row.paid = w.paid /\ row.packet = w.packet /\ row.scan = tree
      BY <1>1 DEF RunnerRow, Fenced
    <3>2. runner' = [runner EXCEPT ![r] = row] /\ runner'[r] = row
      BY <1>1, <2>3
    <3>3. e.st = "issued" /\ w.lease \in Lease
      BY <1>1, <2>1 DEF RunnerFacts, RunnerRow
    <3>4. Changed(e.seen, tree) \subseteq e.scope /\ Linked(tree) \subseteq Linked(e.seen)
      BY <2>3 DEF InScope, Changed, Linked
    <3> HIDE DEF row
    <3>5. RunnerFacts(r)'
      BY <1>1, <2>1, <2>3, <3>1, <3>2, <3>3, <3>4
         DEF RunnerFacts, Admitted, Checking, Judged, Changed, Linked
    <3>6. Moves(r, row.pc \in Fenced)
      BY <2>1, <2>3, <3>1 DEF Moves, Fenced
    <3> QED
      BY <1>1, <2>1, <3>1, <3>2, <3>5, <3>6, RunnerChange
  <2> QED
    BY <1>7, <2>2, <2>3 DEF PostScan
<1>13. CASE PostRemotes(r)
  <2>1. /\ w.pc = "scanned" /\ fence = r /\ UNCHANGED <<plan, tree, history, lease, writes, deaths>>
        /\ RunOut(r, "accepted") \/ RunOut(r, "failed")
    BY <1>1, <1>13 DEF PostRemotes, Fenced
  <2>2. ASSUME NEW pc \in {"accepted"}, RunOut(r, pc) PROVE IInv'
    BY <1>1, <1>2, <2>1, <2>2, FenceMoves, StepKeeps DEF Fenced
  <2> QED
    BY <1>6, <2>1, <2>2
<1>8. CASE BoxEnds(r)
  <2> DEFINE row == [w EXCEPT !.box = FALSE]
  <2>1. /\ row \in RunnerRow /\ row.pc = w.pc /\ row.lease = w.lease /\ row.kind = w.kind
        /\ row.paid = w.paid /\ row.packet = w.packet /\ row.scan = w.scan
    BY <1>1 DEF RunnerRow
  <2>2. runner' = [runner EXCEPT ![r] = row] /\ runner'[r] = row
    BY <1>1, <1>8 DEF BoxEnds
  <2>3. UNCHANGED <<plan, tree, history, fence, lease, writes, deaths>>
    BY <1>8 DEF BoxEnds
  <2> HIDE DEF row
  <2>4. RunnerFacts(r)'
    BY <1>1, <2>1, <2>2, <2>3 DEF RunnerFacts, Admitted, Checking, Judged, Changed, Linked
  <2>5. Moves(r, row.pc \in Fenced)
    BY <1>1, <2>1, <2>3 DEF Moves, Fenced
  <2> QED
    BY <1>1, <2>1, <2>2, <2>3, <2>4, <2>5, RunnerChange
<1>9. CASE RunnerDies(r)
  <2>1. /\ w.pc # "idle" /\ UNCHANGED <<plan, tree, history, lease, writes>> /\ deaths' \in Nat
        /\ Step(r, "dead") /\ fence' = IF fence = r THEN None ELSE fence
    BY <1>1, <1>9 DEF RunnerDies, Dies
  <2>2. Moves(r, "dead" \in Fenced)
    BY <1>1, <2>1 DEF Moves, Fenced
  <2> QED
    BY <1>1, <1>2, <2>1, <2>2, StepKeeps DEF Fenced
<1> QED
  BY <1>3, <1>4, <1>5, <1>7, <1>8, <1>9, <1>10, <1>11, <1>12, <1>13

\* The paid start alone writes the lease file and moves a runner at once.
LEMMA ConsumeInv ==
  ASSUME IInv, NEW r \in Runner, PaidConsume(r)
  PROVE  IInv'
<1> DEFINE w == runner[r]
           l == w.lease
           e == lease[l]
<1>1. /\ w \in RunnerRow /\ l \in Lease /\ e \in LeaseRow /\ w.pc = "checked" /\ fence = r
      /\ RunnerFacts(r) /\ LeaseFacts(l) /\ deaths \in Nat
  BY DEF PaidConsume, IInv, GuardTypeOK, RunnerRow, Fenced
<1>2. UNCHANGED <<plan, tree, history, writes, deaths>> /\ fence' = None
  BY DEF PaidConsume
<1>3. CASE lease' = lease /\ Step(r, "failed")
  <2>1. Moves(r, "failed" \in Fenced) /\ [w EXCEPT !.pc = "failed"] \in RunnerRow
    BY <1>1, <1>2 DEF Moves, RunnerRow, Ended, Fenced
  <2> QED
    BY <1>1, <1>2, <1>3, <2>1, StepKeeps DEF Fenced
<1>4. CASE /\ lease' = [lease EXCEPT ![l] = [e EXCEPT !.consumed = TRUE]]
           /\ runner' = [runner EXCEPT ![r].pc = "ready", ![r].paid = TRUE]
  <2> DEFINE row == [w EXCEPT !.pc = "ready", !.paid = TRUE]
             file == [e EXCEPT !.consumed = TRUE]
  <2>1. /\ row \in RunnerRow /\ row.pc = "ready" /\ row.lease = l /\ row.kind = w.kind
        /\ row.paid = TRUE /\ row.packet = w.packet /\ row.scan = w.scan
    BY <1>1 DEF RunnerRow
  <2>2. /\ file \in LeaseRow /\ file.st = e.st /\ file.seen = e.seen /\ file.packet = e.packet
        /\ file.scope = e.scope /\ file.consumed = TRUE /\ file.excused = e.excused
    BY <1>1 DEF LeaseRow
  <2>3. runner' = [runner EXCEPT ![r] = row] /\ runner'[r] = row
    BY <1>4 DEF IInv, GuardTypeOK
  <2>4. lease' = [lease EXCEPT ![l] = file] /\ lease'[l] = file
    BY <1>1, <1>4 DEF IInv, GuardTypeOK
  <2> HIDE DEF row, file
  <2>5. GuardTypeOK'
    <3>1. lease' \in [Lease -> LeaseRow] /\ runner' \in [Runner -> RunnerRow]
      BY <1>1, <2>1, <2>2, <2>3, <2>4 DEF IInv, GuardTypeOK
    <3>2. \A m \in Lease : lease'[m].st = lease[m].st
      BY <1>1, <2>2, <2>4 DEF IInv, GuardTypeOK
    <3>3. \A m \in Lease : lease'[m].st \in Issuing <=> fence' = m
      BY <1>1, <1>2, <3>2 DEF IInv, GuardTypeOK, Process
    <3>4. \A q \in Runner : runner'[q].pc \in Fenced <=> fence' = q
      BY <1>1, <1>2, <2>1, <2>3 DEF IInv, GuardTypeOK, Process, Fenced
    <3> QED
      BY <1>2, <3>1, <3>3, <3>4 DEF IInv, GuardTypeOK
  <2>6. \A m \in Lease : LeaseFacts(m)'
    <3>1. ASSUME NEW m \in Lease PROVE LeaseFacts(m)'
      <4>1. /\ lease'[m].st = lease[m].st /\ lease'[m].seen = lease[m].seen
            /\ lease'[m].packet = lease[m].packet /\ lease'[m].excused = lease[m].excused
            /\ (m # l => lease'[m].consumed = lease[m].consumed)
        BY <1>1, <2>2, <2>4 DEF IInv, GuardTypeOK
      <4>2. LeaseFacts(m) /\ (m = l => e.st = "issued")
        BY <1>1 DEF IInv, RunnerFacts
      <4> QED
        BY <1>2, <4>1, <4>2 DEF LeaseFacts, Linked, Reported, Changed
    <3> QED
      BY <3>1
  <2>7. \A q \in Runner : RunnerFacts(q)'
    <3>1. RunnerFacts(r)'
      BY <1>1, <1>2, <2>1, <2>2, <2>3, <2>4 DEF RunnerFacts, Admitted, Checking, Judged
    <3>2. ASSUME NEW q \in Runner, q # r PROVE RunnerFacts(q)'
      <4>1. /\ runner'[q] = runner[q] /\ runner[q] \in RunnerRow /\ runner[q].lease \in Lease
            /\ runner[q].pc # "checked" /\ RunnerFacts(q)
        BY <1>1, <2>3, <3>2 DEF IInv, GuardTypeOK, RunnerRow, Fenced
      <4> DEFINE f == lease[runner[q].lease]
                 g == lease'[runner[q].lease]
      <4>2. /\ g.st = f.st /\ g.seen = f.seen /\ g.packet = f.packet /\ g.scope = f.scope
            /\ (f.consumed => g.consumed)
        BY <1>1, <2>2, <2>4, <4>1 DEF IInv, GuardTypeOK
      <4> QED
        BY <1>2, <4>1, <4>2 DEF RunnerFacts, Admitted, Checking, Judged, Changed, Linked
    <3> QED
      BY <3>1, <3>2
  <2> QED
    BY <2>5, <2>6, <2>7 DEF IInv
<1> QED
  BY <1>3, <1>4 DEF PaidConsume, Row

\* A write that puts committed content back is noted by the issue it may fool.
LEMMA WorkInv ==
  ASSUME IInv, NEW r \in Runner, Work(r)
  PROVE  IInv'
<1>1. /\ UNCHANGED <<plan, fence, runner, deaths>> /\ writes' \in Nat
      /\ tree \in Tree /\ history \in History /\ lease \in [Lease -> LeaseRow]
  BY DEF Work, IInv, GuardTypeOK
<1> DEFINE Written ==
             /\ tree' \in Tree /\ history' \in History /\ lease' \in [Lease -> LeaseRow]
             /\ \A l \in Lease : /\ lease'[l].st = lease[l].st /\ lease'[l].seen = lease[l].seen
                                  /\ lease'[l].packet = lease[l].packet /\ lease'[l].scope = lease[l].scope
                                  /\ lease'[l].consumed = lease[l].consumed
                                  /\ lease[l].excused \subseteq lease'[l].excused
             /\ \A l \in Lease, p \in Path :
                  lease[l].st = "before" /\ tree[p] # "head" => tree'[p] # "head" \/ p \in lease'[l].excused
<1>2. Written
  <2>1. CASE history' \in History \ {history} /\ UNCHANGED <<tree, lease>>
    BY <1>1, <2>1
  <2>2. ASSUME NEW p \in Path, NEW c \in Content,
               tree' = [tree EXCEPT ![p] = c], lease' = Excused(p, c), history' = history
        PROVE  Written
    <3>1. ASSUME NEW l \in Lease
          PROVE  /\ lease'[l] \in LeaseRow
                 /\ lease'[l].st = lease[l].st /\ lease'[l].seen = lease[l].seen
                 /\ lease'[l].packet = lease[l].packet /\ lease'[l].scope = lease[l].scope
                 /\ lease'[l].consumed = lease[l].consumed
                 /\ lease[l].excused \subseteq lease'[l].excused
                 /\ lease[l].st = "before" /\ c = "head" => p \in lease'[l].excused
      BY <1>1, <2>2 DEF Excused, LeaseRow
    <3>2. tree' \in Tree /\ history' \in History /\ tree'[p] = c /\ \A x \in Path \ {p} : tree'[x] = tree[x]
      BY <1>1, <2>2 DEF Tree
    <3>3. lease' \in [Lease -> LeaseRow]
      BY <2>2, <3>1 DEF Excused
    <3> QED
      BY <3>1, <3>2, <3>3
  <2> QED
    BY <2>1, <2>2 DEF Work
<1>3. GuardTypeOK'
  BY <1>1, <1>2 DEF IInv, GuardTypeOK
<1>4. \A l \in Lease : LeaseFacts(l)'
  <2>1. ASSUME NEW l \in Lease PROVE LeaseFacts(l)'
    <3>1. LeaseFacts(l)
      BY DEF IInv
    <3> QED
      BY <1>1, <1>2, <3>1 DEF LeaseFacts, Reported, Changed
  <2> QED
    BY <2>1
<1>5. \A q \in Runner : RunnerFacts(q)'
  <2>1. ASSUME NEW q \in Runner PROVE RunnerFacts(q)'
    <3>1. RunnerFacts(q) /\ runner[q].lease \in Lease /\ runner'[q] = runner[q]
      BY <1>1 DEF IInv, GuardTypeOK, RunnerRow
    <3> QED
      BY <1>1, <1>2, <3>1 DEF RunnerFacts, Admitted, Checking, Judged, Changed, Linked
  <2> QED
    BY <2>1
<1> QED
  BY <1>3, <1>4, <1>5 DEF IInv

\* A new plan only leaves older packets behind.
LEMMA ReplanInv ==
  ASSUME IInv, Replan
  PROVE  IInv'
<1>1. UNCHANGED <<tree, history, fence, lease, runner, writes, deaths>>
      /\ plan' = plan + 1 /\ plan \in Plan /\ plan' \in Plan
  BY DEF Replan, IInv, GuardTypeOK, Plan
<1>2. GuardTypeOK'
  BY <1>1 DEF IInv, GuardTypeOK
<1>3. \A l \in Lease : LeaseFacts(l)'
  <2>1. \A l \in Lease : lease[l].packet \in Int
    BY DEF IInv, GuardTypeOK, LeaseRow, Plan
  <2> QED
    BY <1>1, <2>1 DEF IInv, LeaseFacts, Linked, Reported, Changed, Plan
<1>4. \A q \in Runner : RunnerFacts(q)'
  <2>1. \A q \in Runner : runner[q].packet \in Int
    BY DEF IInv, GuardTypeOK, RunnerRow, Plan
  <2> QED
    BY <1>1, <2>1 DEF IInv, RunnerFacts, Admitted, Changed, Linked, Plan
<1> QED
  BY <1>2, <1>3, <1>4 DEF IInv

\* Every step keeps the invariant.
LEMMA NextIInv == IInv /\ [GuardNext]_guardVars => IInv'
<1> SUFFICES ASSUME IInv, [GuardNext]_guardVars PROVE IInv'
    OBVIOUS
<1>1. CASE Replan
  BY <1>1, ReplanInv
<1>2. ASSUME NEW l \in Lease, IssueStep(l) \/ IssuerDies(l) PROVE IInv'
  BY <1>2, IssueInv
<1>3. ASSUME NEW r \in Runner,
             Begin(r) \/ RunnerStep(r) \/ Work(r) \/ BoxEnds(r) \/ RunnerDies(r)
      PROVE  IInv'
  BY <1>3, CheckInv, AfterInv, ConsumeInv, WorkInv DEF RunnerStep
<1>4. CASE UNCHANGED guardVars
  <2>1. /\ plan' = plan /\ tree' = tree /\ history' = history /\ fence' = fence
        /\ lease' = lease /\ runner' = runner /\ writes' = writes /\ deaths' = deaths
    BY <1>4 DEF guardVars
  <2>2. GuardTypeOK'
    BY <2>1 DEF IInv, GuardTypeOK
  <2>3. (\A l \in Lease : LeaseFacts(l)') /\ (\A r \in Runner : RunnerFacts(r)')
    BY <2>1 DEF IInv, LeaseFacts, RunnerFacts, Admitted, Changed, Linked, Reported
  <2> QED
    BY <2>2, <2>3 DEF IInv
<1> QED
  BY <1>1, <1>2, <1>3, <1>4 DEF GuardNext

\* The invariant holds throughout.
LEMMA Invariant == GuardSpec => []IInv
  BY InitIInv, NextIInv, PTL DEF GuardSpec

-----------------------------------------------------------------------------
(* The theorems.                                                           *)

\* Type correctness, and that the fence is held exactly by the process that
\* is between two steps of an issue or of a paid start.
THEOREM GuardTypeCorrect == GuardSpec => []GuardTypeOK
<1>1. IInv => GuardTypeOK
  BY DEF IInv
<1> QED
  BY <1>1, Invariant, PTL

\* What a lease's baseline has that the commit has not, was put back and taken
\* away again while issue looked, or Git's own state had been changed: the
\* second snapshot leaves nothing else room, whatever writes meanwhile.
THEOREM BaselineIsCommitted == GuardSpec => []CleanBaseline
<1>1. IInv => CleanBaseline
  BY DEF IInv, CleanBaseline, LeaseFacts
<1> QED
  BY <1>1, Invariant, PTL

\* A runner's packet is the one its lease was issued for, however often the
\* packet file is rewritten.
THEOREM PromptLeased == GuardSpec => []PromptIsLeased
<1>1. IInv => PromptIsLeased
  BY DEF IInv, PromptIsLeased, RunnerFacts, Admitted
<1> QED
  BY <1>1, Invariant, PTL

\* What a postflight accepts is its lease's baseline outside the scope, and so
\* the commit but for what that baseline was excused, and adds no link.
THEOREM AcceptedWithinScope == GuardSpec => []AcceptedInScope
<1>1. ASSUME IInv PROVE AcceptedInScope
  <2>1. ASSUME NEW r \in Runner, runner[r].pc = "accepted"
        PROVE  LET l == runner[r].lease
                   scope == IF runner[r].kind = "governed" THEN Envelope ELSE lease[l].scope
               IN /\ Reported(runner[r].scan) \subseteq scope \cup lease[l].excused
                  /\ Changed(lease[l].seen, runner[r].scan) \subseteq scope
                  /\ Linked(runner[r].scan) \subseteq Linked(lease[l].seen)
    <3> DEFINE l == runner[r].lease
    <3>1. RunnerFacts(r) /\ l \in Lease
      BY <1>1 DEF IInv, GuardTypeOK, RunnerRow
    <3>2. lease[l].st = "issued" /\ LeaseFacts(l)
      BY <1>1, <2>1, <3>1 DEF IInv, RunnerFacts
    <3>3. Reported(lease[l].seen) \subseteq lease[l].excused
      BY <3>2 DEF LeaseFacts
    <3>4. Reported(runner[r].scan) \subseteq
            Changed(lease[l].seen, runner[r].scan) \cup Reported(lease[l].seen)
      BY DEF Reported, Changed, Head
    <3>5. /\ Changed(lease[l].seen, runner[r].scan) \subseteq lease[l].scope
          /\ Linked(runner[r].scan) \subseteq Linked(lease[l].seen)
          /\ (runner[r].kind = "governed" => Envelope = lease[l].scope)
      BY <2>1, <3>1 DEF RunnerFacts, Admitted, Judged
    <3> QED
      BY <3>3, <3>4, <3>5
  <2> QED
    BY <2>1 DEF AcceptedInScope
<1> QED
  BY <1>1, Invariant, PTL

\* An issue never touches what is consumed.
LEMMA IssueKeepsConsumed ==
  ASSUME lease \in [Lease -> LeaseRow], NEW l \in Lease, IssueStep(l) \/ IssuerDies(l)
  PROVE  \A m \in Lease : lease'[m].consumed = lease[m].consumed
<1> DEFINE e == lease[l]
<1>1. e \in LeaseRow
  OBVIOUS
<1>2. ASSUME NEW row, row.consumed = e.consumed, Row(l, row)
      PROVE  \A m \in Lease : lease'[m].consumed = lease[m].consumed
  BY <1>2 DEF Row
<1>3. CASE IssueRead(l)
  <2>1. PICK x : Row(l, [e EXCEPT !.executor = x, !.scope = Scope[plan], !.packet = plan,
                          !.st = IF ValidPacket(plan) /\ IsolationOk(x) THEN "read" ELSE "denied"])
    BY <1>3 DEF IssueRead
  <2>2. [e EXCEPT !.executor = x, !.scope = Scope[plan], !.packet = plan,
           !.st = IF ValidPacket(plan) /\ IsolationOk(x) THEN "read" ELSE "denied"].consumed
          = e.consumed
    BY <1>1 DEF LeaseRow
  <2> QED
    BY <1>2, <2>1, <2>2
<1>4. CASE \/ IssueCheck(l) \/ IssueBefore(l) \/ IssueCompare(l) \/ IssueWrite(l) \/ IssuerDies(l)
  <2>1. \/ Row(l, [e EXCEPT !.st = "denied"])
        \/ Row(l, [e EXCEPT !.st = "linkless"])
        \/ Row(l, [e EXCEPT !.st = "before", !.seen = tree])
        \/ Row(l, [e EXCEPT !.st = "same"])
        \/ Row(l, [e EXCEPT !.st = "issued", !.packet = plan, !.history = history])
    BY <1>4 DEF IssueCheck, IssueBefore, IssueCompare, IssueWrite, IssuerDies, IssueOn, IssueDenied
  <2>2. /\ [e EXCEPT !.st = "denied"].consumed = e.consumed
        /\ [e EXCEPT !.st = "linkless"].consumed = e.consumed
        /\ [e EXCEPT !.st = "before", !.seen = tree].consumed = e.consumed
        /\ [e EXCEPT !.st = "same"].consumed = e.consumed
        /\ [e EXCEPT !.st = "issued", !.packet = plan, !.history = history].consumed = e.consumed
    BY <1>1 DEF LeaseRow
  <2> QED
    BY <1>2, <2>1, <2>2
<1>5. CASE IssueStatus(l)
  <2>1. PICK x : \/ Row(l, [e EXCEPT !.st = "clean", !.excused = x])
                 \/ Row(l, [e EXCEPT !.st = "denied"])
    BY <1>5 DEF IssueStatus, IssueOn, IssueDenied
  <2>2. /\ [e EXCEPT !.st = "clean", !.excused = x].consumed = e.consumed
        /\ [e EXCEPT !.st = "denied"].consumed = e.consumed
    BY <1>1 DEF LeaseRow
  <2> QED
    BY <1>2, <2>1, <2>2
<1> QED
  BY <1>3, <1>4, <1>5 DEF IssueStep

\* Nor does a write.
LEMMA WorkKeepsConsumed ==
  ASSUME lease \in [Lease -> LeaseRow], NEW r \in Runner, Work(r)
  PROVE  \A m \in Lease : lease'[m].consumed = lease[m].consumed
<1>1. lease' = lease \/ \E p, c : lease' = Excused(p, c)
  BY DEF Work
<1> QED
  BY <1>1 DEF Excused, LeaseRow

\* Who paid still has, under its lease, and nobody else has.
PaidKept ==
  /\ \A q \in Runner : runner'[q].paid = runner[q].paid
  /\ \A q \in Runner : runner[q].paid => runner'[q].lease = runner[q].lease

\* No runner's step but the paid start pays, and who paid keeps its lease.
LEMMA RunnerKeepsPaid ==
  ASSUME runner \in [Runner -> RunnerRow], NEW r \in Runner,
         runner[r].pc = "idle" => ~runner[r].paid,
         \/ Begin(r) \/ VerifyLinks(r) \/ VerifyTree(r) \/ VerifyGit(r) \/ Prompt(r) \/ AgentEnds(r)
         \/ PostLinks(r) \/ PostGit(r) \/ PostCompare(r) \/ PostScan(r) \/ PostRemotes(r)
         \/ BoxEnds(r) \/ RunnerDies(r)
  PROVE  PaidKept
<1> DEFINE w == runner[r]
<1>1. w \in RunnerRow
  OBVIOUS
<1>2. ASSUME NEW row, row.paid = w.paid, w.paid => row.lease = w.lease,
             runner' = [runner EXCEPT ![r] = row]
      PROVE  PaidKept
  BY <1>2 DEF PaidKept
<1>3. ASSUME NEW pc, Step(r, pc)
      PROVE  PaidKept
  <2>1. /\ [w EXCEPT !.pc = pc].paid = w.paid /\ [w EXCEPT !.pc = pc].lease = w.lease
        /\ runner' = [runner EXCEPT ![r] = [w EXCEPT !.pc = pc]]
    BY <1>1, <1>3 DEF Step, RunnerRow
  <2> QED
    BY <1>2, <2>1
<1>4. CASE Begin(r)
  <2>1. PICK l, k : runner' = [runner EXCEPT ![r].pc = "start", ![r].kind = k,
                                ![r].lease = l, ![r].packet = plan]
    BY <1>4 DEF Begin
  <2> DEFINE row == [w EXCEPT !.pc = "start", !.kind = k, !.lease = l, !.packet = plan]
  <2>2. row.paid = w.paid /\ ~w.paid /\ runner' = [runner EXCEPT ![r] = row]
    BY <1>1, <1>4, <2>1 DEF RunnerRow, Begin
  <2> HIDE DEF row
  <2> QED
    BY <1>2, <2>2
<1>5. CASE Prompt(r)
  <2> DEFINE row == [w EXCEPT !.pc = "working", !.box = Boxed(w.kind),
                       !.packet = PromptPacket(r)]
  <2>1. row.paid = w.paid /\ row.lease = w.lease /\ runner' = [runner EXCEPT ![r] = row]
    BY <1>1, <1>5 DEF RunnerRow, Prompt
  <2> HIDE DEF row
  <2> QED
    BY <1>2, <2>1
<1>6. CASE PostScan(r)
  <2>1. CASE Step(r, "failed")
    BY <1>3, <2>1
  <2>2. ASSUME NEW pc, runner' = [runner EXCEPT ![r].pc = pc, ![r].scan = tree]
        PROVE  PaidKept
    <3> DEFINE row == [w EXCEPT !.pc = pc, !.scan = tree]
    <3>1. row.paid = w.paid /\ row.lease = w.lease /\ runner' = [runner EXCEPT ![r] = row]
      BY <1>1, <2>2 DEF RunnerRow
    <3> HIDE DEF row
    <3> QED
      BY <1>2, <3>1
  <2> QED
    BY <1>6, <2>1, <2>2 DEF PostScan, RunOut
<1>7. CASE BoxEnds(r)
  <2> DEFINE row == [w EXCEPT !.box = FALSE]
  <2>1. row.paid = w.paid /\ row.lease = w.lease /\ runner' = [runner EXCEPT ![r] = row]
    BY <1>1, <1>7 DEF RunnerRow, BoxEnds
  <2> HIDE DEF row
  <2> QED
    BY <1>2, <2>1
<1>8. CASE \/ VerifyLinks(r) \/ VerifyTree(r) \/ VerifyGit(r) \/ AgentEnds(r)
           \/ PostLinks(r) \/ PostGit(r) \/ PostCompare(r) \/ PostRemotes(r) \/ RunnerDies(r)
  <2>1. \E pc : Step(r, pc)
    BY <1>8 DEF VerifyLinks, VerifyTree, VerifyGit, AgentEnds, PostLinks, PostGit, PostCompare,
       PostRemotes, RunnerDies, RunOn, RunOut
  <2> QED
    BY <1>3, <2>1
<1> QED
  BY <1>4, <1>5, <1>6, <1>7, <1>8

\* The lease file, its fence and its readers implement a one-shot start: the
\* write of the file is the abstract step, every other step a stutter.
THEOREM OneShotRefinement == GuardSpec => ImplementsOneShot
<1>1. GuardInit => Shot!ShotInit
  BY DEF GuardInit, Shot!ShotInit, spentView, paidView
<1>2. ASSUME IInv, [GuardNext]_guardVars
      PROVE  [Shot!ShotNext]_(Shot!shotVars)
  <2>1. ASSUME NEW r \in Runner, PaidConsume(r), UNCHANGED lease
        PROVE  spentView' = spentView /\ paidView' = paidView
    <3>1. Step(r, "failed")
      <4>1. runner[r].lease \in Lease /\ ~lease[runner[r].lease].consumed
            /\ lease[runner[r].lease] \in LeaseRow
        BY <1>2, <2>1 DEF PaidConsume, IInv, GuardTypeOK, RunnerFacts, RunnerRow
      <4>2. lease[runner[r].lease] # [lease[runner[r].lease] EXCEPT !.consumed = TRUE]
        BY <4>1 DEF LeaseRow
      <4> QED
        BY <1>2, <2>1, <4>1, <4>2 DEF PaidConsume, Row, IInv, GuardTypeOK
    <3> QED
      BY <1>2, <2>1, <3>1 DEF Step, spentView, paidView, IInv, GuardTypeOK, RunnerRow
  <2>2. ASSUME NEW r \in Runner, PaidConsume(r), lease' # lease
        PROVE  Shot!ShotNext
    <3> DEFINE l == runner[r].lease
    <3>1. /\ l \in Lease /\ ~lease[l].consumed /\ ~runner[r].paid
          /\ runner \in [Runner -> RunnerRow] /\ lease \in [Lease -> LeaseRow]
      BY <1>2, <2>2 DEF PaidConsume, IInv, GuardTypeOK, RunnerFacts, RunnerRow
    <3>2. /\ lease' = [lease EXCEPT ![l] = [lease[l] EXCEPT !.consumed = TRUE]]
          /\ runner' = [runner EXCEPT ![r].pc = "ready", ![r].paid = TRUE]
      BY <2>2 DEF PaidConsume, Row
    <3>3. /\ \A m \in Lease : lease'[m].consumed <=> m = l \/ lease[m].consumed
      BY <3>1, <3>2 DEF LeaseRow
    <3>4. \A q \in Runner : /\ runner'[q].lease = runner[q].lease
                            /\ runner'[q].paid <=> q = r \/ runner[q].paid
      BY <3>1, <3>2 DEF RunnerRow
    <3>5. l \notin spentView /\ paidView[r] = None /\ spentView' = spentView \cup {l}
      BY <3>1, <3>3 DEF spentView, paidView
    <3>6. paidView' = [paidView EXCEPT ![r] = l]
      BY <3>1, <3>4 DEF paidView
    <3> QED
      BY <3>1, <3>5, <3>6 DEF Shot!ShotNext, Shot!Shoot
  <2>3. ASSUME \A r \in Runner : ~PaidConsume(r)
        PROVE  spentView' = spentView /\ paidView' = paidView
    <3>t. lease \in [Lease -> LeaseRow] /\ runner \in [Runner -> RunnerRow]
      BY <1>2 DEF IInv, GuardTypeOK
    <3>1. spentView' = spentView
      <4>1. CASE lease' = lease
        BY <4>1 DEF spentView
      <4>2. CASE lease' # lease
        <5>1. (\E l \in Lease : IssueStep(l) \/ IssuerDies(l)) \/ (\E r \in Runner : Work(r))
          BY <1>2, <2>3, <4>2 DEF GuardNext, guardVars, Replan, Begin, RunnerStep, VerifyLinks,
             VerifyTree, VerifyGit, Prompt, AgentEnds, PostLinks, PostGit, PostCompare, PostScan,
             PostRemotes, BoxEnds, RunnerDies
        <5>2. \A m \in Lease : lease'[m].consumed = lease[m].consumed
          BY <3>t, <5>1, IssueKeepsConsumed, WorkKeepsConsumed
        <5> QED
          BY <5>2 DEF spentView
      <4> QED
        BY <4>1, <4>2
    <3>2. paidView' = paidView
      <4>1. CASE runner' = runner
        BY <4>1 DEF paidView
      <4>2. CASE runner' # runner
        <5>1. PICK r \in Runner :
                \/ Begin(r) \/ VerifyLinks(r) \/ VerifyTree(r) \/ VerifyGit(r) \/ Prompt(r)
                \/ AgentEnds(r) \/ PostLinks(r) \/ PostGit(r) \/ PostCompare(r) \/ PostScan(r)
                \/ PostRemotes(r) \/ BoxEnds(r) \/ RunnerDies(r)
          BY <1>2, <2>3, <4>2 DEF GuardNext, guardVars, Replan, RunnerStep, Work, IssueStep, IssueRead,
             IssueCheck, IssueBefore, IssueStatus, IssueCompare, IssueWrite, IssuerDies
        <5>2. runner[r].pc = "idle" => ~runner[r].paid
          BY <1>2 DEF IInv, RunnerFacts
        <5>3. /\ \A q \in Runner : runner'[q].paid = runner[q].paid
              /\ \A q \in Runner : runner[q].paid => runner'[q].lease = runner[q].lease
          BY <3>t, <5>1, <5>2, RunnerKeepsPaid DEF PaidKept
        <5>4. ASSUME NEW q \in Runner
              PROVE  (IF runner'[q].paid THEN runner'[q].lease ELSE None)
                       = (IF runner[q].paid THEN runner[q].lease ELSE None)
          <6>1. runner'[q].paid = runner[q].paid
            BY <5>3
          <6>2. CASE runner[q].paid
            <7>1. runner'[q].lease = runner[q].lease
              BY <5>3, <6>2
            <7>2. runner'[q].paid
              BY <6>1, <6>2, Zenon
            <7> QED
              BY <6>2, <7>1, <7>2
          <6>3. CASE ~runner[q].paid
            BY <6>1, <6>3, Zenon
          <6> QED
            BY <6>2, <6>3
        <5> QED
          BY <5>4 DEF paidView
      <4> QED
        BY <4>1, <4>2
    <3> QED
      BY <3>1, <3>2
  <2> QED
    BY <2>1, <2>2, <2>3 DEF Shot!shotVars
<1>3. QED
  BY <1>1, <1>2, Invariant, PTL DEF GuardSpec, ImplementsOneShot, Shot!ShotSpec
=============================================================================
