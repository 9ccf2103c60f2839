---------------------------- MODULE AutopilotProofs ----------------------------
(***************************************************************************)
(* Proofs about Autopilot for every set of processes and every bound.      *)
(*                                                                         *)
(* The inductive invariant AutoInv says how far a run's child, calls,      *)
(* writes and failed saves are for each step its controller can be at      *)
(* (JobConsistent), and what stays true of a run whoever has it            *)
(* (RunConsistent).  A child whose controller died is counted by the crash *)
(* that orphaned it, one whose controller lost its lock by the removal.    *)
(***************************************************************************)
EXTENDS Autopilot, FiniteSetTheorems, TLAPS

ChildType == [at : {"none", "repair", "review", "ended"}, publish : BOOLEAN, passed : BOOLEAN]

AutoType ==
  /\ disk \in [RunId -> RecordType \cup {None}]
  /\ holder \in Proc \cup {None}
  /\ job \in [Proc -> JobType \cup {None}]
  /\ child \in [RunId -> ChildType]
  /\ paid \in [RunId -> Nat]
  /\ pushed \in [RunId -> Nat]
  /\ exit \in [RunId -> {0, 1, 2, None}]
  /\ threw \in [RunId -> Nat]
  /\ evicted \in Nat
  /\ runs \in 0 .. MaxRuns
  /\ crashes \in Nat

Quiet(r) == child[r].at \in {"none", "ended"}
Untouched(r) == child[r].at = "none" /\ paid[r] = 0 /\ pushed[r] = 0

\* The states a command can fail in.
Underway == DOMAIN Following \cup {"QUEUE", "EXECUTE", "REVIEW"}

\* What a command that is over has done.
Settled(r, rec) ==
  /\ rec.finished
  /\ rec.model_calls = paid[r] /\ rec.github_writes = pushed[r]
  /\ IF rec.command = "repair" THEN Published(r) /\ child[r].publish ELSE paid[r] + pushed[r] = 0
  /\ Quiet(r)

\* What the record in memory says while the command is at work.
Progress(r, rec) ==
  \/ /\ rec.state \in DOMAIN Following \cup {"QUEUE"}
     /\ rec.model_calls = 0 /\ Untouched(r)
  \/ /\ rec.state = "EXECUTE" /\ rec.command = "repair"
     /\ rec.model_calls = 0 /\ pushed[r] = 0 /\ child[r].at \in {"repair", "ended"}
  \/ /\ rec.state = "REVIEW" /\ rec.command = "repair"
     /\ rec.model_calls = paid[r] /\ child[r].at \in {"review", "ended"}

\* What it says when an error is to be caught: the run is under way, or over
\* and only its last save threw.
Caught(r, rec) ==
  /\ Quiet(r)
  /\ \/ rec.state \in Underway /\ disk[r].state # "COMPLETE"
     \/ rec.state = "COMPLETE" /\ Settled(r, rec) /\ threw[r] > 0

JobConsistent(p) ==
  LET r == job[p].id
      rec == job[p].run
      pc == job[p].pc IN
  /\ r <= runs
  /\ pc \in {"acquire", "unlink", "work"} =>
       disk[r].state # "COMPLETE" /\ rec.github_writes = 0 /\ threw[r] = 0
  /\ pc \in {"acquire", "unlink", "work", "failed"} => exit[r] = None
  /\ pc \in {"acquire", "unlink"} => rec.state = "BOOT" /\ rec.model_calls = 0 /\ Untouched(r)
  /\ pc = "work" => Progress(r, rec)
  /\ pc = "failed" => Caught(r, rec)
  /\ pc \in {"release", "remove"} => Quiet(r)

JobsConsistent == \A p \in Proc : Live(p) => JobConsistent(p)

OneControllerPerRun == \A p, q \in Proc : Live(p) /\ Live(q) /\ p # q => job[p].id # job[q].id

\* ExitTells of one run.
ExitTrue(r) ==
  exit[r] # None =>
    \/ exit[r] = 0 /\ threw[r] = 0 /\ disk[r].finished /\ disk[r].state = "COMPLETE"
    \/ exit[r] = 2 /\ disk[r].finished /\ disk[r].state = "SAFE_STOP"
    \/ exit[r] = 2 /\ threw[r] > 0
    \/ exit[r] = 1 /\ threw[r] > 0 /\ child[r].at = "none"

RunConsistent(r) ==
  /\ r > runs => Untouched(r) /\ exit[r] = None /\ threw[r] = 0
  /\ pushed[r] > 0 => child[r].publish
  /\ disk[r] # None /\ disk[r].state = "COMPLETE" => Settled(r, disk[r])
  /\ exit[r] # None => Quiet(r)
  /\ ExitTrue(r)

RunsConsistent == \A r \in RunId : RunConsistent(r)

AutoInv == AutoType /\ JobsConsistent /\ OneControllerPerRun /\ RunsConsistent
-----------------------------------------------------------------------------
(* Transitions.                                                            *)

\* A path of one transition is legal when the machine allows it.
LEMMA LegalPair ==
  ASSUME NEW path, Len(path) = 2
  PROVE  Legal(path) <=> path[2] \in ALLOWED[path[1]]
BY DEF Legal

\* The machine has SAFE_STOP after every state a command can fail in, and
\* nothing after COMPLETE.
LEMMA StoppedRecord ==
  ASSUME NEW rec \in RecordType, rec.state \in Underway \cup {"COMPLETE"}
  PROVE  /\ Stopped(rec) \in RecordType /\ Stopped(rec).finished
         /\ rec.state \in Underway => Stopped(rec).state = "SAFE_STOP"
         /\ rec.state = "COMPLETE" /\ rec.finished => Stopped(rec) = rec
<1> DEFINE path == <<rec.state, "SAFE_STOP">>
<1>1. Len(path) = 2 /\ path[1] = rec.state /\ path[2] = "SAFE_STOP"
  OBVIOUS
<1>2. Legal(path) <=> "SAFE_STOP" \in ALLOWED[rec.state]
  <2> HIDE DEF path
  <2> QED
    BY <1>1, LegalPair
<1>3. CASE rec.state \in Underway
  <2>1. rec.state \in {"BOOT", "PREFLIGHT", "SYNC", "READ_CONTROL", "INSPECT", "PLAN", "QUEUE",
                       "EXECUTE", "REVIEW"}
    BY <1>3 DEF Underway, Following
  <2>2. "SAFE_STOP" \in ALLOWED[rec.state]
    BY <2>1 DEF ALLOWED, RunState
  <2>3. Stopped(rec) = [rec EXCEPT !.state = "SAFE_STOP", !.finished = TRUE]
    BY <1>2, <2>2 DEF Stopped
  <2>4. rec.state # "COMPLETE"
    BY <2>1
  <2> QED
    BY <2>3, <2>4 DEF RecordType, RunState
<1>4. CASE rec.state = "COMPLETE"
  <2>1. "SAFE_STOP" \notin ALLOWED[rec.state]
    BY <1>4 DEF ALLOWED, RunState
  <2>2. Stopped(rec) = [rec EXCEPT !.state = rec.state, !.finished = TRUE]
    BY <1>2, <2>1 DEF Stopped
  <2>3. rec.state \notin Underway
    BY <1>4 DEF Underway, Following
  <2> QED
    BY <2>2, <2>3 DEF RecordType
<1> QED
  BY <1>3, <1>4

\* A review without a draft cannot complete the run.
LEMMA ReviewNeedsDraft == ~Legal(<<"REVIEW">> \o <<"COMPLETE">>)
<1> DEFINE path == <<"REVIEW">> \o <<"COMPLETE">>
<1>1. Len(path) = 2 /\ path[1] = "REVIEW" /\ path[2] = "COMPLETE"
  OBVIOUS
<1> HIDE DEF path
<1>2. "REVIEW" \in RunState /\ "COMPLETE" \notin ALLOWED["REVIEW"]
  BY DEF RunState, ALLOWED
<1> QED
  BY <1>1, <1>2, LegalPair DEF path
-----------------------------------------------------------------------------
(* The steps of a command.                                                 *)

\* Where a process at a label other than "dead" stands.
LEMMA AtLabel ==
  ASSUME AutoInv, NEW p \in Proc,
         NEW label \in {"acquire", "unlink", "work", "failed", "release", "remove"}, At(p, label)
  PROVE  /\ Live(p) /\ job[p].pc = label /\ job[p] \in JobType
         /\ job[p].run \in RecordType /\ job[p].id \in RunId
         /\ JobConsistent(p) /\ RunConsistent(job[p].id)
BY DEF At, Live, AutoInv, AutoType, JobType, JobsConsistent, RunsConsistent

\* Nothing of run r changes.
Kept(r) ==
  /\ disk'[r] = disk[r] /\ exit'[r] = exit[r] /\ threw'[r] = threw[r]
  /\ child'[r] = child[r] /\ paid'[r] = paid[r] /\ pushed'[r] = pushed[r]

\* What stays true of the others when p's command takes a step.
LEMMA OwnStep ==
  ASSUME AutoInv, NEW p \in Proc, NEW id \in RunId, id = job[p].id, Live(p), AutoType',
         \A q \in Proc \ {p} : job'[q] = job[q], \A r \in RunId \ {id} : Kept(r),
         runs' = runs, Live(p)' => job'[p].id = id /\ JobConsistent(p)',
         RunConsistent(id)'
  PROVE  AutoInv'
<1>1. AutoType /\ JobsConsistent /\ OneControllerPerRun /\ RunsConsistent
  BY DEF AutoInv
<1>2. \A q \in Proc \ {p} : /\ Live(q)' <=> Live(q)
                            /\ Live(q) => job[q].id \in RunId \ {id}
  BY <1>1 DEF Live, OneControllerPerRun, AutoType, JobType
<1>3. JobsConsistent'
  <2> SUFFICES ASSUME NEW q \in Proc, Live(q)' PROVE JobConsistent(q)'
    BY DEF JobsConsistent
  <2>1. CASE q = p
    BY <2>1
  <2>2. CASE q # p
    <3>1. Live(q) /\ job'[q] = job[q] /\ Kept(job[q].id)
      BY <1>2, <2>2
    <3>2. JobConsistent(q)
      BY <1>1, <3>1 DEF JobsConsistent
    <3> QED
      BY <3>1, <3>2 DEF JobConsistent, Kept, Untouched, Quiet, Progress, Caught, Settled, Published
  <2> QED
    BY <2>1, <2>2
<1>4. OneControllerPerRun'
  BY <1>1, <1>2 DEF OneControllerPerRun
<1>5. RunsConsistent'
  <2> SUFFICES ASSUME NEW r \in RunId PROVE RunConsistent(r)'
    BY DEF RunsConsistent
  <2>1. CASE r # id
    <3>1. Kept(r) /\ RunConsistent(r)
      BY <1>1, <2>1 DEF RunsConsistent
    <3> QED
      BY <3>1 DEF Kept, RunConsistent, Untouched, Quiet, Settled, Published, ExitTrue
  <2> QED
    BY <2>1
<1> QED
  BY <1>3, <1>4, <1>5 DEF AutoInv

\* What a save does.
LEMMA SaveEffect ==
  ASSUME AutoType, NEW id \in RunId, NEW rec \in RecordType, Saved(id, rec) \/ SaveThrows(id, rec)
  PROVE  /\ disk' \in [RunId -> RecordType \cup {None}] /\ threw' \in [RunId -> Nat]
         /\ \A r \in RunId \ {id} : disk'[r] = disk[r] /\ threw'[r] = threw[r]
         /\ \/ disk'[id] = rec /\ threw' = threw
            \/ disk'[id] \in {disk[id], rec} /\ threw'[id] > 0
         /\ Saved(id, rec) => disk'[id] = rec /\ threw' = threw
         /\ SaveThrows(id, rec) => disk'[id] \in {disk[id], rec} /\ threw'[id] > 0
<1>1. CASE Saved(id, rec)
  <2>1. disk' = [disk EXCEPT ![id] = rec] /\ threw' = threw
    BY <1>1 DEF Saved
  <2>2. ~SaveThrows(id, rec)
    BY <2>1 DEF SaveThrows, AutoType
  <2> QED
    BY <2>1, <2>2 DEF AutoType
<1>2. CASE SaveThrows(id, rec)
  <2>1. threw' = [threw EXCEPT ![id] = threw[id] + 1]
    BY <1>2 DEF SaveThrows
  <2>2. disk' = [disk EXCEPT ![id] = rec] \/ disk' = disk
    BY <1>2 DEF SaveThrows
  <2>3. threw[id] \in Nat
    BY DEF AutoType
  <2>4. threw' \in [RunId -> Nat] /\ threw'[id] > 0 /\ \A r \in RunId \ {id} : threw'[r] = threw[r]
    BY <2>1, <2>3 DEF AutoType
  <2>5. ~Saved(id, rec)
    BY <2>1, <2>3 DEF Saved, AutoType
  <2>6. /\ disk' \in [RunId -> RecordType \cup {None}] /\ disk'[id] \in {disk[id], rec}
        /\ \A r \in RunId \ {id} : disk'[r] = disk[r]
    BY <2>2 DEF AutoType
  <2> QED
    BY <2>4, <2>5, <2>6
<1> QED
  BY <1>1, <1>2

Labels == {"acquire", "unlink", "work", "failed", "release", "remove"}

\* What a change of a job's label and record does.
LEMMA JobEffect ==
  ASSUME AutoType, NEW p \in Proc, Live(p), NEW rec \in RecordType, NEW label \in Labels,
         \/ job' = [job EXCEPT ![p].run = rec, ![p].pc = label]
         \/ job' = [job EXCEPT ![p].run = rec] /\ label = job[p].pc
         \/ job' = [job EXCEPT ![p].pc = label] /\ rec = job[p].run
  PROVE  /\ job' \in [Proc -> JobType \cup {None}] /\ \A q \in Proc \ {p} : job'[q] = job[q]
         /\ job'[p].id = job[p].id /\ job'[p].run = rec /\ job'[p].pc = label
         /\ job'[p] \in JobType /\ Live(p)' /\ (At(p, "failed")' <=> label = "failed")
<1>1. job[p] \in JobType
  BY DEF AutoType, Live
<1>2. job' = [job EXCEPT ![p] = [job[p] EXCEPT !.run = rec, !.pc = label]]
  <2>1. CASE job' = [job EXCEPT ![p].run = rec, ![p].pc = label]
    BY <2>1
  <2>2. CASE job' = [job EXCEPT ![p].run = rec] /\ label = job[p].pc
    <3>1. [job[p] EXCEPT !.run = rec] = [job[p] EXCEPT !.run = rec, !.pc = label]
      BY <1>1, <2>2 DEF JobType
    <3> QED
      BY <2>2, <3>1
  <2>3. CASE job' = [job EXCEPT ![p].pc = label] /\ rec = job[p].run
    <3>1. [job[p] EXCEPT !.pc = label] = [job[p] EXCEPT !.run = rec, !.pc = label]
      BY <1>1, <2>3 DEF JobType
    <3> QED
      BY <2>3, <3>1
  <2> QED
    BY <2>1, <2>2, <2>3
<1>3. [job[p] EXCEPT !.run = rec, !.pc = label] \in JobType
  BY <1>1 DEF JobType, Labels
<1>4. /\ job' \in [Proc -> JobType \cup {None}] /\ \A q \in Proc \ {p} : job'[q] = job[q]
      /\ job'[p].id = job[p].id /\ job'[p].run = rec /\ job'[p].pc = label /\ job'[p] \in JobType
  BY <1>1, <1>2, <1>3 DEF AutoType, JobType
<1> QED
  BY <1>4, NoneIsNoJob DEF Live, At, Labels

\* A command that goes on, if its save succeeds.
LEMMA ContinueStep ==
  ASSUME AutoInv, NEW p \in Proc, NEW id \in RunId, id = job[p].id, At(p, "work"),
         NEW rec \in RecordType, Continue(p, rec),
         rec.state \in Underway, rec.github_writes = 0,
         ~At(p, "failed")' => Progress(id, rec)',
         At(p, "failed")' => child' = child, Quiet(id),
         child' \in [RunId -> ChildType],
         \A r \in RunId \ {id} : child'[r] = child[r],
         child'[id].publish = child[id].publish \/ pushed[id] = 0,
         UNCHANGED <<holder, paid, pushed, evicted, runs, crashes>>
  PROVE  AutoInv'
<1>0. AutoType
  BY DEF AutoInv
<1>1. /\ Live(p) /\ job[p].pc = "work" /\ job[p] \in JobType /\ id \in RunId
      /\ JobConsistent(p) /\ RunConsistent(id)
  BY AtLabel
<1>2. /\ \/ Saved(id, rec) /\ job' = [job EXCEPT ![p].run = rec]
         \/ SaveThrows(id, rec) /\ job' = [job EXCEPT ![p].run = rec, ![p].pc = "failed"]
      /\ exit' = exit
  BY DEF Continue
<1>3. PICK label \in {"work", "failed"} :
        /\ label = "work" => Saved(id, rec) /\ job' = [job EXCEPT ![p].run = rec] /\ label = job[p].pc
        /\ label = "failed" => SaveThrows(id, rec) /\ job' = [job EXCEPT ![p].run = rec, ![p].pc = label]
  BY <1>1, <1>2
<1>4. /\ job' \in [Proc -> JobType \cup {None}] /\ \A q \in Proc \ {p} : job'[q] = job[q]
      /\ job'[p].id = id /\ job'[p].run = rec /\ job'[p].pc = label
      /\ Live(p)' /\ (At(p, "failed")' <=> label = "failed")
  BY <1>0, <1>1, <1>3, JobEffect DEF Labels
<1>5. /\ disk' \in [RunId -> RecordType \cup {None}] /\ threw' \in [RunId -> Nat]
      /\ \A r \in RunId \ {id} : disk'[r] = disk[r] /\ threw'[r] = threw[r]
      /\ disk'[id] \in {disk[id], rec}
      /\ label = "work" => threw' = threw
  BY <1>0, <1>1, <1>3, SaveEffect
<1>6. rec.state # "COMPLETE" /\ disk[id].state # "COMPLETE"
  BY <1>1 DEF Underway, Following, JobConsistent
<1>7. AutoType'
  BY <1>0, <1>2, <1>4, <1>5 DEF AutoType
<1>8. \A r \in RunId \ {id} : Kept(r)
  BY <1>2, <1>5 DEF Kept
<1>9. JobConsistent(p)'
  <2>1. label = "failed" => Caught(id, rec)'
    BY <1>4, <1>5, <1>6 DEF Caught, Quiet
  <2>2. label = "work" => Progress(id, rec)'
    BY <1>4
  <2>3. /\ id <= runs' /\ disk'[id].state # "COMPLETE" /\ exit'[id] = None
        /\ label = "work" => threw'[id] = 0
    BY <1>1, <1>2, <1>5, <1>6 DEF JobConsistent
  <2>4. /\ label = "failed" => Caught(job[p].id, job[p].run)'
        /\ label = "work" => Progress(job[p].id, job[p].run)'
    BY <1>4, <2>1, <2>2 DEF Caught, Progress, Quiet, Untouched, Settled, Published
  <2> QED
    BY <1>3, <1>4, <2>3, <2>4 DEF JobConsistent
<1>10. RunConsistent(id)'
  <2>1. exit'[id] = None /\ ~(id > runs') /\ disk'[id].state # "COMPLETE"
    BY <1>0, <1>1, <1>2, <1>5, <1>6 DEF JobConsistent, AutoType, RunId
  <2>2. pushed'[id] > 0 => child'[id].publish
    BY <1>0, <1>1 DEF RunConsistent, AutoType
  <2> QED
    BY <2>1, <2>2 DEF RunConsistent, ExitTrue
<1> QED
  BY <1>1, <1>4, <1>7, <1>8, <1>9, <1>10, OwnStep

\* A command that meets an error.
LEMMA FailStep ==
  ASSUME AutoInv, NEW p \in Proc, NEW id \in RunId, id = job[p].id,
         NEW label \in {"acquire", "unlink", "work"}, At(p, label),
         Fail(p), job[p].run.state \in Underway, Quiet(id),
         holder' \in Proc \cup {None}, evicted' \in Nat,
         UNCHANGED <<child, paid, pushed, runs, crashes>>
  PROVE  AutoInv'
<1>0. AutoType
  BY DEF AutoInv
<1>1. /\ Live(p) /\ job[p].pc = label /\ job[p] \in JobType /\ id \in RunId
      /\ job[p].run \in RecordType /\ JobConsistent(p) /\ RunConsistent(id)
  BY AtLabel
<1>2. job' = [job EXCEPT ![p].pc = "failed"] /\ UNCHANGED <<disk, exit, threw>>
  BY DEF Fail
<1>3. /\ job' \in [Proc -> JobType \cup {None}] /\ \A q \in Proc \ {p} : job'[q] = job[q]
      /\ job'[p].id = id /\ job'[p].run = job[p].run /\ job'[p].pc = "failed"
  BY <1>0, <1>1, <1>2, JobEffect DEF Labels
<1>4. AutoType'
  BY <1>0, <1>2, <1>3 DEF AutoType
<1>5. \A r \in RunId : Kept(r)
  BY <1>2 DEF Kept
<1>6. JobConsistent(p)'
  BY <1>1, <1>2, <1>3 DEF JobConsistent, Caught, Quiet
<1>7. RunConsistent(id)'
  BY <1>1, <1>2 DEF RunConsistent, Untouched, Quiet, Settled, Published, ExitTrue
<1> QED
  BY <1>1, <1>3, <1>4, <1>5, <1>6, <1>7, OwnStep

\* A command that is over, with its counters true, if its last save succeeds.
LEMMA EndStep ==
  ASSUME AutoInv, NEW p \in Proc, NEW id \in RunId, id = job[p].id, At(p, "work"),
         NEW rec \in RecordType, End(p, rec),
         rec.state = "COMPLETE", Settled(id, rec),
         UNCHANGED <<holder, child, paid, pushed, evicted, runs, crashes>>
  PROVE  AutoInv'
<1>0. AutoType
  BY DEF AutoInv
<1>1. /\ Live(p) /\ job[p].pc = "work" /\ job[p] \in JobType /\ id \in RunId
      /\ JobConsistent(p) /\ RunConsistent(id)
  BY AtLabel
<1>2. PICK label \in {"release", "failed"} :
        /\ job' = [job EXCEPT ![p].run = rec, ![p].pc = label]
        /\ label = "release" => Saved(id, rec) /\ exit' = [exit EXCEPT ![id] = 0]
        /\ label = "failed" => SaveThrows(id, rec) /\ exit' = exit
  BY DEF End
<1>3. /\ job' \in [Proc -> JobType \cup {None}] /\ \A q \in Proc \ {p} : job'[q] = job[q]
      /\ job'[p].id = id /\ job'[p].run = rec /\ job'[p].pc = label
  BY <1>0, <1>1, <1>2, JobEffect DEF Labels
<1>4. /\ disk' \in [RunId -> RecordType \cup {None}] /\ threw' \in [RunId -> Nat]
      /\ \A r \in RunId \ {id} : disk'[r] = disk[r] /\ threw'[r] = threw[r]
      /\ disk'[id] \in {disk[id], rec}
      /\ label = "release" => disk'[id] = rec /\ threw' = threw
      /\ label = "failed" => threw'[id] > 0
  BY <1>0, <1>1, <1>2, SaveEffect
<1>5. /\ exit' \in [RunId -> {0, 1, 2, None}] /\ \A r \in RunId \ {id} : exit'[r] = exit[r]
      /\ exit'[id] = IF label = "release" THEN 0 ELSE None
  BY <1>0, <1>1, <1>2 DEF AutoType, JobConsistent
<1>6. AutoType'
  BY <1>0, <1>3, <1>4, <1>5 DEF AutoType
<1>7. \A r \in RunId \ {id} : Kept(r)
  BY <1>4, <1>5 DEF Kept
<1>8. disk[id].state # "COMPLETE" /\ threw[id] = 0 /\ ~(id > runs) /\ id <= runs
  BY <1>0, <1>1 DEF JobConsistent, AutoType, RunId
<1>9. JobConsistent(p)'
  BY <1>2, <1>3, <1>4, <1>5, <1>8 DEF JobConsistent, Caught, Settled, Quiet, Published
<1>10. RunConsistent(id)'
  BY <1>1, <1>2, <1>4, <1>5, <1>8 DEF RunConsistent, Settled, Quiet, Published, ExitTrue
<1> QED
  BY <1>1, <1>3, <1>6, <1>7, <1>9, <1>10, OwnStep

\* The catch of withLock.
LEMMA CatchStep ==
  ASSUME AutoInv, NEW p \in Proc, NEW id \in RunId, id = job[p].id, Catch(p)
  PROVE  AutoInv'
<1>0. AutoType
  BY DEF AutoInv
<1>1. /\ Live(p) /\ job[p].pc = "failed" /\ job[p] \in JobType /\ id \in RunId
      /\ job[p].run \in RecordType /\ JobConsistent(p) /\ RunConsistent(id)
  BY AtLabel DEF Catch
<1>2. Caught(id, job[p].run) /\ id <= runs /\ ~(id > runs)
  BY <1>0, <1>1 DEF JobConsistent, AutoType, RunId
<1>3. PICK rec \in RecordType :
        /\ rec = Stopped(job[p].run) /\ rec.finished
        /\ job[p].run.state \in Underway => rec.state = "SAFE_STOP"
        /\ job[p].run.state = "COMPLETE" => rec = job[p].run
  <2>1. job[p].run.state \in Underway \cup {"COMPLETE"}
    BY <1>2 DEF Caught
  <2>2. job[p].run.state = "COMPLETE" => job[p].run.finished
    BY <1>2 DEF Caught, Settled, Underway, Following
  <2>3. /\ Stopped(job[p].run) \in RecordType /\ Stopped(job[p].run).finished
        /\ job[p].run.state \in Underway => Stopped(job[p].run).state = "SAFE_STOP"
        /\ job[p].run.state = "COMPLETE" /\ job[p].run.finished => Stopped(job[p].run) = job[p].run
    BY <1>1, <2>1, StoppedRecord
  <2> QED
    BY <2>2, <2>3
<1>4. /\ Saved(id, rec) \/ SaveThrows(id, rec)
      /\ exit' = [exit EXCEPT ![id] = 2]
      /\ job' = [job EXCEPT ![p].pc = "release"]
      /\ UNCHANGED <<holder, child, paid, pushed, evicted, runs, crashes>>
  BY <1>3 DEF Catch
<1>5. /\ job' \in [Proc -> JobType \cup {None}] /\ \A q \in Proc \ {p} : job'[q] = job[q]
      /\ job'[p].id = id /\ job'[p].pc = "release"
  BY <1>0, <1>1, <1>4, JobEffect DEF Labels
<1>6. /\ disk' \in [RunId -> RecordType \cup {None}] /\ threw' \in [RunId -> Nat]
      /\ \A r \in RunId \ {id} : disk'[r] = disk[r] /\ threw'[r] = threw[r]
      /\ \/ disk'[id] = rec /\ threw' = threw
         \/ disk'[id] \in {disk[id], rec} /\ threw'[id] > 0
  BY <1>0, <1>1, <1>3, <1>4, SaveEffect
<1>7. /\ exit' \in [RunId -> {0, 1, 2, None}] /\ \A r \in RunId \ {id} : exit'[r] = exit[r]
      /\ exit'[id] = 2
  BY <1>0, <1>1, <1>4 DEF AutoType
<1>8. AutoType'
  BY <1>0, <1>4, <1>5, <1>6, <1>7 DEF AutoType
<1>9. \A r \in RunId \ {id} : Kept(r)
  BY <1>4, <1>6, <1>7 DEF Kept
<1>10. JobConsistent(p)'
  BY <1>2, <1>4, <1>5 DEF JobConsistent, Caught, Quiet
<1>11. RunConsistent(id)'
  <2>1. disk'[id] # None /\ disk'[id].state = "COMPLETE" => Settled(id, disk[id])'
    <3>1. CASE disk'[id] = disk[id]
      BY <1>1, <1>4, <3>1 DEF RunConsistent, Settled, Quiet, Published
    <3>2. CASE disk'[id] = rec
      BY <1>2, <1>3, <1>4, <3>2 DEF Caught, Settled, Quiet, Published
    <3> QED
      BY <1>6, <3>1, <3>2
  <2>2. ExitTrue(id)'
    <3>1. CASE threw'[id] > 0
      BY <1>7, <3>1 DEF ExitTrue
    <3>2. CASE disk'[id] = rec /\ threw' = threw
      BY <1>2, <1>3, <1>7, <3>2 DEF Caught, ExitTrue
    <3> QED
      BY <1>6, <3>1, <3>2
  <2>3. (pushed'[id] > 0 => child'[id].publish) /\ Quiet(id)' /\ ~(id > runs')
    BY <1>1, <1>2, <1>4 DEF RunConsistent, Caught, Quiet
  <2> QED
    BY <2>1, <2>2, <2>3 DEF RunConsistent
<1> QED
  BY <1>1, <1>4, <1>5, <1>8, <1>9, <1>10, <1>11, OwnStep

\* A new run, or the first save of one that throws.
LEMMA CreateStep ==
  ASSUME AutoInv, NEW p \in Proc, NEW o \in Orders, CreateRun(p, o) \/ CreateFails(p, o)
  PROVE  AutoInv'
<1>0. AutoType /\ JobsConsistent /\ OneControllerPerRun /\ RunsConsistent
  BY DEF AutoInv
<1>1. PICK id \in RunId : id = runs + 1 /\ id > runs /\ runs' = id /\ runs \in Nat
  BY <1>0, AutopilotConstants DEF CreateRun, CreateFails, AutoType, RunId
<1>2. o \in [command : Command, unlocked : BOOLEAN, publish : BOOLEAN]
  BY AutopilotConstants DEF Order
<1>3. PICK rec \in RecordType :
        /\ rec = NewRecord(o.command)
        /\ rec.state = "BOOT" /\ rec.model_calls = 0 /\ rec.github_writes = 0
  <2>1. NewRecord(o.command) \in RecordType
    BY <1>2 DEF NewRecord, RecordType, RunState
  <2>2. /\ NewRecord(o.command).state = "BOOT" /\ NewRecord(o.command).model_calls = 0
        /\ NewRecord(o.command).github_writes = 0
    BY DEF NewRecord
  <2> QED
    BY <2>1, <2>2
<1>4. PICK new \in JobType :
        /\ new = [pc |-> "acquire", id |-> id, run |-> rec,
                  unlocked |-> o.unlocked, publish |-> o.publish]
        /\ new.pc = "acquire" /\ new.id = id /\ new.run = rec
  <2> DEFINE made == [pc |-> "acquire", id |-> id, run |-> rec,
                      unlocked |-> o.unlocked, publish |-> o.publish]
  <2>1. made \in JobType /\ made.pc = "acquire" /\ made.id = id /\ made.run = rec
    BY <1>2 DEF JobType
  <2> QED
    BY <2>1
<1>5. /\ UNCHANGED <<holder, child, paid, pushed, evicted, crashes>>
      /\ job[p] = None
      /\ \/ Saved(id, rec) /\ job' = [job EXCEPT ![p] = new] /\ exit' = exit
         \/ SaveThrows(id, rec) /\ job' = job /\ exit' = [exit EXCEPT ![id] = 1]
  BY <1>1, <1>3, <1>4 DEF CreateRun, CreateFails
<1>6. /\ disk' \in [RunId -> RecordType \cup {None}] /\ threw' \in [RunId -> Nat]
      /\ \A r \in RunId \ {id} : disk'[r] = disk[r] /\ threw'[r] = threw[r]
      /\ disk'[id] \in {disk[id], rec}
      /\ Saved(id, rec) => disk'[id] = rec /\ threw' = threw
      /\ SaveThrows(id, rec) => threw'[id] > 0
  BY <1>0, <1>1, <1>3, <1>5, SaveEffect
<1>7. /\ job' \in [Proc -> JobType \cup {None}] /\ \A q \in Proc \ {p} : job'[q] = job[q]
      /\ job'[p] = None \/ (job'[p] = new /\ exit' = exit /\ Saved(id, rec))
      /\ exit' \in [RunId -> {0, 1, 2, None}] /\ \A r \in RunId \ {id} : exit'[r] = exit[r]
      /\ exit'[id] = exit[id] \/ (exit'[id] = 1 /\ SaveThrows(id, rec))
  BY <1>0, <1>1, <1>4, <1>5 DEF AutoType
<1>8. Untouched(id) /\ exit[id] = None /\ threw[id] = 0 /\ ~(pushed[id] > 0)
      /\ (disk[id] # None => disk[id].state # "COMPLETE" \/ Settled(id, disk[id]))
  BY <1>0, <1>1 DEF RunsConsistent, RunConsistent, Untouched
<1>9. \A q \in Proc \ {p} : /\ Live(q)' <=> Live(q)
                            /\ Live(q) => job[q].id \in RunId /\ job[q].id <= runs /\ job[q].id # id
  BY <1>0, <1>1, <1>7 DEF Live, AutoType, JobType, JobsConsistent, JobConsistent, RunId
<1>10. \A r \in RunId \ {id} : Kept(r)
  BY <1>5, <1>6, <1>7 DEF Kept
<1>11. AutoType'
  BY <1>0, <1>1, <1>5, <1>6, <1>7 DEF AutoType, RunId
<1>12. JobsConsistent'
  <2> SUFFICES ASSUME NEW q \in Proc, Live(q)' PROVE JobConsistent(q)'
    BY DEF JobsConsistent
  <2>1. CASE q = p
    <3>1. job'[p] = new /\ exit'[id] = None /\ threw'[id] = 0 /\ disk'[id] = rec
      BY <1>6, <1>7, <1>8, <2>1 DEF Live
    <3>2. Untouched(id)' /\ id <= runs'
      BY <1>1, <1>5, <1>8 DEF Untouched, RunId
    <3> QED
      BY <1>3, <1>4, <2>1, <3>1, <3>2 DEF JobConsistent, Untouched
  <2>2. CASE q # p
    <3>1. /\ Live(q) /\ job'[q] = job[q] /\ job[q].id \in RunId \ {id} /\ Kept(job[q].id)
          /\ job[q].id <= runs'
      BY <1>1, <1>7, <1>9, <1>10, <2>2 DEF RunId
    <3>2. JobConsistent(q)
      BY <1>0, <3>1 DEF JobsConsistent
    <3> QED
      BY <3>1, <3>2 DEF JobConsistent, Kept, Untouched, Quiet, Progress, Caught, Settled, Published
  <2> QED
    BY <2>1, <2>2
<1>13. OneControllerPerRun'
  <2>1. Live(p)' => job'[p].id = id
    BY <1>4, <1>7 DEF Live
  <2> QED
    BY <1>0, <1>7, <1>9, <2>1 DEF OneControllerPerRun
<1>14. RunsConsistent'
  <2> SUFFICES ASSUME NEW r \in RunId PROVE RunConsistent(r)'
    BY DEF RunsConsistent
  <2>1. CASE r = id
    <3>1. disk'[id] # None /\ disk'[id].state = "COMPLETE" => Settled(id, disk[id])'
      BY <1>3, <1>5, <1>6, <1>8 DEF Settled, Quiet, Published
    <3>2. Untouched(id)' /\ Quiet(id)' /\ ~(pushed'[id] > 0)
      BY <1>5, <1>8 DEF Untouched, Quiet
    <3>3. ExitTrue(id)'
      BY <1>5, <1>6, <1>7, <1>8 DEF ExitTrue, Untouched
    <3> QED
      BY <1>1, <2>1, <3>1, <3>2, <3>3 DEF RunConsistent, RunId
  <2>2. CASE r # id
    <3>1. Kept(r) /\ RunConsistent(r) /\ (r > runs' => r > runs)
      BY <1>0, <1>1, <1>10, <2>2 DEF RunsConsistent, RunId
    <3> QED
      BY <3>1 DEF Kept, RunConsistent, Untouched, Quiet, Settled, Published, ExitTrue
  <2> QED
    BY <2>1, <2>2
<1> QED
  BY <1>11, <1>12, <1>13, <1>14 DEF AutoInv

\* A step that moves a job to another label, or out, and touches no run.
LEMMA LabelStep ==
  ASSUME AutoInv, NEW p \in Proc, NEW id \in RunId, id = job[p].id, Live(p),
         \A q \in Proc \ {p} : job'[q] = job[q],
         job' \in [Proc -> JobType \cup {None}],
         Live(p)' => job'[p].id = id /\ JobConsistent(p)',
         holder' \in Proc \cup {None}, evicted' \in Nat, crashes' \in Nat,
         UNCHANGED <<disk, child, paid, pushed, exit, threw, runs>>
  PROVE  AutoInv'
<1>1. AutoType' /\ RunConsistent(id)
  BY DEF AutoInv, AutoType, RunsConsistent, JobType, Live
<1>2. RunConsistent(id)'
  BY <1>1 DEF RunConsistent, Untouched, Quiet, Settled, Published, ExitTrue
<1>3. \A r \in RunId \ {id} : Kept(r)
  BY DEF Kept
<1> QED
  BY <1>1, <1>2, <1>3, OwnStep

\* The file of the lock stays well typed.
LEMMA UnlinkEffect ==
  ASSUME AutoType, NEW p \in Proc, Unlinked(p)
  PROVE  holder' \in Proc \cup {None} /\ evicted' \in Nat
BY DEF Unlinked, AutoType

\* A step that moves a job on at the lock.
LEMMA RelabelStep ==
  ASSUME AutoInv, NEW p \in Proc, NEW id \in RunId, id = job[p].id,
         NEW from \in {"acquire", "unlink", "release"}, At(p, from),
         NEW label \in {"acquire", "unlink", "work", "remove"}, from = "release" <=> label = "remove",
         job' = [job EXCEPT ![p].pc = label], holder' \in Proc \cup {None}, evicted' \in Nat,
         UNCHANGED <<disk, child, paid, pushed, exit, threw, runs, crashes>>
  PROVE  AutoInv'
<1>1. AutoType
  BY DEF AutoInv
<1>2. Live(p) /\ job[p].pc = from /\ job[p].run \in RecordType /\ JobConsistent(p)
  BY AtLabel
<1>3. /\ job' \in [Proc -> JobType \cup {None}] /\ \A q \in Proc \ {p} : job'[q] = job[q]
      /\ job'[p].id = id /\ job'[p].run = job[p].run /\ job'[p].pc = label
  BY <1>1, <1>2, JobEffect DEF Labels
<1>4. JobConsistent(p)'
  BY <1>2, <1>3 DEF JobConsistent, Untouched, Quiet, Progress, Following
<1> QED
  BY <1>1, <1>2, <1>3, <1>4, LabelStep DEF AutoType

\* The steps at the lock.
LEMMA LockStep ==
  ASSUME AutoInv, NEW p \in Proc, NEW id \in RunId, id = job[p].id,
         Acquire(p) \/ Look(p) \/ Unlink(p) \/ Refused(p) \/ Release(p) \/ Remove(p) \/ Crash(p)
  PROVE  AutoInv'
<1>0. AutoType
  BY DEF AutoInv
<1>2. CASE Acquire(p)
  <2>1. At(p, "acquire") /\ holder' = p /\ job' = [job EXCEPT ![p].pc = "work"]
        /\ UNCHANGED <<disk, child, paid, pushed, exit, threw, evicted, runs, crashes>>
    BY <1>2 DEF Acquire
  <2> QED
    BY <1>0, <2>1, RelabelStep DEF AutoType
<1>3. CASE Look(p)
  <2>1. At(p, "acquire") /\ job' = [job EXCEPT ![p].pc = "unlink"]
        /\ UNCHANGED <<disk, holder, child, paid, pushed, exit, threw, evicted, runs, crashes>>
    BY <1>3 DEF Look
  <2> QED
    BY <1>0, <2>1, RelabelStep DEF AutoType
<1>4. CASE Unlink(p) \/ Refused(p)
  <2>1. PICK from \in {"acquire", "unlink"} : At(p, from)
    BY <1>4 DEF Unlink, Refused
  <2>2. job[p].pc = from /\ JobConsistent(p)
    BY <2>1, AtLabel
  <2>3. job[p].run.state \in Underway /\ Quiet(id)
    BY <2>2 DEF JobConsistent, Untouched, Quiet, Underway, Following
  <2>4. /\ holder' \in Proc \cup {None} /\ evicted' \in Nat
        /\ UNCHANGED <<child, paid, pushed, runs, crashes>>
    BY <1>0, <1>4, UnlinkEffect DEF Unlink, Refused, AutoType
  <2>5. CASE Fail(p)
    BY <2>1, <2>3, <2>4, <2>5, FailStep
  <2>6. CASE ~Fail(p)
    <3>1. job' = [job EXCEPT ![p].pc = "acquire"] /\ UNCHANGED <<disk, exit, threw>>
      BY <1>4, <2>6 DEF Unlink, Refused
    <3> QED
      BY <2>1, <2>4, <3>1, RelabelStep
  <2> QED
    BY <2>5, <2>6
<1>5. CASE Release(p)
  <2>1. /\ Live(p) /\ At(p, "release")
        /\ UNCHANGED <<disk, holder, child, paid, pushed, exit, threw, evicted, runs, crashes>>
        /\ job' = [job EXCEPT ![p].pc = "remove"] \/ job' = [job EXCEPT ![p] = None]
    BY <1>5, AtLabel DEF Release
  <2>2. CASE job' = [job EXCEPT ![p].pc = "remove"]
    BY <1>0, <2>1, <2>2, RelabelStep DEF AutoType
  <2>3. CASE job' = [job EXCEPT ![p] = None]
    <3>1. /\ job' \in [Proc -> JobType \cup {None}] /\ ~Live(p)'
          /\ \A q \in Proc \ {p} : job'[q] = job[q]
      BY <1>0, <2>3 DEF AutoType, Live
    <3> QED
      BY <1>0, <2>1, <3>1, LabelStep DEF AutoType
  <2> QED
    BY <2>1, <2>2, <2>3
<1>6. CASE Remove(p)
  <2>1. /\ Live(p) /\ UNCHANGED <<disk, child, paid, pushed, exit, threw, runs, crashes>>
        /\ job' = [job EXCEPT ![p] = None]
        /\ holder' \in Proc \cup {None} /\ evicted' \in Nat
    BY <1>0, <1>6, AtLabel, UnlinkEffect DEF Remove
  <2>2. /\ job' \in [Proc -> JobType \cup {None}] /\ ~Live(p)'
          /\ \A q \in Proc \ {p} : job'[q] = job[q]
    BY <1>0, <2>1 DEF AutoType, Live
  <2> QED
    BY <1>0, <2>1, <2>2, LabelStep DEF AutoType
<1>7. CASE Crash(p)
  <2>1. Dead \in JobType /\ Dead.pc = "dead"
    BY AutopilotConstants DEF Dead, JobType, RecordType, NewRecord, RunId, Command, RunState
  <2>2. /\ Live(p) /\ UNCHANGED <<disk, holder, child, paid, pushed, exit, threw, evicted, runs>>
        /\ job' = [job EXCEPT ![p] = Dead] /\ crashes' = crashes + 1
    BY <1>7 DEF Crash, Live, At
  <2>3. /\ job' \in [Proc -> JobType \cup {None}] /\ ~Live(p)'
          /\ \A q \in Proc \ {p} : job'[q] = job[q]
    BY <1>0, <2>1, <2>2 DEF AutoType, Live
  <2> QED
    BY <1>0, <2>2, <2>3, LabelStep DEF AutoType
<1> QED
  BY <1>2, <1>3, <1>4, <1>5, <1>6, <1>7

\* The steps before the child is started.
LEMMA PlanningStep ==
  ASSUME AutoInv, NEW p \in Proc, NEW id \in RunId, id = job[p].id,
         Build(p) \/ BuildFails(p) \/ PlanReady(p) \/ Locked(p)
  PROVE  AutoInv'
<1>0. AutoType
  BY DEF AutoInv
<1>1. /\ At(p, "work") /\ Live(p) /\ job[p].pc = "work" /\ job[p] \in JobType /\ id \in RunId
      /\ job[p].run \in RecordType /\ JobConsistent(p) /\ RunConsistent(id)
      /\ UNCHANGED <<holder, child, paid, pushed, evicted, runs, crashes>>
      /\ job[p].run.state \in DOMAIN Following \cup {"QUEUE"}
  BY AtLabel DEF Build, BuildFails, PlanReady, Locked
<1>2. /\ Untouched(id) /\ Quiet(id) /\ job[p].run.model_calls = 0 /\ job[p].run.github_writes = 0
      /\ job[p].run.state \in Underway
  BY <1>1 DEF JobConsistent, Progress, Following, Untouched, Quiet, Underway
<1>3. CASE Build(p)
  <2> DEFINE next == [job[p].run EXCEPT !.state = Following[job[p].run.state]]
  <2>1. job[p].run.state \in DOMAIN Following
    BY <1>3 DEF Build
  <2>2. /\ Following[job[p].run.state] \in RunState /\ Following[job[p].run.state] \in Underway
        /\ Following[job[p].run.state] \in DOMAIN Following \cup {"QUEUE"}
    BY <2>1 DEF Following, RunState, Underway
  <2>3. /\ next \in RecordType /\ next.state = Following[job[p].run.state]
        /\ next.github_writes = 0 /\ next.model_calls = 0
    BY <1>1, <1>2, <2>2 DEF RecordType
  <2>4. \/ job' = [job EXCEPT ![p].run = next] /\ UNCHANGED <<disk, exit, threw>>
        \/ Continue(p, next)
    <3>1. CASE job[p].run.command = "dry-run" /\ job[p].run.state # "BOOT"
      BY <1>1, <1>3, <3>1 DEF Build
    <3>2. CASE ~(job[p].run.command = "dry-run" /\ job[p].run.state # "BOOT")
      BY <1>3, <3>2 DEF Build
    <3> QED
      BY <3>1, <3>2
  <2> HIDE DEF next
  <2>5. PICK rec \in RecordType : rec = next
    BY <2>3
  <2>6. Progress(id, rec)' /\ rec.github_writes = 0 /\ rec.state \in Underway
    <3>1. Untouched(id)'
      BY <1>1, <1>2 DEF Untouched
    <3> QED
      BY <2>2, <2>3, <2>5, <3>1 DEF Progress
  <2>7. CASE job' = [job EXCEPT ![p].run = next] /\ UNCHANGED <<disk, exit, threw>>
    <3>1. /\ job' \in [Proc -> JobType \cup {None}] /\ \A q \in Proc \ {p} : job'[q] = job[q]
          /\ job'[p].id = id /\ job'[p].run = rec /\ job'[p].pc = "work"
      BY <1>0, <1>1, <2>5, <2>7, JobEffect DEF Labels
    <3>2. JobConsistent(p)'
      BY <1>1, <1>2, <2>2, <2>3, <2>5, <2>7, <3>1 DEF JobConsistent, Progress, Untouched
    <3> QED
      BY <1>0, <1>1, <2>7, <3>1, <3>2, LabelStep DEF AutoType
  <2>8. CASE Continue(p, next)
    BY <1>0, <1>1, <1>2, <2>5, <2>6, <2>8, ContinueStep DEF AutoType
  <2> QED
    BY <2>4, <2>7, <2>8
<1>4. CASE Fail(p)
  BY <1>0, <1>1, <1>2, <1>4, FailStep DEF AutoType
<1>5. CASE PlanReady(p) /\ ~Fail(p)
  <2> DEFINE path == <<"COMPLETE">>
             done == [job[p].run EXCEPT !.state = path[Len(path)], !.finished = TRUE]
  <2>1. End(p, done) /\ job[p].run.command # "repair"
    BY <1>5 DEF PlanReady, EndAt
  <2>2. path[Len(path)] = "COMPLETE"
    OBVIOUS
  <2> HIDE DEF path
  <2>3. /\ done \in RecordType /\ done.state = "COMPLETE" /\ done.model_calls = 0 /\ done.finished
        /\ done.github_writes = 0 /\ done.command = job[p].run.command
    BY <1>1, <1>2, <2>2 DEF RecordType, RunState
  <2> HIDE DEF done
  <2>4. PICK rec \in RecordType : rec = done
    BY <2>3
  <2>5. End(p, rec) /\ rec.state = "COMPLETE" /\ Settled(id, rec)
    BY <1>2, <2>1, <2>3, <2>4 DEF Settled, Untouched
  <2> QED
    BY <1>1, <2>5, EndStep
<1> QED
  BY <1>3, <1>4, <1>5 DEF BuildFails, PlanReady, Locked, EndAt

\* The record a review starts from.
LEMMA CountedRecord ==
  ASSUME NEW rec \in RecordType, NEW id, paid[id] \in Nat
  PROVE  /\ Counted(rec, id) \in RecordType
         /\ Counted(rec, id).state = "REVIEW"
         /\ Counted(rec, id).command = rec.command
         /\ Counted(rec, id).model_calls = rec.model_calls + paid[id]
         /\ Counted(rec, id).github_writes = rec.github_writes
<1>1. rec.model_calls + paid[id] \in Nat
  BY DEF RecordType
<1>2. PICK n \in Nat : n = rec.model_calls + paid[id]
  BY <1>1
<1>3. Counted(rec, id) = [rec EXCEPT !.state = "REVIEW", !.model_calls = n]
  BY <1>2 DEF Counted
<1>4. /\ [rec EXCEPT !.state = "REVIEW", !.model_calls = n] \in RecordType
      /\ [rec EXCEPT !.state = "REVIEW", !.model_calls = n].state = "REVIEW"
      /\ [rec EXCEPT !.state = "REVIEW", !.model_calls = n].command = rec.command
      /\ [rec EXCEPT !.state = "REVIEW", !.model_calls = n].model_calls = n
      /\ [rec EXCEPT !.state = "REVIEW", !.model_calls = n].github_writes = rec.github_writes
  BY DEF RecordType, RunState
<1> QED
  BY <1>2, <1>3, <1>4, Zenon

\* The steps of a repair, from its start to its conclusion.
LEMMA RepairStep ==
  ASSUME AutoInv, NEW p \in Proc, NEW id \in RunId, id = job[p].id,
         StartRepair(p) \/ ChildFailed(p) \/ StartReview(p) \/ Conclude(p)
  PROVE  AutoInv'
<1>0. AutoType /\ RunsConsistent
  BY DEF AutoInv
<1>1. /\ At(p, "work") /\ Live(p) /\ job[p].pc = "work" /\ job[p] \in JobType /\ id \in RunId
      /\ JobConsistent(p) /\ job[p].run \in RecordType /\ RunConsistent(id)
      /\ UNCHANGED <<holder, paid, pushed, evicted, runs, crashes>>
  BY AtLabel DEF StartRepair, ChildFailed, StartReview, Conclude
<1>2. /\ child[id] \in ChildType /\ paid[id] \in Nat /\ pushed[id] \in Nat
      /\ Progress(id, job[p].run) /\ job[p].run.github_writes = 0
  BY <1>0, <1>1 DEF AutoType, JobConsistent
<1>3. CASE StartRepair(p)
  <2> DEFINE next == [job[p].run EXCEPT !.state = "EXECUTE"]
             begun == [child[id] EXCEPT !.at = "repair", !.publish = job[p].publish]
  <2>1. /\ job[p].run.state = "QUEUE" /\ job[p].run.command = "repair" /\ Continue(p, next)
    BY <1>3 DEF StartRepair
  <2>2. Untouched(id) /\ Quiet(id) /\ job[p].run.model_calls = 0
    BY <1>2, <2>1 DEF Progress, Untouched, Quiet
  <2>3. /\ next \in RecordType /\ next.state = "EXECUTE" /\ next.command = "repair"
        /\ next.model_calls = 0 /\ next.github_writes = 0
    BY <1>1, <1>2, <2>1, <2>2 DEF RecordType, RunState
  <2>4. child' = IF At(p, "failed")' THEN child ELSE [child EXCEPT ![id] = begun]
    BY <1>3 DEF StartRepair
  <2>5. begun \in ChildType /\ begun.at = "repair"
    BY <1>1, <1>2 DEF ChildType, JobType
  <2> HIDE DEF begun, next
  <2>6. /\ child' \in [RunId -> ChildType] /\ (~At(p, "failed")' => child'[id].at = "repair")
        /\ \A r \in RunId \ {id} : child'[r] = child[r]
    BY <1>0, <1>1, <2>4, <2>5 DEF AutoType
  <2>7. PICK rec \in RecordType : rec = next
    BY <2>3
  <2>8. ~At(p, "failed")' => Progress(id, rec)'
    BY <1>1, <2>2, <2>3, <2>6, <2>7 DEF Progress, Untouched
  <2>9. /\ rec.state \in Underway /\ rec.github_writes = 0 /\ Continue(p, rec) /\ pushed[id] = 0
        /\ At(p, "failed")' => child' = child
    BY <2>1, <2>2, <2>3, <2>4, <2>7 DEF Underway, Untouched
  <2> QED
    BY <1>1, <2>2, <2>6, <2>8, <2>9, ContinueStep
<1>4. CASE (ChildFailed(p) \/ Conclude(p)) /\ Fail(p)
  <2>1. child[id].at = "ended" /\ UNCHANGED child
    BY <1>4 DEF ChildFailed, Conclude
  <2>2. job[p].run.state \in {"EXECUTE", "REVIEW"}
    BY <1>2, <2>1 DEF Progress, Untouched
  <2>3. job[p].run.state \in Underway /\ Quiet(id)
    BY <2>1, <2>2 DEF Quiet, Underway
  <2> QED
    BY <1>0, <1>1, <1>4, <2>1, <2>3, FailStep DEF AutoType
<1>5. CASE StartReview(p)
  <2> DEFINE next == Counted(job[p].run, id)
             begun == [child[id] EXCEPT !.at = "review", !.passed = FALSE]
  <2>1. /\ job[p].run.state = "EXECUTE" /\ Continue(p, next) /\ child[id].at = "ended"
    BY <1>5 DEF StartReview
  <2>2. job[p].run.command = "repair" /\ job[p].run.model_calls = 0
    BY <1>2, <2>1 DEF Progress, Following
  <2>3. /\ next \in RecordType /\ next.state = "REVIEW" /\ next.command = "repair"
        /\ next.model_calls = paid[id] /\ next.github_writes = 0
    BY <1>1, <1>2, <2>2, CountedRecord
  <2>4. child' = IF At(p, "failed")' THEN child ELSE [child EXCEPT ![id] = begun]
    BY <1>5 DEF StartReview
  <2>5. begun \in ChildType /\ begun.at = "review" /\ begun.publish = child[id].publish
    BY <1>2 DEF ChildType
  <2> HIDE DEF begun, next
  <2>6. /\ child' \in [RunId -> ChildType] /\ (~At(p, "failed")' => child'[id].at = "review")
        /\ child'[id].publish = child[id].publish
        /\ \A r \in RunId \ {id} : child'[r] = child[r]
    BY <1>0, <1>1, <2>4, <2>5 DEF AutoType
  <2>7. PICK rec \in RecordType : rec = next
    BY <2>3
  <2>8. ~At(p, "failed")' => Progress(id, rec)'
    BY <1>1, <2>3, <2>6, <2>7 DEF Progress
  <2>9. /\ rec.state \in Underway /\ rec.github_writes = 0 /\ Continue(p, rec) /\ Quiet(id)
        /\ At(p, "failed")' => child' = child
    BY <2>1, <2>3, <2>4, <2>7 DEF Underway, Quiet
  <2> QED
    BY <1>1, <2>6, <2>8, <2>9, ContinueStep
<1>6. CASE Conclude(p) /\ ~Fail(p)
  <2> DEFINE counted == [job[p].run EXCEPT !.github_writes = @ + pushed[id]]
             path == IF Published(id)
                     THEN <<"COMMIT", "PUBLISH", "UPDATE_CONTROL", "CHECK_NEXT_WORK", "COMPLETE">>
                     ELSE <<"COMPLETE">>
             done == [counted EXCEPT !.state = path[Len(path)], !.finished = TRUE]
  <2>1. /\ job[p].run.state = "REVIEW" /\ child[id].at = "ended" /\ UNCHANGED child
    BY <1>6 DEF Conclude
  <2>2. EndAt(p, path, counted)
    BY <1>6 DEF Conclude
  <2>3. job[p].run.command = "repair" /\ job[p].run.model_calls = paid[id]
    BY <1>2, <2>1 DEF Progress, Following
  <2>4. path[Len(path)] = "COMPLETE"
    OBVIOUS
  <2>5. counted.state = "REVIEW"
    BY <1>1, <2>1 DEF RecordType
  <2>6. End(p, done) /\ Legal(<<counted.state>> \o path)
    BY <1>6, <2>2 DEF EndAt
  <2>7. Published(id)
    BY <2>5, <2>6, ReviewNeedsDraft
  <2> HIDE DEF path
  <2>8. /\ counted \in RecordType /\ counted.command = "repair" /\ counted.model_calls = paid[id]
        /\ counted.github_writes = pushed[id]
    BY <1>1, <1>2, <2>3 DEF RecordType
  <2> HIDE DEF counted
  <2>9. /\ done \in RecordType /\ done.state = "COMPLETE" /\ done.command = "repair" /\ done.finished
        /\ done.model_calls = paid[id] /\ done.github_writes = pushed[id]
    BY <2>4, <2>8 DEF RecordType, RunState
  <2> HIDE DEF done
  <2>10. child[id].publish
    BY <1>1, <2>7 DEF RunConsistent, Published
  <2>11. PICK rec \in RecordType : rec = done
    BY <2>9
  <2>12. End(p, rec) /\ rec.state = "COMPLETE" /\ Settled(id, rec)
    BY <2>1, <2>6, <2>7, <2>9, <2>10, <2>11 DEF Settled, Quiet
  <2> QED
    BY <1>1, <2>1, <2>12, EndStep
<1> QED
  BY <1>3, <1>4, <1>5, <1>6 DEF ChildFailed, Conclude

\* A child's steps.
LEMMA ChildStep ==
  ASSUME AutoInv, NEW r \in RunId, ModelCall(r) \/ Publish(r) \/ ChildEnds(r)
  PROVE  AutoInv'
<1>0. AutoType /\ JobsConsistent /\ OneControllerPerRun /\ RunsConsistent
  BY DEF AutoInv
<1>1. /\ UNCHANGED <<disk, holder, job, exit, threw, evicted, runs, crashes>>
      /\ child[r].at \in {"repair", "review"}
  BY DEF ModelCall, MayCall, Publish, MayPublish, ChildEnds, RepairEnds, ReviewEnds
<1>2. /\ child' \in [RunId -> ChildType] /\ paid' \in [RunId -> Nat] /\ pushed' \in [RunId -> Nat]
      /\ \A s \in RunId \ {r} : child'[s] = child[s] /\ paid'[s] = paid[s] /\ pushed'[s] = pushed[s]
      /\ child'[r].publish = child[r].publish
      /\ child'[r].at \in {child[r].at, "ended"}
      /\ child[r].at = "repair" => pushed'[r] = pushed[r]
      /\ child[r].at = "review" => paid'[r] = paid[r]
      /\ pushed'[r] > pushed[r] => child[r].publish
  <2>1. CASE ModelCall(r)
    BY <1>0, <2>1 DEF ModelCall, MayCall, AutoType
  <2>2. CASE Publish(r)
    <3>1. /\ pushed' = [pushed EXCEPT ![r] = pushed[r] + 1] /\ UNCHANGED <<child, paid>>
          /\ child[r].at = "review"
      BY <2>2 DEF Publish, MayPublish
    <3>2. child[r].publish
      BY <2>2 DEF Publish, MayPublish
    <3>3. pushed' \in [RunId -> Nat] /\ \A s \in RunId \ {r} : pushed'[s] = pushed[s]
      BY <1>0, <3>1 DEF AutoType
    <3>4. child' = child /\ paid' = paid /\ child \in [RunId -> ChildType] /\ paid \in [RunId -> Nat]
      BY <1>0, <3>1 DEF AutoType
    <3> QED
      BY <3>1, <3>2, <3>3, <3>4
  <2>3. CASE ChildEnds(r)
    <3>1. PICK passed \in BOOLEAN : RepairEnds(r, passed) \/ ReviewEnds(r, passed)
      BY <2>3 DEF ChildEnds
    <3>2. UNCHANGED <<paid, pushed>>
      BY <3>1 DEF RepairEnds, ReviewEnds
    <3>3. child' = [child EXCEPT ![r] = [child[r] EXCEPT !.at = "ended", !.passed = passed]]
      BY <3>1 DEF RepairEnds, ReviewEnds
    <3>4. [child[r] EXCEPT !.at = "ended", !.passed = passed] \in ChildType
      BY <1>0 DEF AutoType, ChildType
    <3>5. /\ child' \in [RunId -> ChildType] /\ \A s \in RunId \ {r} : child'[s] = child[s]
          /\ child'[r].publish = child[r].publish /\ child'[r].at = "ended"
      BY <1>0, <3>3, <3>4 DEF AutoType, ChildType
    <3>6. /\ paid' = paid /\ pushed' = pushed
          /\ paid' \in [RunId -> Nat] /\ pushed' \in [RunId -> Nat] /\ ~(pushed'[r] > pushed[r])
      BY <1>0, <3>2 DEF AutoType
    <3> QED
      BY <3>5, <3>6
  <2> QED
    BY <2>1, <2>2, <2>3
<1>3. AutoType'
  BY <1>0, <1>1, <1>2 DEF AutoType
<1>4. JobsConsistent'
  <2> SUFFICES ASSUME NEW q \in Proc, Live(q)' PROVE JobConsistent(q)'
    BY DEF JobsConsistent
  <2>1. Live(q) /\ JobConsistent(q) /\ job[q].id \in RunId
    BY <1>0, <1>1 DEF JobsConsistent, Live, AutoType, JobType
  <2>2. CASE job[q].id = r
    <3>1. job[q].pc = "work" \/ job[q].pc \notin {"acquire", "unlink", "failed", "release", "remove"}
      BY <1>1, <2>1, <2>2 DEF JobConsistent, Untouched, Quiet, Caught
    <3> QED
      BY <1>1, <1>2, <2>1, <2>2, <3>1 DEF JobConsistent, Untouched, Progress
  <2>3. CASE job[q].id # r
    BY <1>1, <1>2, <2>1, <2>3 DEF JobConsistent, Untouched, Quiet, Progress, Caught, Settled, Published
  <2> QED
    BY <2>2, <2>3
<1>5. OneControllerPerRun'
  BY <1>0, <1>1 DEF OneControllerPerRun, Live
<1>6. RunsConsistent'
  <2> SUFFICES ASSUME NEW s \in RunId PROVE RunConsistent(s)'
    BY DEF RunsConsistent
  <2>1. RunConsistent(s)
    BY <1>0 DEF RunsConsistent
  <2>2. CASE s = r
    <3>1. pushed[r] \in Nat /\ pushed'[r] \in Nat
      BY <1>0, <1>2 DEF AutoType
    <3>2. exit[r] = None /\ ~(r > runs) /\ ~(disk[r] # None /\ disk[r].state = "COMPLETE")
      BY <1>1, <2>1, <2>2 DEF RunConsistent, Quiet, Untouched, Settled
    <3> QED
      BY <1>1, <1>2, <2>1, <2>2, <3>1, <3>2 DEF RunConsistent, ExitTrue
  <2>3. CASE s # r
    BY <1>1, <1>2, <2>1, <2>3 DEF RunConsistent, Untouched, Quiet, Settled, Published, ExitTrue
  <2> QED
    BY <2>2, <2>3
<1> QED
  BY <1>3, <1>4, <1>5, <1>6 DEF AutoInv

\* The first state satisfies the invariant.
LEMMA InitAutoInv == AutoInit => AutoInv
<1> SUFFICES ASSUME AutoInit PROVE AutoInv
  OBVIOUS
<1>1. AutoType
  BY AutopilotConstants DEF AutoInit, AutoType, ChildType
<1>2. JobsConsistent /\ OneControllerPerRun
  BY DEF AutoInit, JobsConsistent, OneControllerPerRun, Live
<1>3. RunsConsistent
  BY DEF AutoInit, RunsConsistent, RunConsistent, ExitTrue, Untouched, Quiet
<1> QED
  BY <1>1, <1>2, <1>3 DEF AutoInv

\* Every step keeps the invariant.
LEMMA NextAutoInv == AutoInv /\ [AutoNext]_autoVars => AutoInv'
<1> SUFFICES ASSUME AutoInv, [AutoNext]_autoVars PROVE AutoInv'
  OBVIOUS
<1>1. CASE UNCHANGED autoVars
  BY <1>1 DEF autoVars, AutoInv, AutoType, JobsConsistent, JobConsistent, OneControllerPerRun,
     RunsConsistent, RunConsistent, Live, Untouched, Quiet, Progress, Caught, Settled, Published, ExitTrue
<1>2. ASSUME NEW p \in Proc, Controller(p) \/ Crash(p) PROVE AutoInv'
  <2>1. Live(p)
    BY <1>2 DEF Live, At, Controller, Crash, Acquire, Look, Unlink, Refused, Build, BuildFails, PlanReady,
       Locked, StartRepair, ChildFailed, StartReview, Conclude, Catch, Release, Remove
  <2>2. PICK id \in RunId : id = job[p].id
    BY <2>1 DEF AutoInv, AutoType, JobType, Live
  <2> QED
    BY <1>2, <2>2, LockStep, PlanningStep, RepairStep, CatchStep DEF Controller
<1> QED
  BY <1>1, <1>2, CreateStep, ChildStep DEF AutoNext

\* The invariant holds in every reachable state.
LEMMA SpecAutoInv == AutoSpec => []AutoInv
BY InitAutoInv, NextAutoInv, PTL DEF AutoSpec

\* A run on record as COMPLETE did all its command asks, with every call and
\* write counted, whoever crashed meanwhile, whatever its children did and
\* whichever save threw.
THEOREM CompleteIsTrue == AutoSpec => []CompleteMeansDelivered
<1>1. AutoInv => CompleteMeansDelivered
  BY DEF AutoInv, RunsConsistent, RunConsistent, Settled, CompleteMeansDelivered
<1> QED
  BY <1>1, SpecAutoInv, PTL

\* A command that ended with an exit code has a finished record that says the
\* same, unless a save of it threw, and no later step rewrites it.
THEOREM ExitIsTrue == AutoSpec => []ExitTells
<1>1. AutoInv => ExitTells
  BY DEF AutoInv, RunsConsistent, RunConsistent, ExitTrue, ExitTells
<1> QED
  BY <1>1, SpecAutoInv, PTL
-----------------------------------------------------------------------------
(* Workers beside each other.                                              *)

\* Children whose controller died.
Orphans == {r \in Working : \A p \in Proc : Live(p) => job[p].id # r}
OrphansCounted == Cardinality(Orphans) <= crashes

\* Runs at work without the lock they once took.
Robbed == {r \in RunId : \E p \in Proc : Live(p) /\ job[p].pc = "work" /\ job[p].id = r /\ holder # p}
RobbedCounted == Cardinality(Robbed) <= evicted

\* Until a controller dies nobody takes a lock for stale, and who is about to
\* remove the file still owns it.
Peace ==
  crashes = 0 =>
    /\ evicted = 0
    /\ \A p \in Proc : job[p] # None =>
         job[p].pc \notin {"dead", "unlink"} /\ (job[p].pc = "remove" => holder = p)

\* There are finitely many runs, so their subsets can be counted.
LEMMA RunsFinite ==
  ASSUME NEW S \in SUBSET RunId
  PROVE  IsFiniteSet(S) /\ Cardinality(S) \in Nat
<1>1. IsFiniteSet(RunId)
  BY AutopilotConstants, FS_Interval DEF RunId
<1> QED
  BY <1>1, FS_Subset, FS_CardinalityType

\* One more member counts for one at most.
LEMMA AddOne ==
  ASSUME NEW S, IsFiniteSet(S), NEW x
  PROVE  /\ IsFiniteSet(S \cup {x})
         /\ Cardinality(S \cup {x}) \in Nat
         /\ Cardinality(S \cup {x}) <= Cardinality(S) + 1
<1>1. /\ IsFiniteSet(S \cup {x})
      /\ Cardinality(S \cup {x}) = IF x \in S THEN Cardinality(S) ELSE Cardinality(S) + 1
  BY FS_AddElement, Zenon
<1>2. Cardinality(S) \in Nat
  BY FS_CardinalityType
<1> QED
  BY <1>1, <1>2

\* A set of runs that grows by one at most stays within a bound that grows
\* with it.
LEMMA StillCounted ==
  ASSUME NEW S \in SUBSET RunId, NEW T \in SUBSET RunId, NEW n \in Nat, NEW m \in Nat,
         Cardinality(S) <= n, NEW x,
         (T \subseteq S /\ n <= m) \/ (T \subseteq S \cup {x} /\ m = n + 1)
  PROVE  Cardinality(T) <= m
<1>1. IsFiniteSet(S) /\ Cardinality(S) \in Nat /\ Cardinality(T) \in Nat
  BY RunsFinite
<1>2. CASE T \subseteq S /\ n <= m
  <2>1. Cardinality(T) <= Cardinality(S)
    BY <1>1, <1>2, FS_Subset
  <2> QED
    BY <1>1, <1>2, <2>1
<1>3. CASE T \subseteq S \cup {x} /\ m = n + 1
  <2>1. /\ IsFiniteSet(S \cup {x}) /\ Cardinality(S \cup {x}) <= Cardinality(S) + 1
        /\ Cardinality(S \cup {x}) \in Nat
    BY <1>1, AddOne
  <2>2. Cardinality(T) <= Cardinality(S \cup {x})
    BY <1>3, <2>1, FS_Subset
  <2> QED
    BY <1>1, <1>3, <2>1, <2>2
<1> QED
  BY <1>2, <1>3

\* A child that runs under a live controller is waited for.
LEMMA WorkerAtWork ==
  ASSUME AutoInv, NEW p \in Proc, Live(p), job[p].id \in Working
  PROVE  job[p].pc = "work"
<1>1. JobConsistent(p) /\ job[p] \in JobType
  BY DEF AutoInv, AutoType, JobsConsistent, Live
<1>2. ~Quiet(job[p].id) /\ ~Untouched(job[p].id)
  BY DEF Working, Quiet, Untouched
<1> QED
  BY <1>1, <1>2 DEF JobConsistent, Caught, JobType, Live

\* The steps of a controller that are not about the lock.
Routine(p) ==
  \/ Refused(p) \/ Build(p) \/ BuildFails(p) \/ PlanReady(p) \/ Locked(p) \/ StartRepair(p)
  \/ ChildFailed(p) \/ StartReview(p) \/ Conclude(p) \/ Catch(p)

\* They keep the lock, the other jobs and the run of their own.
LEMMA RoutineStep ==
  ASSUME AutoInv, NEW p \in Proc, Routine(p)
  PROVE  /\ Live(p) /\ UNCHANGED <<holder, evicted, crashes>>
         /\ \A q \in Proc \ {p} : job'[q] = job[q]
         /\ job'[p].id = job[p].id /\ job'[p].pc \in {"work", "failed", "release"}
         /\ job'[p].pc = "work" => job[p].pc = "work"
<1> DEFINE Moved == /\ \A q \in Proc \ {p} : job'[q] = job[q]
                    /\ job'[p].id = job[p].id /\ job'[p].pc \in {"work", "failed", "release"}
                    /\ job'[p].pc = "work" => job[p].pc = "work"
<1>0. AutoType
  BY DEF AutoInv
<1>1. /\ job[p] # None /\ job[p].pc \in {"acquire", "work", "failed"} /\ job[p] \in JobType
      /\ UNCHANGED <<holder, evicted, crashes>>
      /\ Catch(p) \/ job[p].pc # "failed"
      /\ Refused(p) \/ job[p].pc # "acquire"
  BY <1>0 DEF Routine, At, Refused, Build, BuildFails, PlanReady, Locked, StartRepair,
     ChildFailed, StartReview, Conclude, Catch, AutoType
<1>2. ASSUME NEW label \in {"failed", "release"}, job' = [job EXCEPT ![p].pc = label]
      PROVE  Moved
  BY <1>0, <1>1, <1>2 DEF AutoType, JobType
<1>3. ASSUME NEW rec, NEW label \in {"failed", "release"},
             job' = [job EXCEPT ![p].run = rec, ![p].pc = label]
      PROVE  Moved
  BY <1>0, <1>1, <1>3 DEF AutoType, JobType
<1>4. ASSUME NEW rec, job' = [job EXCEPT ![p].run = rec], job[p].pc = "work"
      PROVE  Moved
  BY <1>0, <1>1, <1>4 DEF AutoType, JobType
<1> HIDE DEF Moved
<1>5. Fail(p) => Moved
  BY <1>2 DEF Fail
<1>6. ASSUME NEW rec, Continue(p, rec), job[p].pc = "work" PROVE Moved
  BY <1>3, <1>4, <1>6 DEF Continue
<1>7. ASSUME NEW rec, End(p, rec) PROVE Moved
  BY <1>3, <1>7 DEF End
<1>8. ASSUME NEW path, NEW rec, EndAt(p, path, rec) PROVE Moved
  BY <1>5, <1>7, <1>8 DEF EndAt
<1>9. ASSUME Refused(p) \/ BuildFails(p) \/ Locked(p) \/ ChildFailed(p) PROVE Moved
  BY <1>5, <1>9 DEF Refused, BuildFails, Locked, ChildFailed
<1>10. ASSUME Build(p) PROVE Moved
  <2>1. job[p].pc = "work"
    BY <1>10 DEF Build, At
  <2>2. \/ job' = [job EXCEPT ![p].run.state = Following[job[p].run.state]]
        \/ Continue(p, [job[p].run EXCEPT !.state = Following[job[p].run.state]])
    BY <1>10 DEF Build
  <2>3. CASE job' = [job EXCEPT ![p].run.state = Following[job[p].run.state]]
    <3>1. job' = [job EXCEPT ![p].run = [job[p].run EXCEPT !.state = Following[job[p].run.state]]]
      BY <1>0, <1>1, <2>3 DEF AutoType
    <3> QED
      BY <1>4, <2>1, <3>1, Zenon
  <2> QED
    BY <1>6, <2>1, <2>2, <2>3, Zenon
<1>11. ASSUME PlanReady(p) PROVE Moved
  BY <1>8, <1>11 DEF PlanReady
<1>12. ASSUME StartRepair(p) PROVE Moved
  <2>1. Continue(p, [job[p].run EXCEPT !.state = "EXECUTE"]) /\ job[p].pc = "work"
    BY <1>12 DEF StartRepair, At
  <2> QED
    BY <1>6, <2>1, Zenon
<1>13. ASSUME StartReview(p) PROVE Moved
  <2>1. Continue(p, Counted(job[p].run, job[p].id)) /\ job[p].pc = "work"
    BY <1>13 DEF StartReview, At
  <2> QED
    BY <1>6, <2>1, Zenon
<1>14. ASSUME Conclude(p) PROVE Moved
  BY <1>8, <1>14, Zenon DEF Conclude
<1>15. ASSUME Catch(p) PROVE Moved
  BY <1>2, <1>15 DEF Catch
<1>16. Moved
  BY <1>9, <1>10, <1>11, <1>12, <1>13, <1>14, <1>15 DEF Routine
<1> QED
  BY <1>1, <1>16 DEF Moved, Live

\* The steps at the lock keep the other jobs and start nothing but Acquire's
\* own work.
LEMMA LockMoves ==
  ASSUME AutoInv, NEW p \in Proc, Acquire(p) \/ Look(p) \/ Unlink(p) \/ Release(p) \/ Remove(p)
  PROVE  /\ Live(p) /\ UNCHANGED <<child, crashes>>
         /\ \A q \in Proc \ {p} : job'[q] = job[q]
         /\ \/ job'[p] = None
            \/ /\ job'[p] # None /\ job'[p].id = job[p].id
               /\ \/ Acquire(p) /\ job'[p].pc = "work"
                  \/ Look(p) /\ job'[p].pc = "unlink"
                  \/ Unlink(p) /\ job'[p].pc \in {"acquire", "failed"}
                  \/ Release(p) /\ holder = p /\ job'[p].pc = "remove"
<1>0. AutoType
  BY DEF AutoInv
<1>1. /\ Live(p) /\ job[p] \in JobType /\ UNCHANGED <<child, crashes>>
  BY <1>0 DEF Acquire, Look, Unlink, Release, Remove, At, Live, AutoType
<1>2. PICK label \in {"work", "unlink", "acquire", "failed", "remove", "gone"} :
        /\ label = "gone" => job' = [job EXCEPT ![p] = None]
        /\ label # "gone" => job' = [job EXCEPT ![p].pc = label]
        /\ label = "work" => Acquire(p)
        /\ label = "unlink" => Look(p)
        /\ label \in {"acquire", "failed"} => Unlink(p)
        /\ label = "remove" => Release(p) /\ holder = p
  BY DEF Acquire, Look, Unlink, Release, Remove, Fail
<1>3. /\ \A q \in Proc \ {p} : job'[q] = job[q]
      /\ label = "gone" => job'[p] = None
  BY <1>0, <1>2 DEF AutoType
<1>4. label # "gone" => job'[p].id = job[p].id /\ job'[p].pc = label /\ job'[p] \in JobType
  BY <1>0, <1>1, <1>2 DEF AutoType, JobType
<1> QED
  BY <1>1, <1>2, <1>3, <1>4, NoneIsNoJob

\* A controller's step leaves the other controllers alone.
LEMMA OthersKept ==
  ASSUME AutoInv, NEW p \in Proc, Controller(p), NEW q \in Proc \ {p}
  PROVE  job'[q] = job[q] /\ crashes' = crashes
BY RoutineStep, LockMoves DEF Controller, Routine

\* A controller waits for its child.
LEMMA WaitsForChild ==
  ASSUME AutoInv, NEW p \in Proc, Live(p), job[p].id \in Working
  PROVE  ~Controller(p)
<1>1. /\ job[p].pc = "work" /\ JobConsistent(p) /\ child[job[p].id].at \in {"repair", "review"}
  BY WorkerAtWork DEF AutoInv, JobsConsistent, Working
<1>2. job[p].run.state \in {"EXECUTE", "REVIEW"}
  BY <1>1 DEF JobConsistent, Progress, Untouched
<1> QED
  BY <1>1, <1>2 DEF Controller, At, Acquire, Look, Unlink, Refused, Build, BuildFails, PlanReady,
     Locked, StartRepair, ChildFailed, StartReview, Conclude, Catch, Release, Remove, Following

\* A child is started, and goes on, under a live controller.
LEMMA ChildStarted ==
  ASSUME AutoInv, NEW p \in Proc, StartRepair(p) \/ StartReview(p), NEW r \in RunId
  PROVE  child'[r] = child[r] \/ (Live(p)' /\ job'[p].id = r)
<1>0. AutoType
  BY DEF AutoInv
<1>1. Live(p) /\ job[p] \in JobType /\ job[p].id \in RunId /\ job[p].pc = "work"
  BY AtLabel DEF StartRepair, StartReview
<1>2. CASE r # job[p].id
  BY <1>0, <1>1, <1>2 DEF StartRepair, StartReview, AutoType
<1>3. CASE r = job[p].id
  <2>1. job[p].run \in RecordType /\ paid[r] \in Nat
    BY <1>0, <1>1 DEF AutoType, JobType
  <2>2. \E rec \in RecordType : Continue(p, rec)
    <3>1. CASE StartRepair(p)
      <4>1. [job[p].run EXCEPT !.state = "EXECUTE"] \in RecordType
        BY <2>1 DEF RecordType, RunState
      <4> QED
        BY <3>1, <4>1, Zenon DEF StartRepair
    <3>2. CASE StartReview(p)
      <4>1. Counted(job[p].run, r) \in RecordType
        BY <2>1, CountedRecord
      <4> QED
        BY <1>3, <3>2, <4>1, Zenon DEF StartReview
    <3> QED
      BY <3>1, <3>2
  <2>3. PICK rec \in RecordType, label \in {"work", "failed"} :
          \/ job' = [job EXCEPT ![p].run = rec] /\ label = job[p].pc
          \/ job' = [job EXCEPT ![p].run = rec, ![p].pc = label]
    BY <1>1, <2>2 DEF Continue
  <2>4. Live(p)' /\ job'[p].id = job[p].id
    BY <1>0, <1>1, <2>3, JobEffect DEF Labels
  <2> QED
    BY <1>3, <2>4
<1> QED
  BY <1>2, <1>3

\* A step other than a crash orphans nobody.
LEMMA StepKeepsOrphans ==
  ASSUME AutoInv, AutoInv', [AutoNext]_autoVars, \A p \in Proc : ~Crash(p)
  PROVE  Orphans' \subseteq Orphans /\ crashes' = crashes
<1>0. AutoType /\ AutoType' /\ RunsConsistent
  BY DEF AutoInv
<1>1. crashes' = crashes
  <2>1. \A p \in Proc : Controller(p) => crashes' = crashes
    BY RoutineStep, LockMoves DEF Controller, Routine
  <2> QED
    BY <2>1 DEF AutoNext, CreateRun, CreateFails, ModelCall, Publish, ChildEnds, RepairEnds,
       ReviewEnds, autoVars
\* A live controller stays with its run while the run's child works.
<1>2. ASSUME NEW q \in Proc, Live(q), job[q].id \in Working
      PROVE  job'[q] = job[q]
  <2>1. ~Controller(q)
    BY <1>2, WaitsForChild
  <2>2. \A p \in Proc : Controller(p) => job'[q] = job[q]
    BY <2>1, OthersKept
  <2>3. CASE \E p \in Proc, o \in Orders : CreateRun(p, o) \/ CreateFails(p, o)
    BY <1>0, <1>2, <2>3 DEF CreateRun, CreateFails, Live, AutoType
  <2>4. CASE UNCHANGED autoVars \/ \E r \in RunId : ModelCall(r) \/ Publish(r) \/ ChildEnds(r)
    BY <2>4 DEF autoVars, ModelCall, Publish, ChildEnds, RepairEnds, ReviewEnds
  <2> QED
    BY <2>2, <2>3, <2>4 DEF AutoNext
<1>3. ASSUME NEW r \in Working'
      PROVE  r \in Working \/ \E p \in Proc : Live(p)' /\ job'[p].id = r
  <2>1. r \in RunId /\ child'[r].at \in {"repair", "review"}
    BY DEF Working
  <2>2. child'[r] = child[r] => r \in Working
    BY <2>1 DEF Working
  <2>3. CASE \E p \in Proc : StartRepair(p) \/ StartReview(p)
    BY <2>1, <2>2, <2>3, ChildStarted
  <2>4. CASE \E s \in RunId : ModelCall(s) \/ Publish(s) \/ ChildEnds(s)
    <3>1. PICK s \in RunId : ModelCall(s) \/ Publish(s) \/ ChildEnds(s)
      BY <2>4
    <3>2. child[s].at \in {"repair", "review"}
      BY <3>1 DEF ModelCall, MayCall, Publish, MayPublish, ChildEnds, RepairEnds, ReviewEnds
    <3>3. r # s => child'[r] = child[r]
      BY <1>0, <2>1, <3>1 DEF ModelCall, Publish, ChildEnds, RepairEnds, ReviewEnds, AutoType
    <3> QED
      BY <2>2, <3>2, <3>3 DEF Working
  <2>5. CASE child' = child
    BY <2>2, <2>5
  <2> QED
    BY <2>3, <2>4, <2>5 DEF AutoNext, Controller, CreateRun, CreateFails, Acquire, Look, Unlink,
       Refused, Build, BuildFails, PlanReady, Locked, ChildFailed, Conclude, Catch, Release, Remove,
       autoVars
<1>4. Orphans' \subseteq Orphans
  <2> SUFFICES ASSUME NEW r \in Orphans' PROVE r \in Orphans
    OBVIOUS
  <2>1. r \in Working' /\ \A p \in Proc : Live(p)' => job'[p].id # r
    BY DEF Orphans
  <2>2. r \in Working
    BY <1>3, <2>1
  <2>3. \A q \in Proc : Live(q) /\ job[q].id = r => Live(q)' /\ job'[q].id = r
    BY <1>2, <2>2 DEF Live
  <2> QED
    BY <2>1, <2>2, <2>3 DEF Orphans
<1> QED
  BY <1>1, <1>4

\* A crash orphans at most the run of the process that died.
LEMMA CrashOrphansOne ==
  ASSUME AutoInv, NEW p \in Proc, Crash(p)
  PROVE  Orphans' \subseteq Orphans \cup {job[p].id} /\ crashes' = crashes + 1
<1>1. /\ crashes' = crashes + 1 /\ child' = child
      /\ \A q \in Proc \ {p} : job'[q] = job[q]
  BY DEF AutoInv, AutoType, Crash
<1>2. Working' = Working /\ \A q \in Proc \ {p} : Live(q) => Live(q)'
  BY <1>1 DEF Working, Live
<1> QED
  BY <1>1, <1>2 DEF Orphans

\* Every orphan is the work of a crash.
LEMMA NextOrphans ==
  ASSUME AutoInv, AutoInv', OrphansCounted, [AutoNext]_autoVars
  PROVE  OrphansCounted'
<1>1. /\ Orphans \in SUBSET RunId /\ Orphans' \in SUBSET RunId
      /\ crashes \in Nat /\ crashes' \in Nat
  BY DEF Orphans, Working, AutoInv, AutoType
<1>2. PICK x : \/ Orphans' \subseteq Orphans /\ crashes' = crashes
               \/ Orphans' \subseteq Orphans \cup {x} /\ crashes' = crashes + 1
  BY StepKeepsOrphans, CrashOrphansOne
<1>3. PICK S \in SUBSET RunId : S = Orphans
  BY <1>1
<1>4. PICK T \in SUBSET RunId : T = Orphans'
  BY <1>1
<1>5. PICK n \in Nat, m \in Nat : n = crashes /\ m = crashes'
  BY <1>1
<1>6. Cardinality(T) <= m
  <2>1. Cardinality(S) <= n
    BY <1>3, <1>5 DEF OrphansCounted
  <2>2. (T \subseteq S /\ n <= m) \/ (T \subseteq S \cup {x} /\ m = n + 1)
    BY <1>2, <1>3, <1>4, <1>5
  <2> QED
    BY <2>1, <2>2, StillCounted
<1> QED
  BY <1>4, <1>5, <1>6 DEF OrphansCounted

\* A run at work after a step other than Acquire was at work before it.
LEMMA AtWorkBefore ==
  ASSUME AutoInv, [AutoNext]_autoVars, NEW q \in Proc, Live(q)', job'[q].pc = "work", ~Acquire(q)
  PROVE  Live(q) /\ job[q].pc = "work" /\ job'[q].id = job[q].id
<1>0. AutoType
  BY DEF AutoInv
<1>1. CASE Controller(q)
  BY <1>1, RoutineStep, LockMoves DEF Controller, Routine, Live
<1>2. CASE job'[q] = job[q]
  BY <1>2 DEF Live
<1>3. CASE \E p \in Proc, o \in Orders : CreateRun(p, o) \/ CreateFails(p, o)
  <2>1. PICK p \in Proc, o \in Orders : CreateRun(p, o) \/ CreateFails(p, o)
    BY <1>3
  <2>2. p # q => job'[q] = job[q]
    BY <1>0, <2>1 DEF CreateRun, CreateFails, AutoType
  <2>3. p = q => job'[q].pc = "acquire" \/ job' = job
    BY <1>0, <2>1 DEF CreateRun, CreateFails, AutoType
  <2> QED
    BY <1>2, <2>2, <2>3
<1>4. CASE Crash(q)
  BY <1>0, <1>4 DEF Crash, Dead, AutoType
<1>5. \A p \in Proc \ {q} : Controller(p) \/ Crash(p) => job'[q] = job[q]
  BY <1>0, OthersKept DEF Crash, AutoType
<1> QED
  BY <1>1, <1>2, <1>3, <1>4, <1>5 DEF AutoNext, autoVars, ModelCall, Publish, ChildEnds, RepairEnds,
     ReviewEnds

\* Only the lock's file being removed takes a lock away, one at a time.
LEMMA NextRobbed ==
  ASSUME AutoInv, AutoInv', RobbedCounted, [AutoNext]_autoVars
  PROVE  RobbedCounted'
<1>1. /\ Robbed \in SUBSET RunId /\ Robbed' \in SUBSET RunId /\ AutoType
      /\ evicted \in Nat /\ evicted' \in Nat
  BY DEF Robbed, AutoInv, AutoType
<1>2. ASSUME NEW r \in Robbed'
      PROVE  \/ r \in Robbed
             \/ \E p, q \in Proc : /\ Unlinked(p) /\ (Unlink(p) \/ Remove(p))
                                   /\ holder = q /\ Live(q) /\ r = job[q].id
                                   /\ Live(q)' /\ job'[q].pc = "work"
  <2>1. PICK q \in Proc : r \in RunId /\ Live(q)' /\ job'[q].pc = "work" /\ job'[q].id = r /\ holder' # q
    BY <1>2 DEF Robbed
  <2>2. ~Acquire(q)
    BY <2>1 DEF Acquire
  <2>3. Live(q) /\ job[q].pc = "work" /\ job[q].id = r
    BY <2>1, <2>2, AtWorkBefore
  <2>4. CASE holder # q
    BY <2>1, <2>3, <2>4 DEF Robbed
  <2>5. CASE holder = q
    <3>1. \A p \in Proc : ~Acquire(p)
      BY <1>1, <2>1, <2>5, AutopilotConstants DEF Acquire
    <3>2. \A p \in Proc : Routine(p) => holder' = holder
      BY RoutineStep
    <3>3. \E p \in Proc : Unlink(p) \/ Remove(p)
      BY <2>1, <2>5, <3>1, <3>2 DEF AutoNext, Controller, Routine, CreateRun, CreateFails, Look,
         Release, Crash, ModelCall, Publish, ChildEnds, RepairEnds, ReviewEnds, autoVars
    <3>4. PICK p \in Proc : Unlinked(p) /\ (Unlink(p) \/ Remove(p))
      BY <3>3 DEF Unlink, Remove
    <3> QED
      BY <2>1, <2>3, <2>5, <3>4
  <2> QED
    BY <2>4, <2>5
<1>3. evicted <= evicted'
  <2>1. \A p \in Proc : Routine(p) => evicted' = evicted
    BY RoutineStep
  <2>2. \A p \in Proc : Unlink(p) \/ Remove(p) => evicted <= evicted'
    BY <1>1 DEF Unlink, Remove, Unlinked
  <2>3. \A p \in Proc : Acquire(p) \/ Look(p) \/ Release(p) \/ Crash(p) => evicted' = evicted
    BY DEF Acquire, Look, Release, Crash
  <2>4. \A p \in Proc : Controller(p) => evicted <= evicted'
    BY <1>1, <2>1, <2>2, <2>3 DEF Controller, Routine
  <2>5. \A p \in Proc, o \in Orders : CreateRun(p, o) \/ CreateFails(p, o) => evicted' = evicted
    BY DEF CreateRun, CreateFails
  <2>6. \A r \in RunId : ModelCall(r) \/ Publish(r) \/ ChildEnds(r) => evicted' = evicted
    BY DEF ModelCall, Publish, ChildEnds, RepairEnds, ReviewEnds
  <2>7. UNCHANGED autoVars => evicted' = evicted
    BY DEF autoVars
  <2>8. evicted' = evicted => evicted <= evicted'
    BY <1>1
  <2> QED
    BY <2>3, <2>4, <2>5, <2>6, <2>7, <2>8 DEF AutoNext
<1>4. PICK x : x = job[holder].id
  OBVIOUS
<1>5. \/ Robbed' \subseteq Robbed /\ evicted <= evicted'
      \/ Robbed' \subseteq Robbed \cup {x} /\ evicted' = evicted + 1
  <2>1. CASE Robbed' \subseteq Robbed
    BY <1>3, <2>1
  <2>2. CASE ~(Robbed' \subseteq Robbed)
    <3>1. PICK p \in Proc, q \in Proc :
            /\ Unlinked(p) /\ (Unlink(p) \/ Remove(p))
            /\ holder = q /\ Live(q) /\ Live(q)' /\ job'[q].pc = "work"
      BY <1>2, <2>2
    <3>2. q # p
      <4>1. \/ job'[p] = None
            \/ job'[p].pc \in {"acquire", "failed"}
        BY <1>1, <3>1 DEF Unlink, Remove, Fail, At, AutoType, JobType
      <4> QED
        BY <3>1, <4>1 DEF Live
    <3>3. evicted' = evicted + 1
      BY <3>1, <3>2 DEF Unlinked
    <3> QED
      BY <1>2, <1>4, <3>3
  <2> QED
    BY <2>1, <2>2
<1>6. PICK S \in SUBSET RunId : S = Robbed
  BY <1>1
<1>7. PICK T \in SUBSET RunId : T = Robbed'
  BY <1>1
<1>8. PICK n \in Nat, m \in Nat : n = evicted /\ m = evicted'
  BY <1>1
<1>9. Cardinality(T) <= m
  <2>1. Cardinality(S) <= n
    BY <1>6, <1>8 DEF RobbedCounted
  <2>2. (T \subseteq S /\ n <= m) \/ (T \subseteq S \cup {x} /\ m = n + 1)
    BY <1>5, <1>6, <1>7, <1>8
  <2> QED
    BY <2>1, <2>2, StillCounted
<1> QED
  BY <1>7, <1>8, <1>9 DEF RobbedCounted

\* As long as nobody died, nobody removes another's lock.
LEMMA NextPeace ==
  ASSUME AutoInv, Peace, [AutoNext]_autoVars
  PROVE  Peace'
<1> SUFFICES ASSUME crashes' = 0
             PROVE  evicted' = 0 /\ \A q \in Proc : job'[q] # None =>
                      job'[q].pc \notin {"dead", "unlink"} /\ (job'[q].pc = "remove" => holder' = q)
  BY DEF Peace
<1>0. AutoType
  BY DEF AutoInv
<1>1. \A p \in Proc : ~Crash(p)
  BY <1>0 DEF Crash, AutoType
<1>2. crashes = 0
  <2>1. \A p \in Proc : Controller(p) => crashes' = crashes
    BY RoutineStep, LockMoves DEF Controller, Routine
  <2> QED
    BY <1>1, <2>1 DEF AutoNext, CreateRun, CreateFails, ModelCall, Publish, ChildEnds, RepairEnds,
       ReviewEnds, autoVars
<1>3. /\ evicted = 0
      /\ \A q \in Proc : job[q] # None => job[q].pc \notin {"dead", "unlink"}
      /\ \A q \in Proc : job[q] # None /\ job[q].pc = "remove" => holder = q
  BY <1>2 DEF Peace
<1>4. ASSUME NEW p \in Proc, Routine(p)
      PROVE  evicted' = 0 /\ \A q \in Proc : job'[q] # None =>
               job'[q].pc \notin {"dead", "unlink"} /\ (job'[q].pc = "remove" => holder' = q)
  BY <1>3, <1>4, RoutineStep
<1>5. \A p \in Proc : ~Look(p) /\ ~Unlink(p)
  BY <1>0, <1>3 DEF Look, Unlink, Stale, At, AutoType
<1>6. ASSUME NEW p \in Proc, Acquire(p) \/ Release(p) \/ Remove(p)
      PROVE  evicted' = 0 /\ \A q \in Proc : job'[q] # None =>
               job'[q].pc \notin {"dead", "unlink"} /\ (job'[q].pc = "remove" => holder' = q)
  <2>1. /\ \A q \in Proc \ {p} : job'[q] = job[q]
        /\ \/ job'[p] = None
           \/ Acquire(p) /\ job'[p].pc = "work"
           \/ Release(p) /\ holder = p /\ job'[p].pc = "remove"
    BY <1>5, <1>6, LockMoves
  <2>2. CASE Acquire(p)
    <3>1. holder = None /\ evicted' = evicted /\ job'[p].pc = "work"
      BY <1>0, <2>2 DEF Acquire, At, AutoType, JobType
    <3> QED
      BY <1>3, <2>1, <3>1, AutopilotConstants
  <2>3. CASE Release(p)
    <3>1. holder' = holder /\ evicted' = evicted
      BY <2>3 DEF Release
    <3>2. job'[p] = None \/ (holder = p /\ job'[p].pc = "remove")
      BY <1>0, <2>3 DEF Release, At, AutoType, JobType
    <3> QED
      BY <1>3, <2>1, <3>1, <3>2
  <2>4. CASE Remove(p)
    <3>1. holder = p /\ job'[p] = None
      BY <1>0, <1>3, <2>4 DEF Remove, At, AutoType
    <3>2. evicted' = evicted
      BY <2>4, <3>1 DEF Remove, Unlinked
    <3> QED
      BY <1>3, <2>1, <3>1, <3>2
  <2> QED
    BY <1>6, <2>2, <2>3, <2>4
<1>7. ASSUME NEW p \in Proc, NEW o \in Orders, CreateRun(p, o) \/ CreateFails(p, o)
      PROVE  evicted' = 0 /\ \A q \in Proc : job'[q] # None =>
               job'[q].pc \notin {"dead", "unlink"} /\ (job'[q].pc = "remove" => holder' = q)
  <2>1. /\ holder' = holder /\ evicted' = evicted
        /\ \A q \in Proc \ {p} : job'[q] = job[q]
        /\ job' = job \/ job'[p].pc = "acquire"
    BY <1>0, <1>7 DEF CreateRun, CreateFails, AutoType
  <2> QED
    BY <1>3, <2>1
<1>8. CASE UNCHANGED <<job, holder, evicted>>
  BY <1>3, <1>8
<1> QED
  BY <1>1, <1>4, <1>5, <1>6, <1>7, <1>8 DEF AutoNext, Controller, Routine, ModelCall, Publish, ChildEnds,
     RepairEnds, ReviewEnds, autoVars

\* The counts hold in every reachable state.
LEMMA SpecCounted == AutoSpec => [](OrphansCounted /\ RobbedCounted /\ Peace)
<1>1. AutoInit => OrphansCounted /\ RobbedCounted /\ Peace
  <2> SUFFICES ASSUME AutoInit PROVE OrphansCounted /\ RobbedCounted /\ Peace
    OBVIOUS
  <2>1. Orphans = {} /\ Robbed = {} /\ crashes = 0 /\ evicted = 0
    BY DEF AutoInit, Orphans, Robbed, Working, Live
  <2> QED
    BY <2>1, FS_EmptySet DEF OrphansCounted, RobbedCounted, Peace, AutoInit
<1>2. AutoInv /\ AutoInv' /\ OrphansCounted /\ RobbedCounted /\ Peace /\ [AutoNext]_autoVars
        => (OrphansCounted /\ RobbedCounted /\ Peace)'
  BY NextOrphans, NextRobbed, NextPeace
<1> QED
  BY <1>1, <1>2, SpecAutoInv, PTL DEF AutoSpec

\* Beside the child of the lock's holder run only children of dead controllers,
\* one for each death at most, and of controllers whose lock another one
\* removed, one for each removal; and no lock of a live controller is removed
\* while no controller has died.
THEOREM OneWorkerPerCrash == AutoSpec => []OneWorker
<1>1. AutoInv /\ OrphansCounted /\ RobbedCounted /\ Peace => OneWorker
  <2> SUFFICES ASSUME AutoInv, OrphansCounted, RobbedCounted, Peace PROVE OneWorker
    OBVIOUS
  <2>1. PICK S \in SUBSET RunId : S = Orphans
    BY DEF Orphans, Working
  <2>2. PICK R \in SUBSET RunId : R = Robbed
    BY DEF Robbed
  <2>3. PICK T \in SUBSET RunId : T = Working
    BY DEF Working
  <2>4. PICK x : x = job[holder].id
    OBVIOUS
  <2>5. T \subseteq (S \cup R) \cup {x}
    <3> SUFFICES ASSUME NEW r \in Working, r \notin Orphans, r \notin Robbed PROVE r = job[holder].id
      BY <2>1, <2>2, <2>3, <2>4
    <3>1. PICK p \in Proc : Live(p) /\ job[p].id = r
      BY DEF Orphans
    <3>2. job[p].pc = "work" /\ r \in RunId
      BY <3>1, WorkerAtWork DEF Working
    <3> QED
      BY <3>1, <3>2 DEF Robbed
  <2>6. /\ IsFiniteSet(S) /\ Cardinality(S) \in Nat /\ IsFiniteSet(R) /\ Cardinality(R) \in Nat
        /\ Cardinality(T) \in Nat
    BY RunsFinite
  <2>7. /\ IsFiniteSet(S \cup R) /\ Cardinality(S \cup R) \in Nat
        /\ Cardinality(S \cup R) <= Cardinality(S) + Cardinality(R)
    <3>1. /\ IsFiniteSet(S \cup R)
          /\ Cardinality(S \cup R) = Cardinality(S) + Cardinality(R) - Cardinality(S \cap R)
      BY <2>6, FS_Union
    <3>2. S \cap R \in SUBSET RunId /\ S \cup R \in SUBSET RunId
      OBVIOUS
    <3>3. Cardinality(S \cap R) \in Nat /\ Cardinality(S \cup R) \in Nat
      BY <3>2, RunsFinite
    <3> QED
      BY <2>6, <3>1, <3>3
  <2>8. /\ IsFiniteSet((S \cup R) \cup {x}) /\ Cardinality((S \cup R) \cup {x}) \in Nat
        /\ Cardinality((S \cup R) \cup {x}) <= Cardinality(S \cup R) + 1
    BY <2>7, AddOne
  <2>9. Cardinality(T) <= Cardinality((S \cup R) \cup {x})
    BY <2>5, <2>8, FS_Subset
  <2>10. /\ crashes \in Nat /\ Cardinality(S) <= crashes /\ evicted \in Nat /\ Cardinality(R) <= evicted
         /\ crashes = 0 => evicted = 0
    BY <2>1, <2>2 DEF AutoInv, AutoType, OrphansCounted, RobbedCounted, Peace
  <2>11. Cardinality(T) <= 1 + crashes + evicted
    BY <2>6, <2>7, <2>8, <2>9, <2>10
  <2> QED
    BY <2>3, <2>10, <2>11 DEF OneWorker
<1> QED
  BY <1>1, SpecAutoInv, SpecCounted, PTL
=============================================================================
