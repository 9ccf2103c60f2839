----------------------------- MODULE RepairSession -----------------------------
(***************************************************************************)
(* The dashboard's autonomous session (dashboard/server.py): a worker      *)
(* thread runs autobuild cycles until the work is green, the owner stops   *)
(* it, or it must not go on.  A cycle runs the controller, which runs      *)
(* Repair Rat and, when that is green, Rat Review.  The HTTP thread starts *)
(* sessions and sets the stop flag at any time; the authoritative head may *)
(* move at any time.                                                       *)
(*                                                                         *)
(* Amounts are in units of the smallest call.  The session's 12-cycle      *)
(* limit is MaxCycles.  What a failed cycle shows is its failing families: *)
(* two failures have the same signature when these are the same.           *)
(***************************************************************************)
EXTENDS RepairRat

CONSTANTS
  Budget,      \* normalize_session_budget
  Reserve,     \* min_cycle_reserve
  MaxCycles,   \* the session's limit of cycles
  MaxSessions  \* bound: sessions started

ASSUME SessionConstants ==
  Budget \in Nat \ {0} /\ Reserve \in Nat /\ MaxCycles \in Nat \ {0} /\ MaxSessions \in Nat \ {0}

VARIABLES
  worker,    \* the session thread's locals
  stop,      \* the stop_requested event
  status,    \* state/dashboard status: running and stage
  sessions,
  poisoned,  \* a cycle of this session reported a fatal failure
  asked,     \* the owner's newest stop: none in this session, or when it came
  unheeded   \* builds started since then

vars == <<head, rat, report, foundation, proven, bill, lost,
          worker, stop, status, sessions, poisoned, asked, unheeded>>

\* pc: off, starting, check, build, ending; child, what the cycle's controller
\* process is at: none, controller, rat, review, failed, published.
Off == [pc |-> "off", child |-> "none", cycle |-> 0, spent |-> 0, same |-> 0, signature |-> None,
        packet |-> None, retained |-> FALSE, reason |-> FALSE, new |-> FALSE, older |-> FALSE]

SessionInit ==
  /\ RatInit /\ worker = Off /\ stop = FALSE
  /\ status = [running |-> FALSE, stage |-> "IDLE"]
  /\ sessions = 0 /\ poisoned = FALSE /\ asked = "no" /\ unheeded = 0

Is(pc, child) == worker.pc = pc /\ worker.child = child
SetStage(stage) == status' = [status EXCEPT !.stage = stage]
-----------------------------------------------------------------------------
(* The HTTP thread and GitHub.                                             *)

\* start_session: one worker thread at a time.
Start ==
  /\ worker.pc = "off" /\ sessions < MaxSessions
  /\ worker' = [Off EXCEPT !.pc = "starting"]
  /\ sessions' = sessions + 1
  /\ bill' = 0 /\ lost' = 0 /\ poisoned' = FALSE /\ asked' = "no" /\ unheeded' = 0
  /\ UNCHANGED <<head, rat, report, foundation, proven, stop, status>>

\* /api/stop: the flag is set and the stop acknowledged, at any time: early is
\* before the new thread has come to clear the flag.
Stop ==
  /\ stop' = TRUE /\ unheeded' = 0
  /\ asked' = CASE worker.pc = "off" -> "no" [] worker.pc = "starting" -> "early" [] OTHER -> "late"
  /\ UNCHANGED <<head, rat, report, foundation, proven, bill, lost, worker, status, sessions, poisoned>>

HeadMoves ==
  /\ head < MaxHeads /\ head' = head + 1
  /\ UNCHANGED <<rat, report, foundation, proven, bill, lost, worker, stop, status, sessions, poisoned, asked, unheeded>>
-----------------------------------------------------------------------------
(* The session thread.                                                     *)

Leave(w, stage) == worker' = [w EXCEPT !.pc = "ending"] /\ SetStage(stage)
GoOn(w) == worker' = [w EXCEPT !.pc = "check", !.child = "none"] /\ UNCHANGED status

sideVars == <<head, rat, report, foundation, proven, bill, lost, sessions, poisoned>>

\* The packet made of a saved retest of earlier candidates, at some head.
Bootstrap ==
  {[sha |-> h, partial |-> FALSE, base |-> h, target |-> t] : h \in 1 .. head, t \in Defect}

\* The thread clears the stop flag, whoever set it, runs the gates and looks
\* for saved evidence.
Starting ==
  /\ worker.pc = "starting"
  /\ stop' = FALSE /\ UNCHANGED <<asked, unheeded>>
  /\ status' = [running |-> TRUE, stage |-> "WORKING"]
  /\ \E p \in Bootstrap \cup {None} : worker' = [worker EXCEPT !.pc = "check", !.packet = p]
  /\ UNCHANGED sideVars

\* A last save that forgets running=False.
MutStopped(stage) == [status EXCEPT !.stage = stage]

Stopped(stage) == [running |-> FALSE, stage |-> stage]

\* A failed gate, or a cost-optimized session without a focused packet.
NotReady ==
  /\ worker.pc = "check" /\ worker.cycle = 0
  /\ worker' = Off
  /\ \E stage \in {"SAFE_STOP", "NEEDS_OWNER"} : status' = Stopped(stage)
  /\ UNCHANGED <<stop, asked, unheeded>> /\ UNCHANGED sideVars

\* A loop that heeds the stop flag after a failed cycle only.
MutStops == FALSE

Stops == stop

\* The while condition and the four checks at the top of the loop; the time
\* limit may be over at any of them.
TimeUp ==
  /\ Is("check", "none")
  /\ worker' = [worker EXCEPT !.pc = "ending"] /\ UNCHANGED status
  /\ UNCHANGED <<stop, asked, unheeded>> /\ UNCHANGED sideVars

LoopCheck ==
  LET remaining == Budget - worker.spent IN
    /\ Is("check", "none")
    /\ IF Stops \/ remaining <= 0 \/ worker.cycle >= MaxCycles
       THEN worker' = [worker EXCEPT !.pc = "ending"] /\ UNCHANGED status
       ELSE IF worker.cycle > 0 /\ remaining < Reserve
       THEN Leave(worker, "BUDGET_REACHED")
       ELSE worker' = [worker EXCEPT !.pc = "build", !.cycle = @ + 1, !.new = FALSE, !.older = worker.new]
            /\ SetStage("WORKING")
    /\ UNCHANGED <<stop, asked, unheeded>> /\ UNCHANGED sideVars

\* run_command_live(autobuild); the stop flag is not looked at again.
Build ==
  /\ Is("build", "none")
  /\ worker' = [worker EXCEPT !.child = "controller"]
  /\ unheeded' = IF asked # "no" THEN unheeded + 1 ELSE unheeded
  /\ UNCHANGED <<stop, status, asked>> /\ UNCHANGED sideVars

\* The controller fails before Repair Rat runs: lock, GitHub, preflight.
ControllerFails ==
  /\ Is("build", "controller")
  /\ worker' = [worker EXCEPT !.child = "failed"]
  /\ UNCHANGED <<stop, status, asked, unheeded>> /\ UNCHANGED sideVars

\* A report that is written now is the cycle's own; a green one goes to review.
After(rep) == IF rep.passed THEN "review" ELSE "failed"
Poisons(rep) == poisoned \/ rep.fatal # None

RatBegins ==
  /\ Is("build", "controller")
  /\ Begin(Budget - worker.spent, worker.packet, worker.retained)
  /\ worker' = IF rat' = None THEN [worker EXCEPT !.child = "failed", !.new = TRUE]
               ELSE [worker EXCEPT !.child = "rat"]
  /\ poisoned' = (rat' = None \/ poisoned)
  /\ UNCHANGED <<stop, status, sessions, asked, unheeded>>

RatRuns ==
  /\ Is("build", "rat")
  /\ RatNext
  /\ IF rat' = None
     THEN /\ worker' = [worker EXCEPT !.child = After(report'), !.new = TRUE]
          /\ poisoned' = Poisons(report')
     ELSE UNCHANGED <<worker, poisoned>>
  /\ UNCHANGED <<stop, status, sessions, asked, unheeded>>

RatKilled ==
  /\ Is("build", "rat")
  /\ Killed
  /\ worker' = [worker EXCEPT !.child = "failed"]
  /\ UNCHANGED <<stop, status, sessions, poisoned, asked, unheeded>>

\* Rat Review: the parent, the clean retest, the verdict, the head once more.
\* The verdict can only come from the review cache in this version.
Review(ok) ==
  /\ Is("build", "review")
  /\ ok => ParentIsExactHead(report) /\ report.head = head
  /\ worker' = [worker EXCEPT !.child = IF ok THEN "published" ELSE "failed"]
  /\ UNCHANGED <<stop, status, asked, unheeded>> /\ UNCHANGED sideVars
-----------------------------------------------------------------------------
(* What the session makes of a cycle.                                      *)

\* latest_repair_report_after: the cycle's report, or that of the cycle
\* before when it is less than two seconds older than the cycle.
Picked ==
  IF worker.new THEN {report}
  ELSE {None} \cup (IF worker.older THEN {report} ELSE {})

\* failure_feedback.make: of a packet Repair Rat reads the head it was made
\* for, whether it stands on a partial repair, and its primary target.
Feedback(rep, t) ==
  [sha |-> rep.head, partial |-> rep.partial,
   base |-> IF rep.partial THEN foundation.base ELSE rep.head, target |-> t]

\* debug_funnel.py on the feedback of a report: it may find no files.
Funnel(rep) ==
  {Feedback(rep, t) :
     t \in IF rep.failing = {} THEN {None}
           ELSE IF rep.failing \subseteq Broad THEN rep.failing ELSE rep.failing \ Broad}

\* build_remaining_failure_packet: no target_sha, no focused files.
Fallback == [sha |-> None, partial |-> FALSE, base |-> 1, target |-> None]

\* The session goes on after a fatal failure that followed a paid call.
MutFatal(rep) == rep.fatal # None /\ rep.calls = 0

\* Every fatal failure is final, before a call or after it.
FatalStage(rep) == IF rep.fatal = "budget" THEN "BUDGET_BLOCKED" ELSE "INFRA_ERROR"
IsFatal(rep) == rep.fatal # None

\* PARTIAL_WIN: the foundation is kept and the next packet prepared.
PartialWin(w, rep) ==
  \/ \E p \in Funnel(rep) : GoOn([w EXCEPT !.retained = TRUE, !.packet = p])
  \/ rep.failing # {} /\ GoOn([w EXCEPT !.retained = TRUE, !.packet = Fallback])
  \/ Leave([w EXCEPT !.retained = TRUE], "NEEDS_OWNER")

\* AI_SAFE_REFUSAL: go on when evidence was found and the reason is another.
Refusal(w) ==
  \/ GoOn([w EXCEPT !.reason = TRUE])
  \/ Leave(w, "NEEDS_OWNER")

Repeats(w, rep) ==
  IF rep.failing = w.signature THEN [w EXCEPT !.same = @ + 1]
  ELSE [w EXCEPT !.signature = rep.failing, !.same = 0]

\* The stagnation guard: the same failure three times in a row.
Stagnant(w) == w.same >= 2

\* A failed cycle: feedback, a focused packet, the stagnation guard.
Diagnosed(w, rep) ==
  \/ Leave(w, "NEEDS_OWNER")
  \/ \E p \in Funnel(rep) :
       LET n == [Repeats(w, rep) EXCEPT !.packet = p] IN
         IF Stagnant(n) THEN Leave(n, "NEEDS_OWNER")
         ELSE IF stop \/ Budget - n.spent <= 0 THEN worker' = [n EXCEPT !.pc = "ending"] /\ UNCHANGED status
         ELSE GoOn(n)

\* teach_repair_rat follows partial wins, refusals, green and failed cycles.
Teaches(rep) == IF IsFatal(rep) THEN {proven} ELSE Learned(rep)

CycleEnds ==
  /\ worker.pc = "build" /\ worker.child \in {"failed", "published"}
  /\ \E rep \in Picked :
       LET w == IF rep = None THEN worker ELSE [worker EXCEPT !.spent = @ + rep.cost] IN
         IF rep = None THEN
           Leave(w, IF worker.child = "published" THEN "DRAFT_READY" ELSE "NEEDS_OWNER") /\ UNCHANGED proven
         ELSE
           /\ IF worker.child = "published" THEN Leave(w, "DRAFT_READY")
              ELSE IF IsFatal(rep) THEN Leave(w, FatalStage(rep))
              ELSE IF rep.partial THEN PartialWin(w, rep)
              ELSE IF rep.refused THEN Refusal(w)
              ELSE Diagnosed(w, rep)
           /\ proven' \in Teaches(rep)
  /\ UNCHANGED <<head, rat, report, foundation, bill, lost, stop, sessions, poisoned, asked, unheeded>>

\* The final stage, the summary report, running=False.
FinalStage ==
  IF stop THEN "SAFE_STOP"
  ELSE IF worker.spent >= Budget /\ status.stage # "DRAFT_READY" THEN "BUDGET_REACHED"
  ELSE status.stage

Ending ==
  /\ worker.pc = "ending"
  /\ status' = Stopped(FinalStage)
  /\ worker' = Off
  /\ UNCHANGED <<stop, asked, unheeded>> /\ UNCHANGED sideVars

\* run_session: a helper that times out or an exception ends the session.
WorkerCrash ==
  /\ worker.pc \in {"starting", "check", "ending"} \/ worker.child \in {"failed", "published"}
  /\ worker' = Off
  /\ status' = Stopped("INFRA_ERROR")
  /\ UNCHANGED <<stop, asked, unheeded>> /\ UNCHANGED sideVars
-----------------------------------------------------------------------------
(* The specification.                                                      *)

Thread == Starting \/ NotReady \/ TimeUp \/ LoopCheck \/ Build \/ CycleEnds \/ Ending \/ WorkerCrash
Children == ControllerFails \/ RatBegins \/ RatRuns \/ RatKilled \/ \E ok \in BOOLEAN : Review(ok)

SessionNext == Start \/ Stop \/ HeadMoves \/ Thread \/ Children

SessionSpec == SessionInit /\ [][SessionNext]_vars

\* The thread runs, and every child ends: spawnSync has a timeout.
FairSessionSpec == SessionSpec /\ WF_vars(Thread) /\ WF_vars(Children)
-----------------------------------------------------------------------------
(* Properties.                                                             *)

\* While a session holds a foundation only a partial win changes it, and to
\* the whole of what that candidate repairs, on the head the candidate was
\* tested against and the foundation stood on: no failed, refused, rejected or
\* killed cycle, no late report and no moved head puts together a foundation
\* that no validation has seen.  It may be without a sub-fix of the one before:
\* a patch that undoes it and clears its own target is a partial win.
FoundationKept ==
  [][worker.retained /\ worker'.retained /\ foundation' # foundation =>
       /\ report'.partial /\ report'.replayed
       /\ foundation'.edits = report'.edits
       /\ foundation'.base = report'.head /\ foundation'.base = foundation.base]_vars

\* A paid call starts only when its estimate, on top of all that reports tell
\* of the session's spending, is within the budget, however cycles fail and
\* whichever report is picked up.  What no report tells is what killed
\* invocations and HTTP errors cost.
BudgetHolds == [][bill' > bill => bill - lost + Estimate <= Budget]_vars

\* So one call at most goes over, by what it costs beyond its estimate.
OneCallOver == bill - lost <= Budget + Excess

\* Fail closed: once a cycle has reported a fatal failure, before or after the
\* paid call, the session makes no call.
FailClosed == [][bill' > bill => ~poisoned]_vars

\* After a stop that comes once the session has cleared the flag, no more than
\* the build that was being prepared starts.  One that comes before, between
\* the answer to /api/start and the clearing (server.py:543), is lost, although
\* the dashboard answers it too that "no new work will start" (server.py:977).
StopHonoured == asked = "late" => unheeded <= 1

\* Every session ends, and its status says so: no crash or timeout leaves it
\* "running".
SessionEnds == [](worker.pc # "off" => <>(worker.pc = "off" /\ ~status.running))

\* SiteBoss-Repair-Rat.ps1:1903 tells the model that ForgeBoss will "handle
\* the next remaining failure in a later cycle": a candidate that passes the
\* whole validation in a later cycle is one Rat Review can accept.
ReviewTakesGreen == report # None /\ report.passed => ParentIsExactHead(report)
=============================================================================
