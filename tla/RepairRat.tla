------------------------------- MODULE RepairRat -------------------------------
(***************************************************************************)
(* One invocation of Repair Rat (SiteBoss-Repair-Rat.ps1) in               *)
(* parent-head-local mode: check out the exact head, replay the retained   *)
(* foundation, take the focused packet, try the $0 repairs, make at most   *)
(* one paid call, validate, and leave a report.                            *)
(*                                                                         *)
(* A candidate is the set of defect families its edits repair, counted     *)
(* from the authoritative head; validation shows which families still      *)
(* fail.  The patch cache never hits in this mode (its key holds the time  *)
(* of the fresh evidence) and is left out.                                 *)
(***************************************************************************)
EXTENDS Integers, FiniteSets

CONSTANTS
  Defect,    \* the defect families at the authoritative head; what npm_test or
             \* a runtime error shows is no family: no candidate with it is kept
  Broad,     \* those that only the full PostgreSQL suite shows
  Flaky,     \* those that a round of validation may miss
  Lesson,    \* what the built-in Travis lesson repairs
  Focused,   \* estimate of a call with a focused packet
  Full,      \* estimate of a call with the full source packet
  Excess,    \* bound: what a call may cost beyond its estimated floor
  MaxHeads,  \* bound: heads the authoritative branch goes through
  None

ASSUME RatConstants ==
  /\ IsFiniteSet(Defect) /\ None \notin Defect
  /\ Broad \subseteq Defect /\ Flaky \subseteq Defect /\ Lesson \subseteq Defect
  /\ Focused \in Nat \ {0} /\ Full \in Nat /\ Focused <= Full /\ Excess \in Nat
  /\ MaxHeads \in Nat \ {0}

\* The invocation's state, the report and the foundation as they are saved.
Fatal == {"infra", "budget", "paid"}
RatType ==
  [at : {"playbook", "lesson", "call", "paid"}, base : Nat, replayed : BOOLEAN,
   kept : SUBSET Defect, focused : BOOLEAN, target : Defect \cup {None}, limit : Int, cost : Nat]
ReportType ==
  [passed : BOOLEAN, partial : BOOLEAN, refused : BOOLEAN, fatal : Fatal \cup {None},
   calls : {0, 1}, cost : Nat, head : Nat, replayed : BOOLEAN,
   edits : SUBSET Defect, failing : SUBSET Defect]
FoundationType == [base : Nat, edits : SUBSET Defect]

ASSUME NoneIsNothing ==
  None \notin RatType /\ None \notin ReportType /\ None \notin FoundationType /\ None \notin Fatal

VARIABLES
  head,        \* the authoritative head on GitHub
  rat,         \* the running invocation, or None
  report,      \* the newest report in state/repair-rat, or None
  foundation,  \* retained-foundation-last.json and its patch: [base, edits], or None
  proven,      \* the playbook's "proven" entries
  bill,        \* what the model's vendor charged in this session
  lost         \* the part of it that no report tells

ratVars == <<head, rat, report, foundation, proven, bill, lost>>

RatInit ==
  /\ head = 1 /\ rat = None /\ report = None /\ foundation = None
  /\ proven = {} /\ bill = 0 /\ lost = 0
-----------------------------------------------------------------------------
(* Validation.                                                             *)

\* The families the validation rounds of a candidate may show as failing.
Failures(edits) ==
  {F \in SUBSET (Defect \ edits) : (Defect \ edits) \ Flaky \subseteq F}

\* Test-TargetedRegressionGatesGreen.
TargetedGreen(F) == F # {} /\ F \subseteq Broad

\* Test-FocusedFailureFamilyCleared: the packet's evidence names an error, of
\* whichever family, that no failing step prints now; its step may still fail.
Clearable == IF rat.focused THEN BOOLEAN ELSE {FALSE}

\* Any of three tests: the step of Test-FocusedTargetResolved passes, the named
\* error is gone, or only the full suite fails.
FocusedResolved(F, cleared) ==
  \/ TargetedGreen(F)
  \/ rat.focused /\ rat.target # None /\ rat.target \notin F
  \/ cleared
-----------------------------------------------------------------------------
(* The report.                                                             *)

Blank ==
  [passed |-> FALSE, partial |-> FALSE, refused |-> FALSE, fatal |-> None, calls |-> 0,
   cost |-> 0, head |-> head, replayed |-> FALSE, edits |-> {}, failing |-> Defect]

\* What Write-Report says of the running invocation.
Written ==
  [Blank EXCEPT !.calls = IF rat.at = "paid" THEN 1 ELSE 0, !.cost = rat.cost,
                !.head = rat.base, !.replayed = rat.replayed]

Ends(rep) == report' = rep /\ rat' = None

\* The trap: Write-Report with the fatal failure, exit 2.
Dies(reason) == Ends([Written EXCEPT !.fatal = reason])

\* A foundation of the last candidate's own edits, not of the whole chain.
MutRetained(edits) == [base |-> rat.base, edits |-> edits \ rat.kept]

\* Save-RetainedPartialPatch: the cumulative diff from the authoritative base.
Retained(edits) == [base |-> IF rat.replayed THEN foundation.base ELSE rat.base, edits |-> edits]

\* Green: commit and exit 0.  Focused target resolved: commit, retain, exit.
\* Nothing compares the candidate with the foundation it was made on.
Judged(edits, F, cleared) ==
  LET rep == [Written EXCEPT !.edits = edits, !.failing = F] IN
    IF F = {} THEN Ends([rep EXCEPT !.passed = TRUE]) /\ UNCHANGED foundation
    ELSE IF FocusedResolved(F, cleared)
    THEN Ends([rep EXCEPT !.partial = TRUE]) /\ foundation' = Retained(edits)
    ELSE Ends([rep EXCEPT !.edits = rat.kept]) /\ UNCHANGED foundation
-----------------------------------------------------------------------------
(* The invocation.                                                         *)

\* A packet binds to the exact checked-out commit, which a replay has moved,
\* or to the foundation's authoritative base.  The packet the dashboard makes
\* itself has no target_sha and never binds.
Accepts(packet, retained) ==
  /\ packet # None /\ packet.sha # None
  /\ \/ ~retained /\ packet.sha = head
     \/ retained /\ packet.partial /\ packet.base = head

\* The foundation's base must be the head.
Replays == foundation.base = head

\* Checkout, replay, packet and scope.  A base that moved is fatal.
Begin(limit, packet, retained) ==
  LET focused == Accepts(packet, retained) IN
    /\ rat = None
    /\ IF retained /\ ~Replays
       THEN /\ report' = [Blank EXCEPT !.fatal = "infra"]
            /\ UNCHANGED rat
       ELSE /\ rat' = [at |-> "playbook", base |-> head, replayed |-> retained,
                       kept |-> IF retained THEN foundation.edits ELSE {},
                       focused |-> focused, target |-> IF focused THEN packet.target ELSE None,
                       limit |-> limit, cost |-> 0]
            /\ UNCHANGED report
    /\ UNCHANGED <<head, foundation, proven, bill, lost>>

At(label) == rat # None /\ rat.at = label
Step(label) == rat' = [rat EXCEPT !.at = label]

\* Anything before the call may throw: clone, scope, Docker, a missing key.
Breaks ==
  /\ rat # None /\ rat.at # "paid"
  /\ Dies("infra")
  /\ UNCHANGED <<head, foundation, proven, bill, lost>>

\* An entry fits a focused packet when its files are as they were then.
Hits == {e \in proven : rat.focused /\ e.base = rat.base /\ e.edits \cap rat.kept = {}}

\* A remembered repair is validated like any other, and only passes whole.
Playbook ==
  /\ At("playbook")
  /\ \/ /\ Hits = {} /\ Step("lesson")
        /\ UNCHANGED <<report, foundation>>
     \/ \E e \in Hits : \E F \in Failures(rat.kept \cup e.edits) :
          IF F = {} THEN Judged(rat.kept \cup e.edits, F, FALSE)
          ELSE Step("lesson") /\ UNCHANGED <<report, foundation>>
  /\ UNCHANGED <<head, proven, bill, lost>>

\* Its source pattern is still there.  Whether the evidence names it and its
\* file may be written is open.
LessonApplies == Lesson # {} /\ Lesson \cap rat.kept = {}

\* Try-ValidatedLocalLesson.
LocalLesson ==
  /\ At("lesson")
  /\ \/ /\ Step("call")
        /\ UNCHANGED <<report, foundation>>
     \/ /\ LessonApplies
        /\ \E F \in Failures(rat.kept \cup Lesson), cleared \in Clearable :
             IF F = {} \/ FocusedResolved(F, cleared) THEN Judged(rat.kept \cup Lesson, F, cleared)
             ELSE Step("call") /\ UNCHANGED <<report, foundation>>
  /\ UNCHANGED <<head, proven, bill, lost>>

Estimate == IF rat.focused THEN Focused ELSE Full

\* A preflight that compares with the limit but lets the last call through.
MutFits == rat.limit > 0

\* Assert-EstimatedCallFitsBudget.
Fits == Estimate <= rat.limit

\* The preflight refuses, or the one paid call is made and answered for.  The
\* estimate is a floor: a token for 3.2 bytes, and no more output than asked.
Call ==
  /\ At("call")
  /\ IF ~Fits THEN Dies("budget") /\ UNCHANGED bill
     ELSE \E cost \in 1 .. Estimate + Excess :
            /\ rat' = [rat EXCEPT !.at = "paid", !.cost = cost]
            /\ bill' = bill + cost
            /\ UNCHANGED report
  /\ UNCHANGED <<head, foundation, proven, lost>>

\* An HTTP error: the call counts, its usage is not recorded.
HttpFails ==
  /\ At("paid")
  /\ Ends([Written EXCEPT !.fatal = "paid", !.cost = 0])
  /\ lost' = lost + rat.cost
  /\ UNCHANGED <<head, foundation, proven, bill>>

\* The patch breaks the contract or the syntax, fails npm_test or brings a
\* runtime error (Test-IntroducedRegression), or the validation throws.
Rejected ==
  /\ At("paid")
  /\ Dies("paid")
  /\ UNCHANGED <<head, foundation, proven, bill, lost>>

\* safe=false: MODEL_SAFE_REFUSAL, no patch.
Refused ==
  /\ At("paid")
  /\ Ends([Written EXCEPT !.refused = TRUE, !.edits = rat.kept])
  /\ UNCHANGED <<head, foundation, proven, bill, lost>>

\* The patch applies, whatever it repairs or undoes, and is validated.
Validated ==
  /\ At("paid")
  /\ \E edits \in SUBSET Defect : \E F \in Failures(edits), cleared \in Clearable :
       Judged(edits, F, cleared)
  /\ UNCHANGED <<head, proven, bill, lost>>

RatNext == Breaks \/ Playbook \/ LocalLesson \/ Call \/ HttpFails \/ Rejected \/ Refused \/ Validated

\* spawnSync's timeout kills Repair Rat at any point: no report.
Killed ==
  /\ rat # None /\ rat' = None
  /\ lost' = lost + rat.cost
  /\ UNCHANGED <<head, report, foundation, proven, bill>>
-----------------------------------------------------------------------------
(* The review's first check, and the playbook's record.                    *)

\* Rat Review: the commit's parent must be the exact head, and a candidate on
\* a replayed foundation has the replay's commit for its parent.
ParentIsExactHead(rep) == ~rep.replayed

\* record(): a passed attempt whose files are those of the whole diff is
\* "proven"; nothing else is ever replayed.
Learned(rep) ==
  IF rep.passed THEN {proven, proven \cup {[base |-> rep.head, edits |-> rep.edits]}} ELSE {proven}
=============================================================================
