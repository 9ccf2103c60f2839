-------------------------- MODULE RepairSessionProofs --------------------------
(***************************************************************************)
(* What an autonomous session keeps to, for every set of defects, every    *)
(* budget, limit and estimate, and any number of cycles and sessions.      *)
(*                                                                         *)
(* Each property of the session needs to know what the running invocation  *)
(* of Repair Rat was given: the limit, while the session's spending stands *)
(* still, and the foundation it replayed.  The inductive invariant also    *)
(* follows the money from the vendor's bill through the invocation and its *)
(* report to the session's sum, which may count a report twice but never   *)
(* leaves one out.                                                         *)
(***************************************************************************)
EXTENDS RepairSession, TLAPS

PacketType ==
  [sha : Nat \cup {None}, partial : BOOLEAN, base : Nat, target : Defect \cup {None}]

WorkerType ==
  [pc : {"off", "starting", "check", "build", "ending"},
   child : {"none", "controller", "rat", "review", "failed", "published"},
   cycle : Nat, spent : Nat, same : Nat, signature : (SUBSET Defect) \cup {None},
   packet : PacketType \cup {None}, retained : BOOLEAN, reason : BOOLEAN,
   new : BOOLEAN, older : BOOLEAN]

SessionTypeOK ==
  /\ head \in Nat /\ bill \in Nat /\ lost \in Nat /\ unheeded \in Nat
  /\ stop \in BOOLEAN /\ poisoned \in BOOLEAN /\ asked \in {"no", "early", "late"}
  /\ rat \in RatType \cup {None}
  /\ report \in ReportType \cup {None}
  /\ foundation \in FoundationType \cup {None}
  /\ proven \subseteq FoundationType
  /\ worker \in WorkerType

\* The invocation runs inside a build, under what the session has left, from
\* the foundation the session holds; it costs nothing before its call.
Invocation ==
  rat # None =>
    /\ Is("build", "rat")
    /\ rat.limit = Budget - worker.spent
    /\ rat.at # "paid" => rat.cost = 0
    /\ rat.replayed = worker.retained
    /\ rat.replayed => rat.kept = foundation.edits /\ rat.base = foundation.base

\* A report counts as the cycle's own only once Repair Rat has written it.
OwnReport ==
  worker.pc = "build" /\ worker.new =>
    worker.child \notin {"none", "controller", "rat"} /\ report # None

\* A partial win leaves a foundation, which nothing takes away.
FoundationKnown ==
  /\ report # None /\ report.partial => foundation # None
  /\ worker.retained => foundation # None

\* What the vendor has charged and a report will tell, or tells already,
\* without the session having read it.
Untold ==
  IF rat # None THEN rat.cost
  ELSE IF worker.pc = "build" /\ worker.new THEN report.cost ELSE 0

\* The session's own sum and what it has not read yet cover the bill.
BillCovered == worker.pc # "off" => bill - lost <= worker.spent + Untold

\* A stop that came late still stands in the flag, and a build is only
\* prepared before the flag is set.
StopSeen ==
  asked = "late" =>
    /\ stop /\ worker.pc # "starting"
    /\ Is("build", "none") => unheeded = 0

\* After a fatal report the session reads it and ends.
PoisonEnds ==
  poisoned =>
    /\ rat = None
    /\ \/ worker.pc \in {"off", "ending"}
       \/ Is("build", "failed") /\ worker.new /\ report.fatal # None

SessionInv ==
  /\ SessionTypeOK
  /\ Invocation
  /\ OwnReport
  /\ FoundationKnown
  /\ BillCovered
  /\ OneCallOver
  /\ StopSeen
  /\ StopHonoured
  /\ PoisonEnds
-----------------------------------------------------------------------------
(* One invocation of Repair Rat.                                           *)

\* A step within the invocation: only the paid call costs, its estimate is
\* within the limit, and it costs at most the excess more.
GoesOn ==
  /\ rat.at # "paid" /\ rat' \in RatType
  /\ rat'.limit = rat.limit /\ rat'.replayed = rat.replayed /\ rat'.kept = rat.kept
  /\ rat'.base = rat.base
  /\ report' = report /\ foundation' = foundation /\ lost' = lost
  /\ \/ rat'.at # "paid" /\ rat'.cost = rat.cost /\ bill' = bill
     \/ /\ rat.at = "call" /\ rat'.at = "paid"
        /\ Estimate \in Nat /\ Estimate <= rat.limit
        /\ rat'.cost \in 1 .. Estimate + Excess /\ bill' = bill + rat'.cost

\* Its end: a report that tells the cost or leaves it to lost, and with a
\* partial win the foundation of what that candidate repairs.
LeavesReport ==
  /\ rat' = None /\ report' \in ReportType /\ bill' = bill
  /\ lost' \in Nat /\ lost' >= lost /\ lost' + report'.cost = lost + rat.cost
  /\ report'.passed => report'.fatal = None
  /\ report'.head = rat.base /\ report'.replayed = rat.replayed
  /\ \/ ~report'.partial /\ foundation' = foundation
     \/ /\ report'.partial /\ foundation' \in FoundationType
        /\ foundation'.edits = report'.edits
        /\ rat.replayed => foundation'.base = foundation.base

\* What a report says before anything is known of the candidate.
LEMMA WrittenIs ==
  ASSUME rat \in RatType, head \in Nat
  PROVE  /\ Written \in ReportType
         /\ Written.cost = rat.cost /\ Written.fatal = None
         /\ ~Written.passed /\ ~Written.partial
         /\ Written.head = rat.base /\ Written.replayed = rat.replayed
<1>1. rat.cost \in Nat /\ rat.base \in Nat /\ rat.replayed \in BOOLEAN
  BY DEF RatType
<1>2. Written \in ReportType
  BY <1>1 DEF Written, Blank, ReportType
<1>3. /\ Written.cost = rat.cost /\ Written.fatal = None /\ ~Written.passed /\ ~Written.partial
      /\ Written.head = rat.base /\ Written.replayed = rat.replayed
  BY DEF Written, Blank
<1> QED
  BY <1>2, <1>3

\* The trap leaves a report of the cost so far.
LEMMA DeathReports ==
  ASSUME rat \in RatType, head \in Nat, lost \in Nat, NEW reason \in Fatal, Dies(reason),
         UNCHANGED <<foundation, bill, lost>>
  PROVE  LeavesReport
<1>1. report' = [Written EXCEPT !.fatal = reason] /\ rat' = None
  BY DEF Dies, Ends
<1>2. /\ report' \in ReportType /\ report'.cost = rat.cost /\ ~report'.passed /\ ~report'.partial
      /\ report'.head = rat.base /\ report'.replayed = rat.replayed
  BY <1>1, WrittenIs DEF ReportType
<1> QED
  BY <1>1, <1>2 DEF LeavesReport, ReportType

\* A judged candidate leaves the foundation alone, or is the new one.
LEMMA JudgementReports ==
  ASSUME rat \in RatType, head \in Nat, lost \in Nat, foundation \in FoundationType \cup {None},
         rat.replayed => foundation \in FoundationType,
         NEW edits \in SUBSET Defect, NEW F \in SUBSET Defect, NEW cleared \in BOOLEAN,
         Judged(edits, F, cleared), UNCHANGED <<bill, lost>>
  PROVE  LeavesReport
<1> DEFINE rep == [Written EXCEPT !.edits = edits, !.failing = F]
<1>1. /\ rep \in ReportType /\ rep.cost = rat.cost /\ rep.fatal = None /\ rep.edits = edits
      /\ ~rep.passed /\ ~rep.partial /\ rep.head = rat.base /\ rep.replayed = rat.replayed
  BY WrittenIs DEF ReportType
<1>2. /\ F = {} => Ends([rep EXCEPT !.passed = TRUE]) /\ UNCHANGED foundation
      /\ F # {} /\ FocusedResolved(F, cleared) =>
           Ends([rep EXCEPT !.partial = TRUE]) /\ foundation' = Retained(edits)
      /\ F # {} /\ ~FocusedResolved(F, cleared) =>
           Ends([rep EXCEPT !.edits = rat.kept]) /\ UNCHANGED foundation
  BY DEF Judged
<1> HIDE DEF rep
<1>3. CASE F = {}
  <2>1. report' = [rep EXCEPT !.passed = TRUE] /\ rat' = None /\ foundation' = foundation
    BY <1>2, <1>3 DEF Ends
  <2>2. /\ report' \in ReportType /\ report'.cost = rat.cost /\ report'.fatal = None
        /\ report'.edits = edits /\ ~report'.partial
        /\ report'.head = rat.base /\ report'.replayed = rat.replayed
    BY <1>1, <2>1 DEF ReportType
  <2>3. bill' = bill /\ lost' \in Nat /\ lost' >= lost /\ lost' + report'.cost = lost + rat.cost
    <3>1. lost' = lost /\ bill' = bill /\ report'.cost = rat.cost
      BY <2>2
    <3> QED
      BY <3>1
  <2> QED
    BY <2>1, <2>2, <2>3 DEF LeavesReport
<1>4. CASE F # {} /\ FocusedResolved(F, cleared)
  <2>1. report' = [rep EXCEPT !.partial = TRUE] /\ rat' = None /\ foundation' = Retained(edits)
    BY <1>2, <1>4 DEF Ends
  <2>2. /\ report' \in ReportType /\ report'.cost = rat.cost /\ report'.fatal = None
        /\ report'.edits = edits /\ report'.partial
        /\ report'.head = rat.base /\ report'.replayed = rat.replayed
    BY <1>1, <2>1 DEF ReportType
  <2>3. /\ foundation' \in FoundationType /\ foundation'.edits = edits
        /\ rat.replayed => foundation'.base = foundation.base
    BY <2>1 DEF Retained, FoundationType, RatType
  <2>4. bill' = bill /\ lost' \in Nat /\ lost' >= lost /\ lost' + report'.cost = lost + rat.cost
    <3>1. lost' = lost /\ bill' = bill /\ report'.cost = rat.cost
      BY <2>2
    <3> QED
      BY <3>1
  <2> QED
    BY <2>1, <2>2, <2>3, <2>4 DEF LeavesReport
<1>5. CASE F # {} /\ ~FocusedResolved(F, cleared)
  <2>1. report' = [rep EXCEPT !.edits = rat.kept] /\ rat' = None /\ foundation' = foundation
    BY <1>2, <1>5 DEF Ends
  <2>2. /\ report' \in ReportType /\ report'.cost = rat.cost /\ ~report'.passed /\ ~report'.partial
        /\ report'.head = rat.base /\ report'.replayed = rat.replayed
    BY <1>1, <2>1 DEF ReportType, RatType
  <2> QED
    BY <2>1, <2>2 DEF LeavesReport, ReportType
<1> QED
  BY <1>3, <1>4, <1>5

\* A label step changes nothing else.
LEMMA StepGoesOn ==
  ASSUME rat \in RatType, rat.at # "paid", NEW label \in {"lesson", "call"}, Step(label),
         UNCHANGED <<report, foundation, bill, lost>>
  PROVE  GoesOn
BY DEF Step, GoesOn, RatType

\* Repair Rat's steps are those of a running invocation.
LEMMA RunsInside == RatRuns => rat # None
BY NoneIsNothing DEF RatRuns, RatNext, Breaks, Playbook, LocalLesson, Call, HttpFails, Rejected, Refused,
   Validated, At

\* Every step of the invocation is one or the other.
LEMMA RatEffect ==
  ASSUME SessionInv, rat # None, RatNext
  PROVE  head' = head /\ proven' = proven /\ (GoesOn \/ LeavesReport)
<1>1. /\ rat \in RatType /\ head \in Nat /\ lost \in Nat /\ bill \in Nat
      /\ foundation \in FoundationType \cup {None} /\ proven \subseteq FoundationType
      /\ rat.replayed => foundation \in FoundationType
      /\ rat.kept \in SUBSET Defect /\ rat.cost \in Nat /\ rat.limit \in Int
  BY DEF SessionInv, SessionTypeOK, Invocation, FoundationKnown, RatType
<1>2. (\A edits : Failures(edits) \subseteq SUBSET Defect) /\ Clearable \subseteq BOOLEAN
  BY DEF Failures, Clearable
<1>3. CASE Breaks
  <2>1. Dies("infra") /\ "infra" \in Fatal
    BY <1>3 DEF Breaks, Fatal
  <2> QED
    BY <1>1, <1>3, <2>1, DeathReports DEF Breaks
<1>4. CASE Playbook
  <2>1. CASE Step("lesson") /\ UNCHANGED <<report, foundation>>
    BY <1>1, <1>4, <2>1, StepGoesOn DEF Playbook, At
  <2>2. CASE \E e \in Hits : \E F \in Failures(rat.kept \cup e.edits) :
               Judged(rat.kept \cup e.edits, F, FALSE)
    <3>1. PICK e \in Hits, F \in SUBSET Defect : Judged(rat.kept \cup e.edits, F, FALSE)
      BY <1>2, <2>2
    <3>2. e.edits \in SUBSET Defect
      BY <1>1 DEF Hits, FoundationType
    <3>3. rat.kept \cup e.edits \in SUBSET Defect
      BY <1>1, <3>2
    <3> QED
      BY <1>1, <1>4, <3>1, <3>3, JudgementReports DEF Playbook
  <2> QED
    BY <1>4, <2>1, <2>2 DEF Playbook
<1>5. CASE LocalLesson
  <2>1. CASE Step("call") /\ UNCHANGED <<report, foundation>>
    BY <1>1, <1>5, <2>1, StepGoesOn DEF LocalLesson, At
  <2>2. CASE \E F \in Failures(rat.kept \cup Lesson), cleared \in Clearable :
               Judged(rat.kept \cup Lesson, F, cleared)
    <3>1. PICK F \in SUBSET Defect, cleared \in BOOLEAN : Judged(rat.kept \cup Lesson, F, cleared)
      BY <1>2, <2>2
    <3>2. rat.kept \cup Lesson \in SUBSET Defect
      BY <1>1, RatConstants
    <3> QED
      BY <1>1, <1>5, <3>1, <3>2, JudgementReports DEF LocalLesson
  <2> QED
    BY <1>5, <2>1, <2>2 DEF LocalLesson
<1>6. CASE Call
  <2>1. CASE ~Fits
    <3>1. Dies("budget") /\ "budget" \in Fatal
      BY <1>6, <2>1 DEF Call, Fatal
    <3> QED
      BY <1>1, <1>6, <2>1, <3>1, DeathReports DEF Call
  <2>2. CASE Fits
    <3>1. PICK cost \in 1 .. Estimate + Excess :
            rat' = [rat EXCEPT !.at = "paid", !.cost = cost] /\ bill' = bill + cost /\ report' = report
      BY <1>6, <2>2 DEF Call
    <3>2. Estimate \in Nat /\ Estimate <= rat.limit /\ cost \in Nat
      BY <2>2, RatConstants DEF Fits, Estimate
    <3>3. /\ rat' \in RatType /\ rat'.cost = cost /\ rat'.at = "paid"
          /\ rat'.limit = rat.limit /\ rat'.replayed = rat.replayed /\ rat'.kept = rat.kept
          /\ rat'.base = rat.base
      BY <1>1, <3>1, <3>2 DEF RatType
    <3> QED
      BY <1>6, <3>1, <3>2, <3>3 DEF Call, At, GoesOn
  <2> QED
    BY <2>1, <2>2
<1>7. CASE HttpFails
  <2>1. report' = [Written EXCEPT !.fatal = "paid", !.cost = 0] /\ rat' = None /\ lost' = lost + rat.cost
    BY <1>7 DEF HttpFails, Ends
  <2>2. /\ report' \in ReportType /\ report'.cost = 0 /\ ~report'.passed /\ ~report'.partial
        /\ report'.head = rat.base /\ report'.replayed = rat.replayed
    BY <1>1, <2>1, WrittenIs DEF ReportType, Fatal
  <2> QED
    BY <1>1, <1>7, <2>1, <2>2 DEF HttpFails, LeavesReport
<1>8. CASE Rejected
  <2>1. Dies("paid") /\ "paid" \in Fatal
    BY <1>8 DEF Rejected, Fatal
  <2> QED
    BY <1>1, <1>8, <2>1, DeathReports DEF Rejected
<1>9. CASE Refused
  <2>1. report' = [Written EXCEPT !.refused = TRUE, !.edits = rat.kept] /\ rat' = None
    BY <1>9 DEF Refused, Ends
  <2>2. /\ report' \in ReportType /\ report'.cost = rat.cost /\ ~report'.passed /\ ~report'.partial
        /\ report'.head = rat.base /\ report'.replayed = rat.replayed
    BY <1>1, <2>1, WrittenIs DEF ReportType
  <2> QED
    BY <1>1, <1>9, <2>1, <2>2 DEF Refused, LeavesReport
<1>10. CASE Validated
  <2>1. PICK edits \in SUBSET Defect, F \in SUBSET Defect, cleared \in BOOLEAN : Judged(edits, F, cleared)
    BY <1>2, <1>10 DEF Validated
  <2> QED
    BY <1>1, <1>10, <2>1, JudgementReports DEF Validated
<1> QED
  BY <1>3, <1>4, <1>5, <1>6, <1>7, <1>8, <1>9, <1>10 DEF RatNext
-----------------------------------------------------------------------------
(* What the session makes of a cycle.                                      *)

\* The thread goes on or ends with w's sum, and holds a foundation only if w
\* did or a partial win gave it one.
Decides(w, won) ==
  /\ worker' \in WorkerType
  /\ worker'.pc \in {"ending", "check"}
  /\ worker'.spent = w.spent
  /\ worker'.retained => w.retained \/ won

\* Leaving the loop keeps the sum and the foundation.
LEMMA LeaveDecides ==
  ASSUME NEW w \in WorkerType, NEW stage, Leave(w, stage)
  PROVE  Decides(w, FALSE) /\ worker'.pc = "ending"
BY DEF Leave, Decides, WorkerType

\* Another round of the loop starts with both as they are.
LEMMA GoOnDecides ==
  ASSUME NEW w \in WorkerType, GoOn(w)
  PROVE  Decides(w, FALSE)
BY DEF GoOn, Decides, WorkerType

\* The packets made of a report are packets.
LEMMA FunnelPackets ==
  ASSUME NEW rep \in ReportType, rep.partial => foundation \in FoundationType, NEW p \in Funnel(rep)
  PROVE  p \in PacketType
<1>1. PICK t \in Defect \cup {None} : p = Feedback(rep, t)
  BY DEF Funnel, ReportType
<1>2. rep.head \in Nat /\ rep.partial \in BOOLEAN /\ (rep.partial => foundation.base \in Nat)
  BY DEF ReportType, FoundationType
<1> QED
  BY <1>1, <1>2 DEF Feedback, PacketType

\* After a partial win.
LEMMA PartialWinDecides ==
  ASSUME NEW w \in WorkerType, NEW rep \in ReportType, rep.partial => foundation \in FoundationType,
         PartialWin(w, rep)
  PROVE  Decides(w, TRUE)
<1>1. Fallback \in PacketType
  BY DEF Fallback, PacketType
<1>2. ASSUME NEW p \in PacketType, GoOn([w EXCEPT !.retained = TRUE, !.packet = p])
      PROVE  Decides(w, TRUE)
  <2>1. [w EXCEPT !.retained = TRUE, !.packet = p] \in WorkerType
        /\ [w EXCEPT !.retained = TRUE, !.packet = p].spent = w.spent
    BY DEF WorkerType
  <2> QED
    BY <1>2, <2>1, GoOnDecides DEF Decides
<1>3. ASSUME Leave([w EXCEPT !.retained = TRUE], "NEEDS_OWNER")
      PROVE  Decides(w, TRUE)
  <2>1. [w EXCEPT !.retained = TRUE] \in WorkerType /\ [w EXCEPT !.retained = TRUE].spent = w.spent
    BY DEF WorkerType
  <2> QED
    BY <1>3, <2>1, LeaveDecides DEF Decides
<1> QED
  BY <1>1, <1>2, <1>3, FunnelPackets DEF PartialWin

\* After a refusal.
LEMMA RefusalDecides ==
  ASSUME NEW w \in WorkerType, Refusal(w)
  PROVE  Decides(w, FALSE)
<1>1. /\ [w EXCEPT !.reason = TRUE] \in WorkerType
      /\ [w EXCEPT !.reason = TRUE].spent = w.spent
      /\ [w EXCEPT !.reason = TRUE].retained = w.retained
  BY DEF WorkerType
<1> QED
  BY <1>1, LeaveDecides, GoOnDecides DEF Refusal, Decides

\* After any other failed cycle.
LEMMA DiagnosedDecides ==
  ASSUME NEW w \in WorkerType, NEW rep \in ReportType, rep.partial => foundation \in FoundationType,
         Diagnosed(w, rep)
  PROVE  Decides(w, FALSE)
<1>1. ASSUME NEW p \in Funnel(rep)
      PROVE  LET n == [Repeats(w, rep) EXCEPT !.packet = p] IN
             n \in WorkerType /\ n.spent = w.spent /\ n.retained = w.retained
  <2>1. p \in PacketType
    BY FunnelPackets
  <2>2. /\ Repeats(w, rep) \in WorkerType /\ Repeats(w, rep).spent = w.spent
        /\ Repeats(w, rep).retained = w.retained
    <3>1. rep.failing \in SUBSET Defect /\ w.same \in Nat
      BY DEF ReportType, WorkerType
    <3>2. CASE rep.failing = w.signature
      BY <3>1, <3>2 DEF Repeats, WorkerType
    <3>3. CASE rep.failing # w.signature
      BY <3>1, <3>3 DEF Repeats, WorkerType
    <3> QED
      BY <3>2, <3>3
  <2> HIDE DEF Repeats
  <2> QED
    BY <2>1, <2>2 DEF WorkerType
<1>2. CASE Leave(w, "NEEDS_OWNER")
  BY <1>2, LeaveDecides
<1>3. ASSUME NEW n \in WorkerType, n.spent = w.spent, n.retained = w.retained,
             \/ Leave(n, "NEEDS_OWNER")
             \/ worker' = [n EXCEPT !.pc = "ending"]
             \/ GoOn(n)
      PROVE  Decides(w, FALSE)
  <2>1. CASE worker' = [n EXCEPT !.pc = "ending"]
    BY <1>3, <2>1 DEF Decides, WorkerType
  <2>2. CASE Leave(n, "NEEDS_OWNER")
    BY <1>3, <2>2, LeaveDecides DEF Decides
  <2>3. CASE GoOn(n)
    BY <1>3, <2>3, GoOnDecides DEF Decides
  <2> QED
    BY <1>3, <2>1, <2>2, <2>3
<1>4. CASE \E p \in Funnel(rep) :
             LET n == [Repeats(w, rep) EXCEPT !.packet = p] IN
               \/ Leave(n, "NEEDS_OWNER")
               \/ worker' = [n EXCEPT !.pc = "ending"]
               \/ GoOn(n)
  <2>1. PICK p \in Funnel(rep) :
          LET n == [Repeats(w, rep) EXCEPT !.packet = p] IN
            \/ Leave(n, "NEEDS_OWNER")
            \/ worker' = [n EXCEPT !.pc = "ending"]
            \/ GoOn(n)
    BY <1>4
  <2>2. PICK n \in WorkerType : n = [Repeats(w, rep) EXCEPT !.packet = p]
    BY <1>1
  <2> QED
    BY <1>1, <1>3, <2>1, <2>2
<1> QED
  BY <1>2, <1>4, Zenon DEF Diagnosed

\* The end of a cycle: what the session has read it has counted.
LEMMA CycleEffect ==
  ASSUME SessionInv, CycleEnds
  PROVE  /\ worker.pc = "build" /\ rat = None
         /\ worker' \in WorkerType /\ worker'.pc \in {"ending", "check"}
         /\ worker'.spent >= worker.spent
         /\ worker.new => worker'.spent = worker.spent + report.cost
         /\ worker'.retained => worker.retained \/ (report # None /\ report.partial)
         /\ poisoned => worker'.pc = "ending"
         /\ proven' \subseteq FoundationType
<1>1. /\ worker.pc = "build" /\ worker.child \in {"failed", "published"} /\ rat = None
      /\ worker \in WorkerType /\ worker.spent \in Nat
      /\ report \in ReportType \cup {None} /\ proven \subseteq FoundationType
      /\ worker.new => report # None
      /\ report # None /\ report.partial => foundation \in FoundationType
  BY DEF CycleEnds, SessionInv, SessionTypeOK, Invocation, OwnReport, FoundationKnown, Is, WorkerType
<1>2. PICK rep \in Picked :
        LET w == IF rep = None THEN worker ELSE [worker EXCEPT !.spent = @ + rep.cost] IN
          IF rep = None THEN
            /\ Leave(w, IF worker.child = "published" THEN "DRAFT_READY" ELSE "NEEDS_OWNER")
            /\ UNCHANGED proven
          ELSE
            /\ IF worker.child = "published" THEN Leave(w, "DRAFT_READY")
               ELSE IF IsFatal(rep) THEN Leave(w, FatalStage(rep))
               ELSE IF rep.partial THEN PartialWin(w, rep)
               ELSE IF rep.refused THEN Refusal(w)
               ELSE Diagnosed(w, rep)
            /\ proven' \in Teaches(rep)
  BY DEF CycleEnds
<1>3. rep \in {None, report} /\ (worker.new => rep = report)
  BY <1>2 DEF Picked
<1>4. CASE rep = None
  <2>1. PICK v \in WorkerType : v = worker
    BY <1>1
  <2>2. \E stage : Leave(v, stage)
    BY <1>2, <1>4, <2>1
  <2>3. Decides(v, FALSE) /\ worker'.pc = "ending"
    BY <2>2, LeaveDecides
  <2> QED
    BY <1>1, <1>2, <1>3, <1>4, <2>1, <2>3 DEF Decides
<1>5. CASE rep # None
  <2>1. rep = report /\ rep \in ReportType /\ rep.cost \in Nat
    BY <1>1, <1>3, <1>5 DEF ReportType
  <2>2. PICK w \in WorkerType : w = [worker EXCEPT !.spent = worker.spent + rep.cost]
    <3>1. worker.spent + rep.cost \in Nat
      BY <1>1, <2>1
    <3>2. [worker EXCEPT !.spent = worker.spent + rep.cost] \in WorkerType
      BY <1>1, <3>1 DEF WorkerType
    <3> QED
      BY <3>2
  <2>3. w.spent = worker.spent + rep.cost /\ w.retained = worker.retained
    BY <1>1, <2>2 DEF WorkerType
  <2>4. /\ IF worker.child = "published" THEN Leave(w, "DRAFT_READY")
           ELSE IF IsFatal(rep) THEN Leave(w, FatalStage(rep))
           ELSE IF rep.partial THEN PartialWin(w, rep)
           ELSE IF rep.refused THEN Refusal(w)
           ELSE Diagnosed(w, rep)
        /\ proven' \in Teaches(rep)
    BY <1>2, <1>5, <2>2
  <2>5. Decides(w, rep.partial) /\ (worker.child = "published" \/ IsFatal(rep) => worker'.pc = "ending")
    <3>1. CASE worker.child = "published" \/ IsFatal(rep)
      <4>1. PICK stage : Leave(w, stage)
        BY <2>4, <3>1
      <4> QED
        BY <4>1, LeaveDecides DEF Decides
    <3>2. CASE ~(worker.child = "published" \/ IsFatal(rep)) /\ rep.partial
      <4>1. PartialWin(w, rep) /\ (rep.partial => foundation \in FoundationType)
        BY <1>1, <1>5, <2>1, <2>4, <3>2
      <4>2. Decides(w, TRUE)
        BY <2>1, <4>1, PartialWinDecides
      <4> QED
        BY <3>2, <4>2 DEF Decides
    <3>3. CASE ~(worker.child = "published" \/ IsFatal(rep)) /\ ~rep.partial /\ rep.refused
      BY <2>4, <3>3, RefusalDecides DEF Decides
    <3>4. CASE ~(worker.child = "published" \/ IsFatal(rep)) /\ ~rep.partial /\ ~rep.refused
      BY <2>4, <2>1, <3>4, DiagnosedDecides DEF Decides
    <3> QED
      BY <3>1, <3>2, <3>3, <3>4
  <2>6. poisoned => worker'.pc = "ending"
    BY <1>1, <2>1, <2>5 DEF SessionInv, PoisonEnds, Is, IsFatal
  <2>7. proven' \subseteq FoundationType
    BY <1>1, <2>1, <2>4 DEF Teaches, Learned, FoundationType, ReportType
  <2>8. /\ worker' \in WorkerType /\ worker'.pc \in {"ending", "check"}
        /\ worker'.spent = worker.spent + report.cost
        /\ worker'.retained => worker.retained \/ report.partial
    BY <2>1, <2>3, <2>5 DEF Decides
  <2>9. worker'.spent >= worker.spent
    BY <1>1, <2>1, <2>8
  <2> QED
    BY <1>1, <1>5, <2>1, <2>6, <2>7, <2>8, <2>9
<1> QED
  BY <1>4, <1>5
-----------------------------------------------------------------------------
(* The invariant.                                                          *)

\* No session, no cost.
LEMMA OffIs == Off \in WorkerType /\ Off.pc = "off" /\ Off.child = "none" /\ ~Off.retained
<1>1. 0 \in Nat /\ None \in (SUBSET Defect) \cup {None} /\ None \in PacketType \cup {None}
  OBVIOUS
<1>2. Off \in WorkerType
  BY <1>1 DEF Off, WorkerType
<1> QED
  BY <1>2 DEF Off

\* The first state satisfies the invariant.
LEMMA InitSessionInv == SessionInit => SessionInv
<1> SUFFICES ASSUME SessionInit PROVE SessionInv
  OBVIOUS
<1>1. SessionTypeOK
  BY OffIs, RatConstants DEF SessionInit, RatInit, SessionTypeOK
<1>2. Invocation /\ OwnReport /\ FoundationKnown /\ BillCovered /\ StopSeen /\ PoisonEnds
  BY OffIs DEF SessionInit, RatInit, Invocation, OwnReport, FoundationKnown, BillCovered, StopSeen,
     PoisonEnds, Is
<1>3. OneCallOver /\ StopHonoured
  BY SessionConstants, RatConstants DEF SessionInit, RatInit, OneCallOver, StopHonoured
<1> QED
  BY <1>1, <1>2, <1>3 DEF SessionInv

\* A step of the thread between its children leaves Repair Rat's files and the
\* bill alone; it may end, or go on with the same sum and foundation.
LEMMA ThreadStep ==
  ASSUME SessionInv, UNCHANGED <<rat, report, foundation, proven, bill, lost, poisoned>>,
         head' \in Nat, stop' \in BOOLEAN, asked' \in {"no", "early", "late"}, unheeded' \in Nat,
         worker' \in WorkerType, rat = None,
         \/ worker'.pc = "off" /\ ~worker'.retained
         \/ /\ worker.pc # "off"
            /\ worker'.spent = worker.spent /\ worker'.retained = worker.retained
            /\ worker'.pc = "build" /\ worker'.new => worker.pc = "build" /\ worker.new
                                                      /\ worker'.child \notin {"none", "controller", "rat"}
            /\ worker.pc = "build" /\ worker.new => worker'.pc = "build" /\ worker'.new
            /\ poisoned => worker'.pc = "ending",
         StopSeen', StopHonoured'
  PROVE  SessionInv'
<1>1. SessionTypeOK'
  BY DEF SessionInv, SessionTypeOK
<1>2. Invocation' /\ OwnReport' /\ FoundationKnown' /\ OneCallOver'
  BY DEF SessionInv, Invocation, OwnReport, FoundationKnown, OneCallOver
<1>3. BillCovered'
  BY DEF SessionInv, BillCovered, Untold
<1>4. PoisonEnds'
  BY DEF SessionInv, PoisonEnds, Is
<1> QED
  BY <1>1, <1>2, <1>3, <1>4 DEF SessionInv

\* Losing more leaves less to be told.
LEMMA LessTold ==
  ASSUME NEW b \in Int, NEW l \in Int, NEW more \in Int, NEW limit \in Int, more >= l, b - l <= limit
  PROVE  b - more <= limit
OBVIOUS

\* Every step keeps the invariant.
LEMMA NextSessionInv ==
  ASSUME SessionInv, [SessionNext]_vars
  PROVE  SessionInv'
<1>0. /\ worker \in WorkerType /\ head \in Nat /\ bill \in Nat /\ lost \in Nat /\ unheeded \in Nat
      /\ stop \in BOOLEAN /\ poisoned \in BOOLEAN /\ asked \in {"no", "early", "late"} /\ worker.spent \in Nat /\ worker.cycle \in Nat
      /\ rat \in RatType \cup {None} /\ report \in ReportType \cup {None}
      /\ foundation \in FoundationType \cup {None} /\ proven \subseteq FoundationType
  BY DEF SessionInv, SessionTypeOK, WorkerType
<1>1. CASE Start
  <2>1. rat = None /\ worker' \in WorkerType /\ worker'.pc = "starting" /\ ~worker'.retained
        /\ worker'.child = "none" /\ worker'.spent = 0
    BY <1>1, OffIs DEF Start, Off, WorkerType, SessionInv, Invocation, Is
  <2>2. SessionTypeOK'
    BY <1>0, <1>1, <2>1 DEF Start, SessionTypeOK
  <2>3. bill' = 0 /\ lost' = 0 /\ rat' = None /\ Budget \in Nat /\ Excess \in Nat
    BY <1>1, <2>1, SessionConstants, RatConstants DEF Start
  <2>4. OneCallOver' /\ BillCovered'
    BY <2>1, <2>3 DEF OneCallOver, BillCovered, Untold
  <2>5. Invocation' /\ OwnReport' /\ FoundationKnown' /\ StopSeen' /\ StopHonoured' /\ PoisonEnds'
    BY <1>1, <2>1 DEF Start, SessionInv, Invocation, OwnReport, FoundationKnown, StopSeen, StopHonoured,
       PoisonEnds, Is
  <2> QED
    BY <2>2, <2>4, <2>5 DEF SessionInv
<1>2. CASE Stop
  <2>1. SessionTypeOK' /\ StopSeen' /\ StopHonoured'
    BY <1>2 DEF Stop, SessionInv, SessionTypeOK, StopSeen, StopHonoured, Is
  <2>2. Invocation' /\ OwnReport' /\ FoundationKnown' /\ BillCovered' /\ OneCallOver' /\ PoisonEnds'
    BY <1>2 DEF Stop, SessionInv, Invocation, OwnReport, FoundationKnown, BillCovered, Untold, OneCallOver,
       PoisonEnds, Is
  <2> QED
    BY <2>1, <2>2 DEF SessionInv
<1>3. CASE HeadMoves
  <2>1. SessionTypeOK'
    BY <1>3 DEF HeadMoves, SessionInv, SessionTypeOK
  <2>2. /\ Invocation' /\ OwnReport' /\ FoundationKnown' /\ BillCovered' /\ OneCallOver' /\ StopSeen'
        /\ StopHonoured' /\ PoisonEnds'
    BY <1>3 DEF HeadMoves, SessionInv, Invocation, OwnReport, FoundationKnown, BillCovered, Untold, OneCallOver,
       StopSeen, StopHonoured, PoisonEnds, Is
  <2> QED
    BY <2>1, <2>2 DEF SessionInv
<1>4. CASE Starting
  <2>1. PICK p \in PacketType \cup {None} : worker' = [worker EXCEPT !.pc = "check", !.packet = p]
    <3>1. Bootstrap \subseteq PacketType
      <4>1. ASSUME NEW h \in 1 .. head, NEW t \in Defect
            PROVE  [sha |-> h, partial |-> FALSE, base |-> h, target |-> t] \in PacketType
        BY <1>0 DEF PacketType
      <4> QED
        BY <4>1 DEF Bootstrap
    <3> QED
      BY <1>4, <3>1 DEF Starting
  <2>2. /\ worker' \in WorkerType /\ worker'.pc = "check" /\ worker'.spent = worker.spent
        /\ worker'.retained = worker.retained
    BY <1>0, <2>1 DEF WorkerType
  <2>3. rat = None /\ ~poisoned
    BY <1>4 DEF Starting, SessionInv, Invocation, PoisonEnds, Is
  <2>4. StopSeen' /\ StopHonoured'
    BY <1>4, <2>2 DEF Starting, SessionInv, StopSeen, StopHonoured, Is
  <2> QED
    BY <1>0, <1>4, <2>2, <2>3, <2>4, ThreadStep DEF Starting, sideVars
<1>5. CASE NotReady \/ Ending \/ WorkerCrash
  <2>1. /\ worker' = Off /\ UNCHANGED <<stop, asked, unheeded>> /\ UNCHANGED sideVars
        /\ rat = None
    BY <1>5 DEF NotReady, Ending, WorkerCrash, SessionInv, Invocation, Is
  <2>2. StopSeen' /\ StopHonoured'
    BY <2>1, OffIs DEF SessionInv, StopSeen, StopHonoured, Is
  <2>3. worker' \in WorkerType /\ worker'.pc = "off" /\ ~worker'.retained
    BY <2>1, OffIs
  <2>4. /\ UNCHANGED <<rat, report, foundation, proven, bill, lost, poisoned>>
        /\ head' \in Nat /\ stop' \in BOOLEAN /\ unheeded' \in Nat /\ asked' \in {"no", "early", "late"}
    BY <1>0, <2>1 DEF sideVars
  <2> QED
    BY <2>1, <2>2, <2>3, <2>4, ThreadStep
<1>6. CASE TimeUp
  <2>1. /\ worker' \in WorkerType /\ worker'.pc = "ending" /\ worker'.spent = worker.spent
        /\ worker'.retained = worker.retained /\ worker.pc = "check"
    BY <1>0, <1>6 DEF TimeUp, WorkerType, Is
  <2>2. rat = None /\ StopSeen' /\ StopHonoured'
    BY <1>6, <2>1 DEF TimeUp, SessionInv, Invocation, StopSeen, StopHonoured, Is
  <2> QED
    BY <1>0, <1>6, <2>1, <2>2, ThreadStep DEF TimeUp, sideVars
<1>7. CASE LoopCheck
  <2>1. worker.pc = "check" /\ rat = None /\ ~poisoned
    BY <1>7 DEF LoopCheck, SessionInv, Invocation, PoisonEnds, Is
  <2>2. CASE worker' = [worker EXCEPT !.pc = "ending"]
    <3>1. /\ worker' \in WorkerType /\ worker'.pc = "ending" /\ worker'.spent = worker.spent
          /\ worker'.retained = worker.retained
      BY <1>0, <2>2 DEF WorkerType
    <3>2. StopSeen' /\ StopHonoured'
      BY <1>7, <3>1 DEF LoopCheck, SessionInv, StopSeen, StopHonoured, Is
    <3> QED
      BY <1>0, <1>7, <2>1, <3>1, <3>2, ThreadStep DEF LoopCheck, sideVars
  <2>3. CASE /\ worker' = [worker EXCEPT !.pc = "build", !.cycle = @ + 1, !.new = FALSE, !.older = worker.new]
             /\ ~stop
    <3>1. /\ worker' \in WorkerType /\ worker'.pc = "build" /\ worker'.spent = worker.spent
          /\ worker'.retained = worker.retained /\ ~worker'.new
      <4>1. PICK n \in Nat, b \in BOOLEAN : n = worker.cycle + 1 /\ b = worker.new
        BY <1>0 DEF WorkerType
      <4>2. worker' = [worker EXCEPT !.pc = "build", !.cycle = n, !.new = FALSE, !.older = b]
        BY <2>3, <4>1
      <4> QED
        BY <1>0, <4>2 DEF WorkerType
    <3>2. StopSeen' /\ StopHonoured'
      BY <1>0, <1>7, <2>3 DEF LoopCheck, SessionInv, StopSeen, StopHonoured
    <3> QED
      BY <1>0, <1>7, <2>1, <3>1, <3>2, ThreadStep DEF LoopCheck, sideVars
  <2> QED
    BY <1>7, <2>2, <2>3 DEF LoopCheck, Leave, Stops
<1>8. CASE Build
  <2>1. /\ worker' \in WorkerType /\ worker'.pc = "build" /\ worker'.spent = worker.spent
        /\ worker'.retained = worker.retained /\ worker'.new = worker.new /\ worker'.child = "controller"
        /\ worker.pc = "build" /\ worker.child = "none"
    BY <1>0, <1>8 DEF Build, WorkerType, Is
  <2>2. rat = None /\ ~poisoned /\ ~worker.new
    BY <2>1 DEF SessionInv, Invocation, PoisonEnds, OwnReport, Is
  <2>3. unheeded' \in Nat /\ StopSeen' /\ StopHonoured'
    BY <1>0, <1>8, <2>1 DEF Build, SessionInv, StopSeen, StopHonoured, Is
  <2> QED
    BY <1>0, <1>8, <2>1, <2>2, <2>3, ThreadStep DEF Build, sideVars
<1>9. CASE CycleEnds
  <2>1. StopSeen' /\ StopHonoured' /\ SessionTypeOK'
    BY <1>0, <1>9, CycleEffect DEF CycleEnds, SessionInv, SessionTypeOK, StopSeen, StopHonoured, Is
  <2>2. Invocation' /\ OwnReport' /\ FoundationKnown' /\ OneCallOver' /\ PoisonEnds'
    BY <1>9, CycleEffect DEF CycleEnds, SessionInv, Invocation, OwnReport, FoundationKnown, OneCallOver, PoisonEnds
  <2>3. BillCovered'
    <3>1. worker'.spent \in Nat /\ (worker.new => report.cost \in Nat)
      BY <1>0, <1>9, CycleEffect DEF SessionInv, OwnReport, WorkerType, ReportType
    <3>2. /\ rat = None /\ rat' = None /\ bill' = bill /\ lost' = lost /\ worker'.pc # "build"
          /\ worker.pc = "build" /\ worker'.spent >= worker.spent
          /\ worker.new => worker'.spent = worker.spent + report.cost
      BY <1>9, CycleEffect DEF CycleEnds
    <3>3. bill - lost <= worker.spent + (IF worker.new THEN report.cost ELSE 0)
      BY <3>2 DEF SessionInv, BillCovered, Untold
    <3> QED
      BY <1>0, <3>1, <3>2, <3>3 DEF BillCovered, Untold
  <2> QED
    BY <2>1, <2>2, <2>3 DEF SessionInv
<1>10. CASE ControllerFails \/ \E ok \in BOOLEAN : Review(ok)
  <2>1. PICK ch \in {"failed", "published"} :
          /\ worker' = [worker EXCEPT !.child = ch]
          /\ UNCHANGED <<stop, asked, unheeded>> /\ UNCHANGED sideVars
          /\ worker.pc = "build" /\ worker.child \in {"controller", "review"}
    BY <1>10 DEF ControllerFails, Review, Is
  <2>2. /\ worker' \in WorkerType /\ worker'.pc = "build" /\ worker'.spent = worker.spent
        /\ worker'.retained = worker.retained /\ worker'.new = worker.new /\ worker'.child = ch
    BY <1>0, <2>1 DEF WorkerType
  <2>3. rat = None /\ ~poisoned /\ StopSeen' /\ StopHonoured'
    BY <2>1, <2>2 DEF SessionInv, Invocation, PoisonEnds, StopSeen, StopHonoured, Is
  <2> QED
    BY <1>0, <2>1, <2>2, <2>3, ThreadStep DEF sideVars
<1>11. CASE RatBegins
  <2>1. /\ rat = None /\ Is("build", "controller") /\ ~worker.new /\ ~poisoned
        /\ UNCHANGED <<head, foundation, proven, bill, lost, stop, asked, unheeded>>
        /\ bill - lost <= worker.spent
    BY <1>0, <1>11 DEF RatBegins, Begin, SessionInv, OwnReport, PoisonEnds, BillCovered, Untold, Is
  <2>2. CASE worker.retained /\ ~Replays
    <3>1. rat' = None /\ report' = [Blank EXCEPT !.fatal = "infra"]
      BY <1>11, <2>1, <2>2 DEF RatBegins, Begin
    <3>2. report' \in ReportType /\ report'.cost = 0 /\ report'.fatal = "infra" /\ ~report'.partial
      BY <1>0, <3>1 DEF Blank, ReportType, Fatal
    <3>3. worker' = [worker EXCEPT !.child = "failed", !.new = TRUE] /\ poisoned' = TRUE
      BY <1>11, <3>1 DEF RatBegins
    <3>4. /\ worker' \in WorkerType /\ worker'.pc = "build" /\ worker'.child = "failed" /\ worker'.new
          /\ worker'.spent = worker.spent /\ worker'.retained = worker.retained
      BY <1>0, <2>1, <3>3 DEF WorkerType, Is
    <3>5. SessionTypeOK'
      BY <1>0, <2>1, <3>1, <3>2, <3>3, <3>4 DEF SessionTypeOK
    <3>6. Invocation' /\ OwnReport' /\ FoundationKnown' /\ PoisonEnds'
      BY <2>1, <3>1, <3>2, <3>4, NoneIsNothing DEF SessionInv, Invocation, OwnReport, FoundationKnown, PoisonEnds, Is, Fatal
    <3>7. OneCallOver' /\ BillCovered'
      BY <1>0, <2>1, <3>1, <3>2, <3>4 DEF SessionInv, OneCallOver, BillCovered, Untold
    <3>8. StopSeen' /\ StopHonoured'
      BY <2>1, <3>4 DEF SessionInv, StopSeen, StopHonoured, Is
    <3> QED
      BY <3>5, <3>6, <3>7, <3>8 DEF SessionInv
  <2>3. CASE ~(worker.retained /\ ~Replays)
    <3>1. PICK focused \in BOOLEAN, target \in Defect \cup {None}, limit \in Int :
            /\ rat' = [at |-> "playbook", base |-> head, replayed |-> worker.retained,
                       kept |-> IF worker.retained THEN foundation.edits ELSE {},
                       focused |-> focused, target |-> target, limit |-> limit, cost |-> 0]
            /\ limit = Budget - worker.spent
            /\ report' = report
      <4>1. Accepts(worker.packet, worker.retained) \in BOOLEAN
        BY DEF Accepts
      <4>2. Accepts(worker.packet, worker.retained) => worker.packet.target \in Defect \cup {None}
        BY <1>0 DEF Accepts, WorkerType, PacketType
      <4> QED
        BY <1>0, <1>11, <2>3, <4>1, <4>2, SessionConstants DEF RatBegins, Begin
    <3>2. PICK kept \in SUBSET Defect, replayed \in BOOLEAN :
            /\ replayed = worker.retained
            /\ kept = IF worker.retained THEN foundation.edits ELSE {}
      BY <1>0 DEF SessionInv, FoundationKnown, FoundationType, WorkerType
    <3>3. rat' = [at |-> "playbook", base |-> head, replayed |-> replayed, kept |-> kept,
                  focused |-> focused, target |-> target, limit |-> limit, cost |-> 0]
      BY <3>1, <3>2
    <3>4. /\ rat' \in RatType /\ rat'.at = "playbook" /\ rat'.replayed = replayed
          /\ rat'.kept = kept /\ rat'.base = head /\ rat'.limit = limit /\ rat'.cost = 0
          /\ replayed => foundation.base = head
      BY <1>0, <2>3, <3>1, <3>2, <3>3, SessionConstants DEF RatType, Replays
    <3>5. rat' # None
      BY <3>4, NoneIsNothing
    <3>6. worker' = [worker EXCEPT !.child = "rat"] /\ poisoned' = FALSE
      BY <1>11, <2>1, <3>5 DEF RatBegins
    <3>7. /\ worker' \in WorkerType /\ worker'.pc = "build" /\ worker'.child = "rat" /\ ~worker'.new
          /\ worker'.spent = worker.spent /\ worker'.retained = worker.retained
      BY <1>0, <2>1, <3>6 DEF WorkerType, Is
    <3>8. SessionTypeOK'
      BY <1>0, <2>1, <3>1, <3>4, <3>6, <3>7 DEF SessionTypeOK
    <3>9. Invocation' /\ OwnReport' /\ FoundationKnown' /\ PoisonEnds'
      BY <2>1, <3>1, <3>2, <3>4, <3>6, <3>7 DEF SessionInv, Invocation, OwnReport, FoundationKnown, PoisonEnds, Is
    <3>10. OneCallOver' /\ BillCovered'
      BY <1>0, <2>1, <3>4, <3>5, <3>7 DEF SessionInv, OneCallOver, BillCovered, Untold
    <3>11. StopSeen' /\ StopHonoured'
      BY <2>1, <3>7 DEF SessionInv, StopSeen, StopHonoured, Is
    <3> QED
      BY <3>8, <3>9, <3>10, <3>11 DEF SessionInv
  <2> QED
    BY <2>2, <2>3
<1>12. CASE RatRuns
  <2>1. /\ rat # None /\ rat \in RatType /\ Is("build", "rat") /\ ~worker.new /\ ~poisoned
        /\ UNCHANGED <<stop, asked, unheeded>>
        /\ bill - lost <= worker.spent + rat.cost /\ rat.cost \in Nat /\ rat.limit = Budget - worker.spent
        /\ rat.at # "paid" => rat.cost = 0
    <3>1. rat # None
      BY <1>12, RunsInside
    <3> QED
      BY <1>0, <1>12, <3>1 DEF RatRuns, SessionInv, Invocation, OwnReport, PoisonEnds, BillCovered, Untold, Is, RatType
  <2>2. head' = head /\ proven' = proven /\ (GoesOn \/ LeavesReport)
    BY <1>12, <2>1, RatEffect DEF RatRuns
  <2>3. CASE GoesOn
    <3>1. rat' # None /\ worker' = worker /\ poisoned' = poisoned
      BY <1>12, <2>3, NoneIsNothing DEF GoesOn, RatRuns
    <3>2. rat' \in RatType /\ rat'.cost \in Nat /\ bill' \in Nat
      BY <1>0, <2>1, <2>3 DEF GoesOn, RatType
    <3>3. SessionTypeOK'
      BY <1>0, <2>1, <2>2, <2>3, <3>1, <3>2 DEF GoesOn, SessionTypeOK
    <3>4. Invocation'
      BY <2>1, <2>3, <3>1 DEF GoesOn, SessionInv, Invocation, Is
    <3>5. OwnReport' /\ FoundationKnown' /\ PoisonEnds'
      BY <2>1, <2>3, <3>1 DEF GoesOn, SessionInv, OwnReport, FoundationKnown, PoisonEnds
    <3>6. bill' - lost' <= worker.spent + rat'.cost /\ bill' - lost' <= Budget + Excess
      <4>1. CASE rat'.cost = rat.cost /\ bill' = bill
        BY <2>1, <2>3, <4>1 DEF GoesOn, SessionInv, OneCallOver
      <4>2. CASE /\ rat.at = "call" /\ Estimate \in Nat /\ Estimate <= rat.limit
                 /\ rat'.cost \in 1 .. Estimate + Excess /\ bill' = bill + rat'.cost
        <5>1. /\ rat.cost = 0 /\ rat'.cost <= Budget - worker.spent + Excess /\ lost' = lost
              /\ Budget \in Nat /\ Excess \in Nat
          BY <1>0, <2>1, <2>3, <3>2, <4>2, SessionConstants, RatConstants DEF GoesOn
        <5> QED
          BY <1>0, <2>1, <3>2, <4>2, <5>1
      <4> QED
        BY <2>3, <4>1, <4>2 DEF GoesOn
    <3>7. OneCallOver' /\ BillCovered'
      BY <3>1, <3>6 DEF OneCallOver, BillCovered, Untold
    <3>8. StopSeen' /\ StopHonoured'
      BY <2>1, <3>1 DEF SessionInv, StopSeen, StopHonoured, Is
    <3> QED
      BY <3>3, <3>4, <3>5, <3>7, <3>8 DEF SessionInv
  <2>4. CASE LeavesReport
    <3>1. PICK ch \in {"review", "failed"} :
            worker' = [worker EXCEPT !.child = ch, !.new = TRUE] /\ (ch = "review" => report'.passed)
      BY <1>12, <2>4 DEF LeavesReport, RatRuns, After
    <3>2. /\ worker' \in WorkerType /\ worker'.pc = "build" /\ worker'.child = ch /\ worker'.new
          /\ worker'.spent = worker.spent /\ worker'.retained = worker.retained
      BY <1>0, <2>1, <3>1 DEF WorkerType, Is
    <3>3. poisoned' = (report'.fatal # None) /\ report' # None /\ report'.cost \in Nat
      BY <1>12, <2>1, <2>4, NoneIsNothing DEF LeavesReport, RatRuns, Poisons, ReportType
    <3>4. SessionTypeOK'
      BY <1>0, <2>1, <2>2, <2>4, <3>2, <3>3 DEF LeavesReport, SessionTypeOK
    <3>5. Invocation' /\ OwnReport' /\ FoundationKnown'
      BY <2>4, <3>2, <3>3, NoneIsNothing DEF LeavesReport, SessionInv, Invocation, OwnReport, FoundationKnown
    <3>6. PoisonEnds'
      BY <2>4, <3>1, <3>2, <3>3 DEF LeavesReport, PoisonEnds, Is
    <3>7. OneCallOver' /\ BillCovered'
      <4>1. /\ bill' = bill /\ lost' \in Nat /\ lost' >= lost /\ rat' = None
            /\ lost' + report'.cost = lost + rat.cost
            /\ bill - lost <= Budget + Excess /\ Budget \in Nat /\ Excess \in Nat
        BY <2>4, SessionConstants, RatConstants DEF LeavesReport, SessionInv, OneCallOver
      <4>2. bill' - lost' <= worker'.spent + report'.cost
        BY <1>0, <2>1, <3>2, <3>3, <4>1
      <4>3. bill' - lost' <= Budget + Excess
        <5>1. bill \in Int /\ lost \in Int /\ lost' \in Int /\ Budget + Excess \in Int
          BY <1>0, <4>1
        <5>2. bill' = bill /\ lost' >= lost /\ bill - lost <= Budget + Excess
          BY <4>1
        <5>3. bill - lost' <= Budget + Excess
          BY <5>1, <5>2, LessTold
        <5> QED
          BY <5>2, <5>3
      <4> QED
        BY <3>2, <4>1, <4>2, <4>3 DEF OneCallOver, BillCovered, Untold
    <3>8. StopSeen' /\ StopHonoured'
      BY <2>1, <3>2 DEF SessionInv, StopSeen, StopHonoured, Is
    <3> QED
      BY <3>4, <3>5, <3>6, <3>7, <3>8 DEF SessionInv
  <2> QED
    BY <2>2, <2>3, <2>4
<1>13. CASE RatKilled
  <2>1. /\ rat \in RatType /\ rat.cost \in Nat /\ rat' = None /\ lost' = lost + rat.cost
        /\ UNCHANGED <<head, report, foundation, proven, bill, stop, asked, unheeded, poisoned>>
        /\ Is("build", "rat") /\ ~worker.new /\ ~poisoned
        /\ bill - lost <= worker.spent + rat.cost
    BY <1>0, <1>13 DEF RatKilled, Killed, SessionInv, OwnReport, PoisonEnds, BillCovered, Untold, Is, RatType
  <2>2. /\ worker' \in WorkerType /\ worker'.pc = "build" /\ worker'.child = "failed" /\ ~worker'.new
        /\ worker'.spent = worker.spent /\ worker'.retained = worker.retained
    BY <1>0, <1>13, <2>1 DEF RatKilled, WorkerType, Is
  <2>3. SessionTypeOK'
    BY <1>0, <2>1, <2>2 DEF SessionTypeOK
  <2>4. Invocation' /\ OwnReport' /\ FoundationKnown' /\ PoisonEnds'
    BY <2>1, <2>2 DEF SessionInv, Invocation, OwnReport, FoundationKnown, PoisonEnds
  <2>5. OneCallOver' /\ BillCovered'
    BY <1>0, <2>1, <2>2, SessionConstants, RatConstants DEF SessionInv, OneCallOver, BillCovered, Untold
  <2>6. StopSeen' /\ StopHonoured'
    BY <2>1, <2>2 DEF SessionInv, StopSeen, StopHonoured, Is
  <2> QED
    BY <2>3, <2>4, <2>5, <2>6 DEF SessionInv
<1>14. CASE UNCHANGED vars
  <2>1. SessionTypeOK'
    BY <1>14 DEF vars, SessionInv, SessionTypeOK
  <2>2. /\ Invocation' /\ OwnReport' /\ FoundationKnown' /\ BillCovered' /\ OneCallOver' /\ StopSeen'
        /\ StopHonoured' /\ PoisonEnds'
    BY <1>14 DEF vars, SessionInv, Invocation, OwnReport, FoundationKnown, BillCovered, Untold, OneCallOver,
       StopSeen, StopHonoured, PoisonEnds, Is
  <2> QED
    BY <2>1, <2>2 DEF SessionInv
<1> QED
  BY <1>1, <1>2, <1>3, <1>4, <1>5, <1>6, <1>7, <1>8, <1>9, <1>10, <1>11, <1>12, <1>13, <1>14
     DEF SessionNext, Thread, Children

\* So every state of a session does.
LEMMA AlwaysSessionInv == SessionSpec => []SessionInv
<1>1. SessionInv /\ [SessionNext]_vars => SessionInv'
  BY NextSessionInv
<1> QED
  BY <1>1, InitSessionInv, PTL DEF SessionSpec
-----------------------------------------------------------------------------
(* The theorems.                                                           *)

\* Type correctness of the session, the invocation and the files they leave.
THEOREM SessionTypeCorrect == SessionSpec => []SessionTypeOK
<1>1. SessionInv => SessionTypeOK
  BY DEF SessionInv
<1> QED
  BY <1>1, AlwaysSessionInv, PTL

\* The steps that charge the session or write a report are Repair Rat's.
LEMMA OnlyRatCharges ==
  ASSUME SessionInv, [SessionNext]_vars
  PROVE  \/ bill' \in {0, bill} /\ report' = report /\ foundation' = foundation
         \/ RatBegins \/ RatRuns
<1>1. CASE CycleEnds
  BY <1>1 DEF CycleEnds
<1>2. CASE RatKilled
  BY <1>2 DEF RatKilled, Killed
<1>3. CASE Start \/ Stop \/ HeadMoves
  BY <1>3 DEF Start, Stop, HeadMoves
<1>4. CASE Starting \/ NotReady \/ TimeUp \/ LoopCheck \/ Build \/ Ending \/ WorkerCrash
  BY <1>4 DEF Starting, NotReady, TimeUp, LoopCheck, Build, Ending, WorkerCrash, sideVars
<1>5. CASE ControllerFails \/ \E ok \in BOOLEAN : Review(ok)
  BY <1>5 DEF ControllerFails, Review, sideVars
<1>6. CASE UNCHANGED vars
  BY <1>6 DEF vars
<1> QED
  BY <1>1, <1>2, <1>3, <1>4, <1>5, <1>6 DEF SessionNext, Thread, Children

\* A paid call starts only when its estimate, on top of all that reports tell,
\* is within the budget, though the sum its limit comes from may count a
\* report twice.
THEOREM SpendingBounded == SessionSpec => BudgetHolds
<1>1. ASSUME SessionInv, [SessionNext]_vars, bill' > bill PROVE bill - lost + Estimate <= Budget
  <2>1. bill \in Nat /\ lost \in Nat /\ worker.spent \in Nat /\ Budget \in Nat /\ ~ (bill' \in {0, bill})
    BY <1>1, SessionConstants DEF SessionInv, SessionTypeOK, WorkerType
  <2>2. CASE RatBegins
    BY <2>1, <2>2 DEF RatBegins, Begin
  <2>3. CASE RatRuns
    <3>1. rat # None
      BY <2>3, RunsInside
    <3>2. /\ bill - lost <= worker.spent + rat.cost /\ rat.limit = Budget - worker.spent
          /\ rat.at # "paid" => rat.cost = 0
      BY <1>1, <3>1 DEF SessionInv, Invocation, BillCovered, Untold, Is
    <3>3. rat.at # "paid" /\ Estimate \in Nat /\ Estimate <= rat.limit
      BY <1>1, <2>1, <2>3, <3>1, RatEffect DEF RatRuns, GoesOn, LeavesReport
    <3> QED
      BY <2>1, <3>2, <3>3
  <2> QED
    BY <1>1, <2>1, <2>2, <2>3, OnlyRatCharges
<1>2. SessionInv /\ [SessionNext]_vars => [bill' > bill => bill - lost + Estimate <= Budget]_vars
  BY <1>1
<1> QED
  BY <1>2, AlwaysSessionInv, PTL DEF SessionSpec, BudgetHolds

\* So a session's told spending goes over its budget by what one call costs
\* beyond its estimate, and no more.
THEOREM OverspendBounded == SessionSpec => []OneCallOver
<1>1. SessionInv => OneCallOver
  BY DEF SessionInv
<1> QED
  BY <1>1, AlwaysSessionInv, PTL

\* After a stop that comes once the session has cleared the flag, no more than
\* the build that was being prepared starts.
THEOREM StopIsHonoured == SessionSpec => []StopHonoured
<1>1. SessionInv => StopHonoured
  BY DEF SessionInv
<1> QED
  BY <1>1, AlwaysSessionInv, PTL

\* A session that has had a fatal report makes no further call.
THEOREM FailsClosed == SessionSpec => FailClosed
<1>1. ASSUME SessionInv, [SessionNext]_vars, bill' > bill PROVE ~poisoned
  <2>1. bill \in Nat /\ ~ (bill' \in {0, bill})
    BY <1>1 DEF SessionInv, SessionTypeOK
  <2>2. CASE RatBegins
    BY <2>1, <2>2 DEF RatBegins, Begin
  <2>3. CASE RatRuns
    BY <1>1, <2>3, NoneIsNothing DEF RatRuns, SessionInv, PoisonEnds, Is
  <2> QED
    BY <1>1, <2>1, <2>2, <2>3, OnlyRatCharges
<1>2. SessionInv /\ [SessionNext]_vars => [bill' > bill => ~poisoned]_vars
  BY <1>1
<1> QED
  BY <1>2, AlwaysSessionInv, PTL DEF SessionSpec, FailClosed

\* While a session holds a foundation only a partial win changes it, to the
\* whole of what its candidate repairs, on the head both stood on.
THEOREM FoundationIsKept == SessionSpec => FoundationKept
<1>1. ASSUME SessionInv, [SessionNext]_vars, worker.retained, foundation' # foundation
      PROVE  /\ report'.partial /\ report'.replayed
             /\ foundation'.edits = report'.edits
             /\ foundation'.base = report'.head /\ foundation'.base = foundation.base
  <2>1. RatRuns
    BY <1>1, OnlyRatCharges DEF RatBegins, Begin
  <2>2. rat # None
    BY <2>1, RunsInside
  <2>3. rat.replayed /\ rat.base = foundation.base
    BY <1>1, <2>2 DEF SessionInv, Invocation
  <2>4. LeavesReport
    BY <1>1, <2>1, <2>2, RatEffect DEF RatRuns, GoesOn
  <2> QED
    BY <1>1, <2>3, <2>4 DEF LeavesReport
<1>2. SessionInv /\ [SessionNext]_vars =>
        [worker.retained /\ worker'.retained /\ foundation' # foundation =>
           /\ report'.partial /\ report'.replayed
           /\ foundation'.edits = report'.edits
           /\ foundation'.base = report'.head /\ foundation'.base = foundation.base]_vars
  BY <1>1
<1> QED
  BY <1>2, AlwaysSessionInv, PTL DEF SessionSpec, FoundationKept
=============================================================================
