------------------------------- MODULE MCDaemon -------------------------------
(***************************************************************************)
(* Three calls, in the order they arrive, over two keys: creations of one  *)
(* task with an exemption (in its time or expired), with a reviewed        *)
(* receipt (early or not), plain, and plain with governance columns, a     *)
(* launch of its run, and the direct lease calls.  Limit is below the      *)
(* number of keys, so that the table prunes.  Names are sent padded or in  *)
(* another case than the approvals have them.                              *)
(***************************************************************************)
EXTENDS Daemon, TLC

Order(paths) == [task |-> "T ", repo |-> "O/R", base |-> "AB", objective |-> "fix",
                 paths |-> paths, subsystem |-> "sub"]
narrow == Order({"a"})
wide == Order({"A", "b"})
signed == [narrow EXCEPT !.task = "T", !.base = "ab"]

MCCanon ==
  [x \in {"T", "ab", "a", "b", "o/r", "sub"} |-> x] @@
  ("T " :> "T" @@ "AB" :> "ab" @@ "A" :> "a" @@ "O/R" :> "o/r")

Component(disposition) ==
  [name |-> "broker", identity |-> "v1", licence |-> "compatible", platform |-> "fit",
   security |-> "partial", disposition |-> disposition]
Review(disposition) ==
  [subsystem |-> "sub", searches |-> <<"s1", "s2">>, candidates |-> <<Component(disposition)>>,
   decision |-> "adapt", reason |-> None]
good == Review("selected")
bad == Review("rejected")
Token(type, subsystem, review, t, expires) ==
  [type |-> type, subsystem |-> subsystem, review |-> review, issued |-> t, expires |-> expires,
   about |-> [task |-> "T", repo |-> "o/r", base |-> "ab", objective |-> "fix", paths |-> {"a"}]]
exemption == Token("exemption", None, None, 0, 1)
receipt == Token("receipt", "sub", good, 2, 3)
MCIssued == {exemption, receipt}

\* They are what the two issuers sign.
ASSUME /\ MayExempt(signed, 1) /\ exemption = Exemption(signed, 1, 0)
       /\ MayReceipt(signed, good, 1) /\ receipt = Receipt(signed, good, 1, 2)
       /\ ~MayReceipt(signed, bad, 1)

\* They hold for the order they were signed for, in their time, and for no other.
ASSUME /\ \A t \in 0 .. 4 : ExemptionHolds(exemption, narrow, t) <=> t = 0
       /\ \A t \in 0 .. 4 : ReceiptHolds(receipt, narrow, good, t) <=> t \in {1, 2}
       /\ \A o \in {wide, [narrow EXCEPT !.objective = "other"], [narrow EXCEPT !.task = "O/R"]} :
            ~ExemptionHolds(exemption, o, 0) /\ ~ReceiptHolds(receipt, o, good, 2)
       /\ ~ReceiptHolds(receipt, narrow, [good EXCEPT !.searches = <<"s1">>], 2)
       /\ ~ReceiptHolds(receipt, [narrow EXCEPT !.subsystem = "ab"], good, 2)

\* A review decides between a selected component and own code with a reason.
ASSUME /\ ReviewOk(good, "sub") /\ ~ReviewOk(bad, "sub") /\ ~ReviewOk(good, "ab")
       /\ ReviewOk([bad EXCEPT !.decision = "custom", !.reason = "none fits"], "sub")
       /\ ~ReviewOk([good EXCEPT !.searches = <<"s1", "s1">>], "sub")
       /\ ~ReviewOk([good EXCEPT !.candidates[1].licence = "unknown"], "sub")
       /\ ~ReviewOk([good EXCEPT !.candidates = @ \o @], "sub")

Evidence(e, v, r) == [exemption |-> e, review |-> v, receipt |-> r]
Req(m, o, ev, r) ==
  [m |-> m, order |-> o, ev |-> ev, gov |-> Ungoverned, run |-> r, worktree |-> "w"]
Nothing == Evidence(None, None, None)
columns == [Ungoverned EXCEPT !.mode = "reuse-v1", !.kind = "small-repair", !.exemption = "digest"]
MCForm == [
  plain     |-> Req("create", [wide EXCEPT !.subsystem = None], Nothing, None),
  declared  |-> [Req("create", wide, Nothing, None) EXCEPT !.gov = columns],
  exempt    |-> Req("govern", narrow, Evidence(exemption, None, None), None),
  reviewed  |-> Req("govern", narrow, Evidence(None, good, receipt), None),
  launch    |-> Req("launch", narrow, Nothing, "r1"),
  claim     |-> Req("claim", [narrow EXCEPT !.base = "ab"], Nothing, "r1"),
  heartbeat |-> Req("heartbeat", narrow, Nothing, "r1"),
  release   |-> Req("release", narrow, Nothing, "r1")]
MCRequest == DOMAIN MCForm
\* A launch or a claim is sent once a creation was, a heartbeat or a release
\* once one of these was: alone they are calls that end in an error, as any may.
Creations == {"plain", "declared", "exempt", "reviewed"}
Before(q) == CASE q \in {"launch", "claim"} -> Creations
               [] q \in {"heartbeat", "release"} -> {"launch", "claim"}
               [] OTHER -> MCRequest
Few == \A c \in Thread : thread[c].pc = "idle" /\ thread'[c].pc # "idle" =>
         Before(thread'[c].req) = MCRequest \/ \E d \in Thread : thread[d].req \in Before(thread'[c].req)
MCProfile == {ProfileOf(narrow), ProfileOf(wide)}
=============================================================================
