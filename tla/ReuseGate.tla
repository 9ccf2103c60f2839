------------------------------- MODULE ReuseGate -------------------------------
(***************************************************************************)
(* The upstream-reuse policy (forgeboss/policy): a governed task is created*)
(* only with a signed small-repair exemption, or with a valid review of    *)
(* upstream components and a signed receipt for that very review.          *)
(*                                                                         *)
(* Names, repositories, object ids and paths arrive as raw values; Canon   *)
(* gives what the code makes of each, None for a value it refuses.  A      *)
(* digest is the value it is taken of, and a signature verifies when the   *)
(* whole token is one the owner of the policy secret issued.               *)
(***************************************************************************)
EXTENDS Integers, Sequences

CONSTANTS
  Canon,         \* raw value -> its canonical form, or None
  Issued,        \* the tokens signed with the policy secret
  Skew,          \* tolerated lead of a token's issue time (30 s)
  MaxExemption,  \* MAX_TTL_SECONDS (1 h)
  MaxReceipt,    \* MAX_RECEIPT_TTL_SECONDS (24 h)
  None           \* no value

\* An order is the part of task.create's parameters the policy looks at:
\* [task, repo, base, objective, paths, subsystem], all raw.

CanonSet(S) == {Canon[x] : x \in S}

\* What an approval is about: the values both sides are reduced to.
Subject(o) ==
  [task |-> Canon[o.task], repo |-> Canon[o.repo], base |-> Canon[o.base],
   objective |-> o.objective, paths |-> CanonSet(o.paths)]

Readable(o) ==
  /\ None \notin {Canon[o.task], Canon[o.repo], Canon[o.base], o.objective}
  /\ o.paths # {} /\ None \notin CanonSet(o.paths)
-----------------------------------------------------------------------------
(* The review: a decision between upstream components and own code.        *)

NoDuplicates(s) == \A i, j \in DOMAIN s : s[i] = s[j] => i = j

Acceptable == {"fit", "partial"}

\* A component may only be selected when it is pinned, licensed and fits.
Selectable(c) ==
  /\ c.identity # None
  /\ c.licence \in {"permissive", "compatible"}
  /\ c.platform \in Acceptable /\ c.security \in Acceptable

CandidateOk(c) ==
  /\ c.name # None
  /\ c.licence \in {"permissive", "compatible", "incompatible", "unknown"}
  /\ {c.platform, c.security} \subseteq Acceptable \cup {"unfit", "unknown"}
  /\ c.disposition \in {"selected", "rejected", "reference-only"}
  /\ c.disposition = "selected" => Selectable(c)

Selected(v) == {i \in DOMAIN v.candidates : v.candidates[i].disposition = "selected"}

ReviewOk(v, subsystem) ==
  /\ Canon[subsystem] # None /\ Canon[v.subsystem] = Canon[subsystem]
  /\ v.searches # <<>> /\ NoDuplicates(v.searches)
  /\ \A i \in DOMAIN v.candidates : CandidateOk(v.candidates[i])
  /\ NoDuplicates([i \in DOMAIN v.candidates |-> v.candidates[i].name])
  /\ \/ v.decision \in {"reuse", "adapt"} /\ Selected(v) # {} /\ v.reason = None
     \/ /\ v.decision = "custom" /\ Selected(v) = {}
        /\ v.reason # None /\ v.candidates # <<>>

WorkKinds == {"small-repair", "substantial-subsystem"}

\* evaluate_build_readiness: the policy before signatures.
BuildReady(kind, subsystem, review) ==
  /\ kind \in WorkKinds /\ Canon[subsystem] # None
  /\ \/ kind = "small-repair" /\ review = None
     \/ review # None /\ ReviewOk(review, subsystem)
-----------------------------------------------------------------------------
(* The two tokens.  An exemption names no subsystem and no review.         *)

Exemption(o, ttl, t) ==
  [type |-> "exemption", about |-> Subject(o), subsystem |-> None, review |-> None,
   issued |-> t, expires |-> t + ttl]

MayExempt(o, ttl) == ttl \in 1 .. MaxExemption /\ Readable(o)

Receipt(o, review, ttl, t) ==
  [type |-> "receipt", about |-> Subject(o), subsystem |-> Canon[o.subsystem],
   review |-> review, issued |-> t, expires |-> t + ttl]

MayReceipt(o, review, ttl) ==
  ttl \in 1 .. MaxReceipt /\ Readable(o) /\ ReviewOk(review, o.subsystem)

\* Lifetime and clock checks of both verifiers.
InTime(token, maxTTL, t) ==
  /\ token.expires > token.issued /\ token.expires - token.issued <= maxTTL
  /\ t >= token.issued - Skew /\ t < token.expires

Genuine(token) == token \in Issued

Bound(token, o) == Readable(o) /\ token.about = Subject(o)

ExemptionHolds(token, o, t) ==
  /\ token.type = "exemption"
  /\ InTime(token, MaxExemption, t) /\ Genuine(token) /\ Bound(token, o)

ReceiptHolds(token, o, review, t) ==
  /\ token.type = "receipt" /\ ReviewOk(review, o.subsystem)
  /\ InTime(token, MaxReceipt, t) /\ Genuine(token) /\ Bound(token, o)
  /\ token.subsystem = Canon[o.subsystem] /\ token.review = review
-----------------------------------------------------------------------------
(* The decision.  ev is the evidence sent along: [exemption, review,       *)
(* receipt], each None when it is absent.                                  *)

WorkKind(ev) == IF ev.exemption = None THEN "substantial-subsystem" ELSE "small-repair"

\* evaluate_authorized_reuse_readiness: an exemption that is sent must hold,
\* and a review is then not looked at.
Authorised(o, ev, t) ==
  \/ ev.exemption # None /\ ExemptionHolds(ev.exemption, o, t)
  \/ /\ ev.exemption = None
     /\ ev.review # None /\ ReviewOk(ev.review, o.subsystem)
     /\ ev.receipt # None /\ ReceiptHolds(ev.receipt, o, ev.review, t)

\* evaluate_task_reuse_readiness: the same question without receipts.
TaskReady(o, ev, t) ==
  /\ ev.exemption # None => ExemptionHolds(ev.exemption, o, t)
  /\ BuildReady(WorkKind(ev), o.subsystem, ev.review)
=============================================================================
