-------------------------- MODULE PolicyEnforcement --------------------------
(***************************************************************************)
(* Data trust and policy.  assessDataTrust scores a claim by the evidence  *)
(* it links to and evaluatePolicy decides on a request for the resource    *)
(* with that score.  Both are functions of what they are given; here the   *)
(* evidence comes and goes, the claim expires and is revoked, and a        *)
(* request carries the score of now.                                       *)
(***************************************************************************)
EXTENDS Integers, FiniteSets, FiniteSetsExt

CONSTANTS
    Evidence,       \* evidence id -> its type and its confidence, in percent
    Expiries,       \* instants a claim may expire at
    MaxTime,        \* bound
    None

VARIABLES
    claim,          \* its classification, evidence ids, expiry and revocation, or None
    available,      \* the evidence records that can be found
    now

vars == <<claim, available, now>>

ClassificationPenalties == [public |-> 0, internal |-> 5, confidential |-> 10, restricted |-> 20]
Classifications == DOMAIN ClassificationPenalties

Claims ==
    [classification : Classifications, evidence : SUBSET DOMAIN Evidence,
     expiresAt : Expiries \union {None}, revokedAt : Nat \union {None}]

\* What the proofs assume of the constants: confidences and instants are whole
\* numbers, and there are finitely many records of evidence.
ConstantsAssumed ==
    /\ IsFiniteSet(DOMAIN Evidence)
    /\ \A e \in DOMAIN Evidence : Evidence[e].confidence \in Int
    /\ Expiries \subseteq Nat /\ MaxTime \in Nat
    /\ None \notin Claims \union Nat \union {"t1", "t2"}

Init ==
    /\ claim = None
    /\ available = DOMAIN Evidence
    /\ now = 0

-----------------------------------------------------------------------------
(* assessDataTrust. *)

ClampScore(score) == Max({0, Min({100, score})})

IsBeforeOrEqual(instant) == instant # None /\ instant <= now

TierForScore(score) ==
    CASE score >= 85 -> "verified"
      [] score \in 65..84 -> "supported"
      [] score \in 40..64 -> "weak"
      [] OTHER -> "untrusted"

Supporting == claim.evidence \intersect available
MissingEvidence == claim.evidence \ available
UniqueEvidenceTypes == {Evidence[e].type : e \in Supporting}

AssessmentReasons ==
    {r \in {"NO_SUPPORTING_EVIDENCE", "MISSING_LINKED_EVIDENCE", "CLAIM_EXPIRED", "CLAIM_REVOKED",
            "RESTRICTED_DATA_REQUIRES_APPROVAL_EVIDENCE", "LINEAGE_EVIDENCE_MISSING"} :
        CASE r = "NO_SUPPORTING_EVIDENCE" -> Supporting = {}
          [] r = "MISSING_LINKED_EVIDENCE" -> MissingEvidence # {}
          [] r = "CLAIM_EXPIRED" -> IsBeforeOrEqual(claim.expiresAt)
          [] r = "CLAIM_REVOKED" -> IsBeforeOrEqual(claim.revokedAt)
          [] r = "RESTRICTED_DATA_REQUIRES_APPROVAL_EVIDENCE" ->
                 claim.classification = "restricted" /\ "approval" \notin UniqueEvidenceTypes
          [] r = "LINEAGE_EVIDENCE_MISSING" -> "lineage" \notin UniqueEvidenceTypes}

DecisionForScore(score, reasons) ==
    CASE "CLAIM_REVOKED" \in reasons -> "revoked"
      [] "CLAIM_REVOKED" \notin reasons /\ ("CLAIM_EXPIRED" \in reasons \/ score < 40) -> "blocked"
      [] "CLAIM_REVOKED" \notin reasons /\ "CLAIM_EXPIRED" \notin reasons /\ score >= 40
         /\ (score < 65 \/ {"MISSING_LINKED_EVIDENCE", "LINEAGE_EVIDENCE_MISSING",
                            "RESTRICTED_DATA_REQUIRES_APPROVAL_EVIDENCE"} \intersect reasons # {})
            -> "needs_review"
      [] OTHER -> "trusted"

\* The average of the confidences, rounded half up. Of each the percents within
\* 1..100 count.
ConfidenceAverage ==
    LET n == Cardinality(Supporting)
        percents == {p \in Supporting \X (1 .. 100) : p[2] <= Evidence[p[1]].confidence}
    IN  IF n = 0 THEN 0 ELSE (2 * Cardinality(percents) + n) \div (2 * n)

AssessDataTrust ==
    LET score == IF "CLAIM_REVOKED" \in AssessmentReasons THEN 0
                 ELSE ClampScore(ConfidenceAverage
                                 + Min({15, 5 * Cardinality(UniqueEvidenceTypes)})
                                 - 10 * Cardinality(MissingEvidence)
                                 - ClassificationPenalties[claim.classification])
    IN  [decision |-> DecisionForScore(score, AssessmentReasons), score |-> score,
         tier |-> TierForScore(score)]

-----------------------------------------------------------------------------
(* evaluatePolicy. *)

Actions == {"read", "write", "export", "share", "execute", "promote", "verify", "revoke"}

Rule(effect, actions, classifications, below, approval, evidence) ==
    [effect |-> effect, actions |-> actions, classifications |-> classifications,
     below |-> below, approval |-> approval, evidence |-> evidence]

DefaultPolicyRules ==
    {Rule("block", Actions, Classifications, 40, FALSE, {}),
     Rule("warn", Actions, Classifications, 65, FALSE, {}),
     Rule("block", {"export", "share", "execute", "promote"}, {"restricted"}, None, TRUE, {}),
     Rule("warn", {"export", "share"}, {"confidential", "restricted"}, None, FALSE,
          {"lineage", "provenance"})}

\* A request: the action, the resource's classification, score and evidence
\* types, whether a person approved, and the tenants of subject and resource.
RuleMatches(request, rule) ==
    /\ request.action \in rule.actions
    /\ request.classification \in rule.classifications
    /\ rule.below # None => request.score < rule.below
    /\ ~(rule.approval /\ request.approved)
    /\ rule.evidence # {} => ~(rule.evidence \subseteq request.evidence)

EvaluatePolicy(request) ==
    LET matched == {rule \in DefaultPolicyRules : RuleMatches(request, rule)}
        foreign == None \notin {request.subjectTenant, request.resourceTenant}
                   /\ request.subjectTenant # request.resourceTenant
    IN  CASE foreign \/ \E rule \in matched : rule.effect = "block" -> "blocked"
          [] ~foreign /\ matched # {} /\ (\A rule \in matched : rule.effect = "warn") -> "warning"
          [] OTHER -> "allowed"

-----------------------------------------------------------------------------
(* What the inputs go through. *)

\* The claim that is to be assessed.
Present(c) ==
    /\ claim = None
    /\ claim' = c
    /\ UNCHANGED <<available, now>>

SetEvidence(e) ==
    /\ available' = IF e \in available THEN available \ {e} ELSE available \union {e}
    /\ UNCHANGED <<claim, now>>

\* A revocation may lie in the future.
Revoke(t) ==
    /\ claim # None /\ claim.revokedAt = None
    /\ claim' = [claim EXCEPT !.revokedAt = t]
    /\ UNCHANGED <<available, now>>

Tick ==
    /\ now < MaxTime
    /\ now' = now + 1
    /\ UNCHANGED <<claim, available>>

Next ==
    \/ \E c \in [classification : Classifications, evidence : SUBSET DOMAIN Evidence,
               expiresAt : Expiries \union {None}, revokedAt : {None}] : Present(c)
    \/ \E e \in DOMAIN Evidence : SetEvidence(e)
    \/ \E t \in now .. MaxTime : Revoke(t)
    \/ Tick

Spec == Init /\ [][Next]_vars

-----------------------------------------------------------------------------
\* The inputs are what an assessment takes.
IndInv == claim \in Claims \union {None} /\ available \subseteq DOMAIN Evidence /\ now \in Nat

Request(action, score, approved, evidence, tenant) ==
    [action |-> action, classification |-> claim.classification, score |-> score,
     approved |-> approved, evidence |-> evidence, subjectTenant |-> "t1",
     resourceTenant |-> tenant]

\* The request that the assessment of now stands behind.
RequestNow(action, approved) ==
    Request(action, AssessDataTrust.score, approved, UniqueEvidenceTypes, "t1")

\* The two services draw the same lines: what the assessment calls untrusted or
\* revoked the policy blocks, whoever approved; what it calls trusted is missing
\* nothing it asks for, and the policy blocks it only for a restricted action
\* that nobody approved.
AssessmentAndPolicyAgree ==
    LET a == AssessDataTrust IN
    /\ (a.decision = "revoked" \/ a.tier = "untrusted") =>
           \A act \in Actions, ok \in BOOLEAN : EvaluatePolicy(RequestNow(act, ok)) = "blocked"
    /\ a.tier = "untrusted" => a.decision \in {"blocked", "revoked"}
    /\ a.decision = "trusted" =>
           /\ a.tier \in {"supported", "verified"}
           /\ MissingEvidence = {} /\ "lineage" \in UniqueEvidenceTypes
           /\ \A act \in Actions : EvaluatePolicy(RequestNow(act, TRUE)) # "blocked"

Rank(decision) == CASE decision = "blocked" -> 0 [] decision = "warning" -> 1 [] OTHER -> 2

\* An approval, a piece of evidence or a better score never turns a decision for
\* the worse, and none of them lets a request through a tenant's boundary.
PolicyIsMonotone ==
    LET score == AssessDataTrust.score IN
    \A act \in {"read", "export", "promote"}, ok \in BOOLEAN :
        LET d == Rank(EvaluatePolicy(RequestNow(act, ok))) IN
        /\ d <= Rank(EvaluatePolicy(RequestNow(act, TRUE)))
        /\ d <= Rank(EvaluatePolicy(Request(act, score, ok, {"lineage", "provenance"}, None)))
        /\ \A better \in {39, 40, 64, 65} : better >= score =>
               d <= Rank(EvaluatePolicy(Request(act, better, ok, UniqueEvidenceTypes, "t1")))
        /\ EvaluatePolicy(Request(act, 100, ok, {"lineage", "provenance"}, "t2")) = "blocked"

\* Assessments and policy decisions fit each other (assessDataTrust, evaluatePolicy).
PolicyIsSound == claim # None => AssessmentAndPolicyAgree /\ PolicyIsMonotone
=============================================================================
