-------------------------- MODULE ImprovementEngine --------------------------
(***************************************************************************)
(* The improvement engine: telemetry is read into opportunities, an        *)
(* opportunity becomes a candidate with a lineage entry, and a person      *)
(* decides about the candidate.  The dashboard's routes and the two        *)
(* scripts do this with single statements and no transaction; each keeps   *)
(* its own copy of the detector and of the scoring.  Any number of them    *)
(* run at once and any statement may fail.                                 *)
(***************************************************************************)
EXTENDS Integers, Sequences, FiniteSets

CONSTANTS
    Workers,             \* requests and script runs
    Evidences,           \* telemetry summaries that may be read
    BatchLimit,          \* opportunities one generation takes (20; scripts 50)
    MaxOpportunities, MaxCandidates, MaxDecisions    \* bounds

VARIABLES
    configured,          \* DATABASE_URL is set
    evidence,            \* what the telemetry tables add up to now
    opportunities, candidates, lineage,   \* the three tables, in order of creation
    approvals,           \* improvement_approval_events, in order
    job                  \* worker -> what it is doing

vars == <<configured, evidence, opportunities, candidates, lineage, approvals, job>>

Makers == {"route", "script"}
Severities == {"low", "medium", "high", "critical"}
OpportunityStatuses == {"detected", "candidate_generated", "dismissed", "archived"}
CandidateStatuses == {"proposed", "needs_review", "approved", "rejected",
                      "sandbox_required", "archived"}
Decisions == {"approved", "rejected", "needs_more_evidence", "blocked"}
ApprovalStatuses == Decisions \cup {"pending"}

\* The kinds of opportunity the detectors know, and the subsystem of each.
SubsystemOf ==
    [performance |-> "system", safety_gate |-> "security", reliability |-> "system",
     conversion |-> "card", documentation |-> "documentation",
     telephony_readiness |-> "telephony"]

Idle == [at |-> "idle"]

Init ==
    /\ configured \in BOOLEAN
    /\ evidence \in Evidences
    /\ opportunities = <<>> /\ candidates = <<>> /\ lineage = <<>>
    /\ approvals = <<>>
    /\ job = [w \in Workers |-> Idle]

(***************************************************************************)
(* The detectors.                                                          *)
(***************************************************************************)
SeverityFor(value, medium, high) ==
    IF value >= high THEN "high" ELSE IF value >= medium THEN "medium" ELSE "low"

Opportunity(type, baseline, severity) ==
    [type |-> type, baseline |-> baseline, severity |-> severity, status |-> "detected"]

\* The conversion rate is below 8 % of at least 20 views; a rate rounds to 0.
LowConversion(e) == e.views >= 20 /\ e.actions * 100 < e.views * 8

ConversionSeverity(e) == IF e.actions * 100 < e.views * 3 THEN "high" ELSE "medium"

\* detectImprovementOpportunities of the engine and of the script: the same
\* thresholds, but the script knows no low severity.
Detected(e, by) ==
    LET severity(value, medium, high) ==
            IF by = "route" THEN SeverityFor(value, medium, high)
            ELSE SeverityFor(value, 0, high)
    IN  (IF e.requests >= 5 /\ e.latency > 750
         THEN {Opportunity("performance", e.latency,
                   IF by = "script" /\ e.latency = 1500 THEN "medium"
                   ELSE severity(e.latency, 900, 1500))} ELSE {})
        \cup (IF e.blocks >= 3
              THEN {Opportunity("safety_gate", e.blocks, severity(e.blocks, 5, 10))} ELSE {})
        \cup (IF e.errors >= 3
              THEN {Opportunity("reliability", e.errors, severity(e.errors, 8, 20))} ELSE {})
        \cup (IF LowConversion(e)
              THEN {Opportunity("conversion", 0, ConversionSeverity(e))} ELSE {})
        \cup (IF e.misconfigured >= 2
              THEN {Opportunity("documentation", e.misconfigured, "medium")} ELSE {})
        \cup (IF e.unready >= 2
              THEN {Opportunity("telephony_readiness", e.unready, "high")} ELSE {})

\* The order in which the detectors look.
Rank ==
    [performance |-> 1, safety_gate |-> 2, reliability |-> 3, conversion |-> 4,
     documentation |-> 5, telephony_readiness |-> 6]

\* The order in which they are inserted: the route sorts by baseline, largest
\* first, and the sort is stable.
Before(by, a, b) ==
    IF by = "route" /\ a.baseline # b.baseline THEN a.baseline > b.baseline
    ELSE Rank[a.type] < Rank[b.type]

(***************************************************************************)
(* The scores.                                                             *)
(***************************************************************************)
SubsystemRisk ==
    [card |-> 3, documentation |-> 1, security |-> 9, system |-> 6, telephony |-> 9]

Smaller(a, b) == IF a < b THEN a ELSE b
Larger(a, b) == IF a > b THEN a ELSE b
Rounded(a, b) == (2 * a + b) \div (2 * b)          \* Math.round(a / b), a >= 0

\* calculateRiskScore of riskFactorsFromOpportunity.
RiskScoreFromOpportunity(o) ==
    LET subsystem == SubsystemOf[o.type]
        telephony == o.type = "telephony_readiness"
        risk == SubsystemRisk[subsystem]
    IN  Smaller(100,
            2 + risk
            + (IF telephony THEN 9 ELSE Larger(2, risk - 1))
            + (IF o.type = "safety_gate" THEN 12 ELSE 1)
            + (IF subsystem = "security" THEN 14 ELSE 2)
            + (IF telephony THEN 12 ELSE 5)
            + (IF telephony THEN 16 ELSE 0))

EvidenceScoreFor(o) ==
    LET severity == CASE o.severity \in {"high", "critical"} -> 18
                      [] o.severity = "medium" -> 10
                      [] OTHER -> 4
    IN  Smaller(100, Smaller(35, o.baseline) + severity + 20)

ExpectedImpactFor(o) ==
    CASE o.severity = "critical" -> 35
      [] o.severity = "high" -> 28
      [] o.severity = "medium" -> 18
      [] OTHER -> 8

CalculatePriorityScore(o, risk, complexity) ==
    Larger(0,
        EvidenceScoreFor(o) + ExpectedImpactFor(o)
        + (IF o.type \in {"documentation", "reliability"} THEN 10 ELSE 4)
        + (IF o.type = "performance" THEN 14 ELSE 0)
        + (IF o.type = "conversion" THEN 12 ELSE 6)
        - complexity - Rounded(risk, 4) - Rounded(risk, 5))

StatusForRisk(risk) == IF risk >= 45 THEN "sandbox_required" ELSE "needs_review"

\* generateImprovementCandidate, for the opportunity with this number.
GenerateImprovementCandidate(n, o) ==
    LET risk == RiskScoreFromOpportunity(o)
        complexity == Smaller(30, Rounded(risk, 3))
    IN  [opportunity |-> n, by |-> "route", risk |-> risk, evidence |-> EvidenceScoreFor(o),
         complexity |-> complexity,
         priority |-> CalculatePriorityScore(o, risk, complexity),
         status |-> StatusForRisk(risk)]

\* generateCandidate of the script: other weights.
ScriptCandidate(n, o) ==
    LET risk == Smaller(100,
            20 + (IF o.type = "telephony_readiness" THEN 40 ELSE 0)
               + (IF o.type = "safety_gate" THEN 20 ELSE 0)
               + (IF o.severity = "high" THEN 12 ELSE 4))
        score == Smaller(100, o.baseline + 30)
        complexity == Smaller(30, Rounded(risk, 3))
    IN  [opportunity |-> n, by |-> "script", risk |-> risk, evidence |-> score,
         complexity |-> complexity,
         priority |-> Larger(0, score + (IF o.severity = "high" THEN 28 ELSE 18) + 6
                                - Rounded(risk, 4) - complexity),
         status |-> StatusForRisk(risk)]

CandidateOf(by, n) ==
    IF by = "route" THEN GenerateImprovementCandidate(n, opportunities[n])
    ELSE ScriptCandidate(n, opportunities[n])

(***************************************************************************)
(* Detection.                                                              *)
(***************************************************************************)
TelemetryArrives ==
    /\ evidence' \in Evidences \ {evidence}
    /\ UNCHANGED <<configured, opportunities, candidates, lineage, approvals, job>>

\* The evidence is read once; its opportunities are inserted one by one, and
\* nothing asks whether one of the same kind is open.
StartDetection(w, by) ==
    /\ job[w] = Idle /\ configured
    /\ job' = [job EXCEPT ![w] =
           [at |-> "detecting", by |-> by, found |-> Detected(evidence, by)]]
    /\ UNCHANGED <<configured, evidence, opportunities, candidates, lineage, approvals>>

InsertOpportunity(w) ==
    /\ job[w].at = "detecting"
    /\ Len(opportunities) < MaxOpportunities
    /\ \E o \in job[w].found :
        /\ \A p \in job[w].found \ {o} : Before(job[w].by, o, p)
        /\ opportunities' = Append(opportunities, o)
        /\ job' = [job EXCEPT ![w] =
               [at |-> "detecting", by |-> @.by, found |-> @.found \ {o}]]
    /\ UNCHANGED <<configured, evidence, candidates, lineage, approvals>>

(***************************************************************************)
(* Generation: candidate, lineage, then the opportunity's status.          *)
(***************************************************************************)
Open == {n \in DOMAIN opportunities : opportunities[n].status = "detected"}

IsFirst(n, todo) == n \in todo /\ \A m \in todo : n <= m

\* The oldest open opportunities, taken in order.
StartGeneration(w, by) ==
    /\ job[w] = Idle /\ configured
    /\ job' = [job EXCEPT ![w] =
           [at |-> "candidate", by |-> by,
            todo |-> {n \in Open : Cardinality({m \in Open : m < n}) < BatchLimit}]]
    /\ UNCHANGED <<configured, evidence, opportunities, candidates, lineage, approvals>>

InsertCandidate(w) ==
    /\ job[w].at = "candidate"
    /\ Len(candidates) < MaxCandidates
    /\ \E n \in job[w].todo :
        /\ IsFirst(n, job[w].todo)
        /\ candidates' = Append(candidates, CandidateOf(job[w].by, n))
        /\ job' = [job EXCEPT ![w] = [at |-> "lineage", by |-> @.by, todo |-> @.todo,
                                      candidate |-> Len(candidates) + 1]]
    /\ UNCHANGED <<configured, evidence, opportunities, lineage, approvals>>

\* createLineageEntry: pending, whatever was decided in the meantime, and no
\* outcome.
NewLineage(c) == [candidate |-> c, approval |-> "pending"]

InsertLineage(w) ==
    /\ job[w].at = "lineage"
    /\ lineage' = Append(lineage, NewLineage(job[w].candidate))
    /\ job' = [job EXCEPT ![w] = [at |-> "status", by |-> @.by, todo |-> @.todo,
                                  candidate |-> @.candidate]]
    /\ UNCHANGED <<configured, evidence, opportunities, candidates, approvals>>

Generated(w) ==
    \E n \in job[w].todo :
        /\ IsFirst(n, job[w].todo)
        /\ opportunities' = [opportunities EXCEPT ![n].status = "candidate_generated"]
        /\ job' = [job EXCEPT ![w] = [at |-> "candidate", by |-> @.by, todo |-> @.todo \ {n}]]
        /\ UNCHANGED <<configured, evidence, candidates, lineage, approvals>>

\* MUTANT: the opportunity is closed before the lineage is written.
MarkGeneratedFirst(w) == job[w].at = "lineage" /\ Generated(w)

MarkGenerated(w) == job[w].at = "status" /\ Generated(w)

(***************************************************************************)
(* The approval route: event, candidate, lineage.  It asks for no earlier  *)
(* decision: the last one to be written stands.                            *)
(***************************************************************************)
StartApproval(w) ==
    \E c \in DOMAIN candidates, d \in Decisions :
        /\ job[w] = Idle /\ configured
        /\ Len(approvals) < MaxDecisions
        /\ approvals' = Append(approvals, [candidate |-> c, decision |-> d])
        /\ job' = [job EXCEPT ![w] = [at |-> "decided", candidate |-> c, decision |-> d]]
        /\ UNCHANGED <<configured, evidence, opportunities, candidates, lineage>>

StatusAfter(decision) ==
    IF decision \in {"approved", "rejected"} THEN decision
    ELSE IF decision = "blocked" THEN "archived" ELSE "needs_review"

UpdateCandidate(w) ==
    /\ job[w].at = "decided"
    /\ candidates' = [candidates EXCEPT ![job[w].candidate].status = StatusAfter(job[w].decision)]
    /\ job' = [job EXCEPT ![w] = [at |-> "archiving", candidate |-> @.candidate,
                                  decision |-> @.decision]]
    /\ UNCHANGED <<configured, evidence, opportunities, lineage, approvals>>

UpdateLineage(w) ==
    /\ job[w].at = "archiving"
    /\ lineage' = [n \in DOMAIN lineage |->
           IF lineage[n].candidate = job[w].candidate
           THEN [lineage[n] EXCEPT !.approval = job[w].decision] ELSE lineage[n]]
    /\ job' = [job EXCEPT ![w] = Idle]
    /\ UNCHANGED <<configured, evidence, opportunities, candidates, approvals>>

\* The job has nothing left to do.
Finish(w) ==
    /\ \/ job[w].at = "detecting" /\ job[w].found = {}
       \/ job[w].at = "candidate" /\ job[w].todo = {}
    /\ job' = [job EXCEPT ![w] = Idle]
    /\ UNCHANGED <<configured, evidence, opportunities, candidates, lineage, approvals>>

\* A statement fails, or the process ends: what is written stays.
FailSafely(w) ==
    /\ job[w] # Idle
    /\ job' = [job EXCEPT ![w] = Idle]
    /\ UNCHANGED <<configured, evidence, opportunities, candidates, lineage, approvals>>

Next ==
    \/ TelemetryArrives
    \/ \E w \in Workers :
        \/ \E by \in Makers : StartDetection(w, by) \/ StartGeneration(w, by)
        \/ InsertOpportunity(w) \/ InsertCandidate(w) \/ InsertLineage(w) \/ MarkGenerated(w)
        \/ StartApproval(w) \/ UpdateCandidate(w) \/ UpdateLineage(w)
        \/ Finish(w) \/ FailSafely(w)

Spec == Init /\ [][Next]_vars
-----------------------------------------------------------------------------
DecisionsOn(c) ==
    {approvals[a].decision : a \in {b \in DOMAIN approvals : approvals[b].candidate = c}}

\* evaluateApprovalGate: a rejection stands against every approval.  Nothing
\* calls it when a decision is written.
EvaluateApprovalGate(c) ==
    IF "rejected" \in DecisionsOn(c) THEN "rejected"
    ELSE IF "approved" \in DecisionsOn(c) THEN "approved" ELSE "needs_review"

\* What the tables accept: statuses, and scores within their CHECKs.
TypeOK ==
    /\ \A n \in DOMAIN opportunities :
        /\ opportunities[n].severity \in Severities
        /\ opportunities[n].status \in OpportunityStatuses
    /\ \A c \in DOMAIN candidates :
        /\ candidates[c].status \in CandidateStatuses
        /\ {candidates[c].risk, candidates[c].evidence, candidates[c].complexity} \subseteq 0..100
        /\ candidates[c].priority >= 0
    /\ \A l \in DOMAIN lineage :
        lineage[l].approval \in ApprovalStatuses /\ lineage[l].candidate \in DOMAIN candidates
    /\ \A a \in DOMAIN approvals : approvals[a].candidate \in DOMAIN candidates

HasLineage(c) == \E l \in DOMAIN lineage : lineage[l].candidate = c

\* A closed opportunity has a candidate with a lineage entry, whichever
\* statement of a generation failed and however generations overlap.
GeneratedHasLineage ==
    \A n \in DOMAIN opportunities :
        opportunities[n].status = "candidate_generated" =>
            \E c \in DOMAIN candidates : candidates[c].opportunity = n /\ HasLineage(c)

\* What a person may make of a candidate, and no step of the engine does.
Settled == {"approved", "rejected", "archived"}

IsDecided(status, c) == status \in Settled => \E d \in DecisionsOn(c) : StatusAfter(d) = status

\* A settled candidate and a lineage entry that is no longer pending each say
\* what some recorded decision said: the event is inserted first, so a failing
\* or overlapping approval leaves no status that nobody decided.
DecidedByPerson ==
    /\ \A c \in DOMAIN candidates : IsDecided(candidates[c].status, c)
    /\ \A l \in DOMAIN lineage :
        lineage[l].approval \in DecisionsOn(lineage[l].candidate) \cup {"pending"}

\* The route never asks the gate, so the two part in one case only: a candidate
\* approved after a rejection stays approved where the gate says rejected.
GateDiffersAfterRejection ==
    \A c \in DOMAIN candidates :
        candidates[c].status = "approved" =>
            EvaluateApprovalGate(c) = "approved" \/ "rejected" \in DecisionsOn(c)

\* A candidate the route made for telephony or for security waits for a
\* sandbox until a person decides.
SensitiveNeedsSandbox ==
    \A c \in DOMAIN candidates :
        (/\ candidates[c].by = "route"
         /\ SubsystemOf[opportunities[candidates[c].opportunity].type] \in {"telephony", "security"}
         /\ DecisionsOn(c) = {})
        => candidates[c].status = "sandbox_required"

\* The engine's tables are sound under overlapping and failing jobs (the
\* detect, generate and approval routes and their scripts).
ImprovementIsSound ==
    /\ TypeOK /\ GeneratedHasLineage /\ SensitiveNeedsSandbox
    /\ DecidedByPerson /\ GateDiffersAfterRejection
-----------------------------------------------------------------------------
(***************************************************************************)
(* The inductive invariant: the rows are whole and refer to rows, and what *)
(* a job has still to do follows what it wrote.                            *)
(***************************************************************************)
ConstantsAssumed ==
    Evidences \subseteq
        [requests : Nat, latency : Nat, blocks : Nat, errors : Nat, views : Nat, actions : Nat,
         misconfigured : Nat, unready : Nat]

OpportunityRows ==
    [type : DOMAIN SubsystemOf, baseline : Nat, severity : Severities,
     status : OpportunityStatuses]
CandidateRows ==
    [opportunity : Nat, by : Makers, risk : 0..100, evidence : 0..100, complexity : 0..100,
     priority : Nat, status : CandidateStatuses]
LineageRows == [candidate : Nat, approval : ApprovalStatuses]
ApprovalRows == [candidate : Nat, decision : Decisions]

RowsAreWhole ==
    /\ evidence \in Evidences
    /\ opportunities \in Seq(OpportunityRows)
    /\ candidates \in Seq(CandidateRows)
    /\ lineage \in Seq(LineageRows)
    /\ approvals \in Seq(ApprovalRows)
    /\ \A c \in DOMAIN candidates : candidates[c].opportunity \in DOMAIN opportunities
    /\ \A l \in DOMAIN lineage : lineage[l].candidate \in DOMAIN candidates
    /\ \A a \in DOMAIN approvals : approvals[a].candidate \in DOMAIN candidates

\* A job in its states: what it detects, generates or decides.
IsDetecting(j) ==
    j.at = "detecting" /\ j.found \subseteq {o \in OpportunityRows : o.status = "detected"}
IsGenerating(j) ==
    /\ j.at \in {"candidate", "lineage", "status"}
    /\ j.by \in Makers /\ j.todo \subseteq DOMAIN opportunities
    /\ j.at # "candidate" =>
        /\ j.candidate \in DOMAIN candidates
        /\ IsFirst(candidates[j.candidate].opportunity, j.todo)
    /\ j.at = "status" => HasLineage(j.candidate)
IsDeciding(j) ==
    /\ j.at \in {"decided", "archiving"}
    /\ j.candidate \in DOMAIN candidates /\ j.decision \in DecisionsOn(j.candidate)

JobFollows(j) == j = Idle \/ IsDetecting(j) \/ IsGenerating(j) \/ IsDeciding(j)

JobsFollowRows == DOMAIN job = Workers /\ \A w \in Workers : JobFollows(job[w])

IndInv ==
    RowsAreWhole /\ JobsFollowRows /\ GeneratedHasLineage /\ DecidedByPerson /\ SensitiveNeedsSandbox
=============================================================================
