------------------------------ MODULE Platform ------------------------------
(***************************************************************************)
(* The receptionist's voice turns, which are the module it extends; the    *)
(* receptionist's decisions, the policy's and the reconciliation's; and    *)
(* the improvement engine.  Each has state of its own.                     *)
(***************************************************************************)
EXTENDS VoiceTurns

CONSTANTS
    Requests, Calls, Texts, Configs,                \* of ReceptionistWorkflow
    ClaimEvidence, Expiries, MaxTime,               \* of PolicyEnforcement
    Scripts, Extras, MaxAlterations,             \* of MigrationReconciliation
    Workers, Evidences, BatchLimit, MaxOpportunities, MaxCandidates, MaxDecisions,
    None

VARIABLES
    decision,
    claim, available, policyNow,
    catalog, recorded, open, pending, altered,
    configured, evidence, opportunities, candidates, lineage, approvals, job

policyVars == <<claim, available, policyNow>>
schemaVars == <<catalog, recorded, open, pending, altered>>
improvementVars == <<configured, evidence, opportunities, candidates, lineage, approvals, job>>

Decisions == INSTANCE ReceptionistWorkflow
Policies == INSTANCE PolicyEnforcement WITH Evidence <- ClaimEvidence, now <- policyNow
Schema == INSTANCE MigrationReconciliation
Improvement == INSTANCE ImprovementEngine

\* What the proofs assume of the constants.
ASSUME DecisionConstants == Decisions!ConstantsAssumed
ASSUME PolicyConstants == Policies!ConstantsAssumed
ASSUME SchemaConstants == Schema!ConstantsAssumed
ASSUME ImprovementConstants == Improvement!ConstantsAssumed

\* ReceptionistWorkflow, PolicyEnforcement, MigrationReconciliation: the verdict on a
\* request, a call, a claim or a migration agrees with what it is given on and with
\* the other verdicts on it.
DecisionsAreSound ==
    Decisions!DecisionsAreSound /\ Policies!PolicyIsSound /\ Schema!ReconciliationIsSound

\* ImprovementEngine: closed opportunities have their lineage, approvals a person,
\* and sensitive candidates wait for a sandbox.
ImprovementIsSound == Improvement!ImprovementIsSound
=============================================================================
