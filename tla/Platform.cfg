SPECIFICATION SpecOfPart
CONSTANTS
    Parts = {"decisions", "policies", "schema", "turn", "turns",
             "generations", "approvals", "overlaps", "history", "separators", "dashboards", "observability"}
    w1 = w1  w2 = w2  p1 = p1  p2 = p2  None = None
    Turns = {p1, p2}
    ReplayKeys = {"r1", "r2"}
    Modes = {"text_chat", "voice_chat", "phone_simulation"}
    Transcripts <- AllTranscripts
    Consents <- AllConsents
    ConsentPolicies <- SomeConsentPolicies
    Requested = {{}, {"recording"}, {"live_voice"}}
    Restarts = 1
    Requests <- AllRequests
    Calls <- AllCalls
    Texts <- AllTexts
    Configs <- AllConfigs
    ClaimEvidence <- SomeClaimEvidence
    Expiries = {1}
    MaxTime = 2
    Scripts <- SomeScripts
    Extras <- SomeExtras
    MaxAlterations = 1
    Workers = {w1, w2}
    Evidences <- SomeEvidence
    BatchLimit = 1
    MaxOpportunities = 1
    MaxCandidates = 2
    MaxDecisions = 2
INVARIANTS DecisionsAreSound VoiceTurnsAreSafe OneTurnPerKey
    ImprovementIsSound EngagementIsSound DashboardsAreSound
SYMMETRY Symmetry
CHECK_DEADLOCK FALSE
