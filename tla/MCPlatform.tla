----------------------------- MODULE MCPlatform -----------------------------
(* The receptionist and the platform's services for TLC. A behaviour        *)
(* exercises one part, the one that "part" names, and leaves the state of   *)
(* the others as it began. The voice turns are the module it extends.       *)
EXTENDS Platform, Integers, Sequences, TLC

CONSTANTS
    Parts,
    w1, w2,                                 \* workers and jobs
    p1, p2                                  \* visitors, turns

VARIABLES
    part,
    now, events, scores, nodes, edges, snapshots, graphJob, alone,
    page, database, env, tables, migrated, read, shown, checks, answer, writes, requests

receptionVars == <<decision, policyVars, schemaVars, vars>>
graphVars == <<now, events, scores, nodes, edges, snapshots, graphJob, alone>>
dashboardVars == <<page, database, env, tables, migrated, read, shown, checks, answer, writes, requests>>
platformVars == <<improvementVars, graphVars, dashboardVars>>

-----------------------------------------------------------------------------
\* Every request type with every feature the tables and patterns look at.
AllRequests ==
    [type : {"schedule_meeting", "route_message", "request_callback", "qualify_lead",
             "partnership_request"},
     consent : BOOLEAN, email : {TRUE}, phone : {"none", "malformed"}, long : {FALSE},
     unsafe : BOOLEAN, unsafeName : {FALSE}, urgent : BOOLEAN, valuable : BOOLEAN,
     company : BOOLEAN]

\* Calls with no term of any intent, with terms of one, and with terms of two.
Hits(one, other) ==
    [i \in {"sales", "investor", "customer", "partner", "vendor", "media", "legal",
            "emergency", "personal", "spam"} |->
        IF i = one THEN 1 ELSE IF i = other THEN 2 ELSE 0]

AllCalls ==
    [hits : {Hits("none", "none"), Hits("sales", "none"), Hits("legal", "none"),
             Hits("emergency", "none"), Hits("spam", "none"), Hits("partner", "investor"),
             Hits("emergency", "customer")},
     unsafe : BOOLEAN, spamPhrases : {0, 1, 4}, phone : BOOLEAN, burst : {FALSE},
     company : BOOLEAN, consent : {TRUE}, meeting : BOOLEAN, callback : BOOLEAN,
     callMeBack : {FALSE}, urgent : BOOLEAN, valuable : {FALSE},
     language : {"stated", "hinted", "default"}]

AllTexts ==
    [topics : {t \in SUBSET {"urgent_executive_attention", "investor_interest",
                             "partnership_interest", "request_callback", "spam_or_low_value"} : TRUE},
     tones : SUBSET {"negative", "positive"}]

AllConfigs == [email : BOOLEAN, dispatch : BOOLEAN]

\* A claim with evidence of every type that is asked for, one of them of a
\* confidence beyond the scale, and an expiry.
SomeClaimEvidence ==
    [e1 |-> [type |-> "lineage", confidence |-> 120],
     e2 |-> [type |-> "approval", confidence |-> 45],
     e3 |-> [type |-> "lineage", confidence |-> 64]]

\* Two migrations with tables and one that makes the check of the first anew, as
\* 0018 does with one of 0017, and puts a trigger on the table of the second; and
\* an index, a column and a function that none has.
SchemaObject(type, name, parent) ==
    [type |-> type, name |-> name, parent |-> parent, definition |-> {"d"}]
SchemaTable(name, columns) ==
    {[type |-> "table", name |-> name, parent |-> None, definition |-> columns]} \union
    {SchemaObject("column", c, name) : c \in columns}
Statement(creates, drops, listed) == [creates |-> creates, drops |-> drops, listed |-> listed]
Again(o) == Statement({o}, {o}, TRUE)
SomeScripts ==
    [m1 |-> {Statement(SchemaTable("events", {"id", "kind"}) \union
                           {SchemaObject("check_constraint", "c", "events")}, {}, TRUE)},
     m2 |-> {Statement(SchemaTable("roles", {"id"}), {}, TRUE),
             Again(SchemaObject("function", "f", None))},
     m3 |-> {Again(SchemaObject("trigger", "t", "roles")),
             Statement({SchemaObject("check_constraint", "d", "events")},
                       {SchemaObject("check_constraint", "c", "events")}, FALSE)}]
SomeExtras ==
    {SchemaObject("index", "i", "roles"), SchemaObject("column", "kind", "roles"),
     SchemaObject("function", "g", None)}

\* What a rule of the intents finds alone, what the safety patterns find beside it,
\* and words that meet two rules or three.
Words(rules, injection, danger) ==
    [said |-> TRUE, rules |-> rules, injection |-> injection, danger |-> danger]
Hello == Words({}, FALSE, FALSE)
Contract == Words({"sensitive_request"}, FALSE, FALSE)
AllTranscripts ==
    {Silence, Hello, Words({}, TRUE, FALSE), Words({}, FALSE, TRUE), Words({}, TRUE, TRUE),
     Words({"prompt_injection", "emergency"}, FALSE, FALSE),
     Words({"schedule_meeting", "sensitive_request"}, FALSE, FALSE),
     Words({"schedule_meeting", "emergency"}, FALSE, FALSE),
     Words({"route_message", "sensitive_request"}, TRUE, FALSE),
     Words({"qualify_lead", "partnership_request", "sensitive_request"}, FALSE, FALSE),
     Words({"partnership_request", "support_request"}, FALSE, FALSE),
     Words({"request_callback", "prompt_injection"}, FALSE, TRUE)}
    \cup {Words({IntentRules[i]}, FALSE, FALSE) : i \in 1..9}
AllConsents ==
    {NoConsent} \cup
    {Consent(a, b, c, d, e) : a \in BOOLEAN, b \in BOOLEAN, c \in BOOLEAN, d \in BOOLEAN, e \in BOOLEAN}
SomeConsentPolicies ==
    {DefaultRuntimeConsentPolicy, ConsentPolicy(FALSE, FALSE, TRUE), ConsentPolicy(TRUE, TRUE, FALSE)}

\* One turn with everything that decides it, while the other never begins ...
Usual(i) == i.policy = DefaultRuntimeConsentPolicy /\ i.requested = {}
SomeInput ==
    CHOOSE i \in Inputs : Usual(i) /\ i.mode = "text_chat" /\ i.key = "r1" /\ i.scoped /\ i.stored
OneTurnInputs ==
    {(p1 :> i) @@ (p2 :> SomeInput) : i \in {j \in Inputs : j.key = "r1" /\ j.stored}}
OneTurn == Next /\ pc'[p2] = "ready" /\ UNCHANGED restarts

\* ... and two turns whose keys meet, around a restart.
TwoTurnsInputs ==
    [Turns -> {i \in Inputs : /\ Usual(i) /\ i.mode = "text_chat" /\ i.scoped /\ ~i.keepsRawAudio
                              /\ i.consent \in {NoConsent, Consent(TRUE, TRUE, FALSE, FALSE, FALSE)}}]
TwoTurns == Next /\ \A t \in Turns : result'[t].text \in {Silence, Contract, Hello}

IdleInputs == {[t \in Turns |-> SomeInput]}

-----------------------------------------------------------------------------
\* Two summaries, one at each detector's lower bound or just below it.
Evidence(posts, latency, blocks, errors, views, actions, misconfigured, unready) ==
    [requests |-> posts, latency |-> latency, blocks |-> blocks, errors |-> errors,
     views |-> views, actions |-> actions, misconfigured |-> misconfigured,
     unready |-> unready]

SomeEvidence ==
    {Evidence(5, 1500, 3, 2, 25, 2, 1, 1), Evidence(4, 900, 2, 2, 20, 1, 1, 2)}

\* Two jobs that overlap over one opportunity, and two decisions that overlap
\* over one candidate.  Telemetry that arrives once the opportunity is there
\* leads to no other, and no detection begins.
Generations ==
    /\ Improvement!Next /\ Len(approvals') <= 1
    /\ opportunities # <<>> =>
        /\ evidence' = evidence
        /\ \A w \in Workers : job'[w].at = "detecting" => job[w].at = "detecting"
Approvals == Improvement!Next /\ Len(candidates') <= 1 /\ evidence' = evidence

\* Two jobs that overlap over one visitor, with an action and a row that is
\* dropped; one job over a richer history that begins with a call, while a day
\* and a minute pass, the graph being built of two events at most; and one job over groups whose ids hold separators: the key
\* of the second reads as the first, the third's and fourth's are one, and so are
\* the edges of the fifth and sixth.
OneGroup == <<<<<<"v">>, <<"s">>, <<"x1">>>>>>
Overlaps == INSTANCE EngagementGraph WITH
    Groups <- OneGroup, Executives <- {<<"x1">>},
    Kinds <- {"call_click", "unknown"}, Contexts <- {TRUE}, Minutes <- {0},
    Jobs <- {w1, w2}, MaxEvents <- 2, job <- graphJob
History == INSTANCE EngagementGraph WITH
    Groups <- OneGroup, Executives <- {<<"x1">>},
    Kinds <- {"call_click", "email_click"}, Contexts <- {FALSE},
    Minutes <- {0, 1441}, Jobs <- {w1}, MaxEvents <- 3, job <- graphJob
Separated == INSTANCE EngagementGraph WITH
    Groups <- <<<<<<"v">>, <<"s">>, <<"x1">>>>,
                <<<<"v">>, <<"s", ":", ":", "x1">>, <<"x2">>>>,
                <<<<"v">>, <<"s", ":", ":", "t">>, <<"x1">>>>,
                <<<<"v", ":", ":", "s">>, <<"t">>, <<"x1">>>>,
                <<<<"v">>, <<"s", "->", "session:", "t">>, <<"x1">>>>,
                <<<<"v", "->", "session:", "s">>, <<"t">>, <<"x1">>>>>>,
    Executives <- {<<"x1">>, <<"x2">>}, Kinds <- {"card_view"}, Contexts <- {FALSE},
    Minutes <- {0, 1}, Jobs <- {w1}, MaxEvents <- 2, job <- graphJob

\* The row that is dropped comes first, if it comes, and a job fails only while it
\* runs alone.
OneDropped ==
    /\ Overlaps!Next
    /\ Len(events') = 2 => events'[2].kind = "call_click"
    /\ \A w, v \in {w1, w2} :
        (w # v /\ graphJob'[w] # graphJob[w] /\ graphJob'[w].at = "idle")
            => graphJob[v].at = "idle" \/ Overlaps!Finished(w)

\* No job fails, and nothing arrives while one writes.
WholeJobs ==
    /\ Separated!Next
    /\ graphJob[w1] # Separated!Idle =>
        /\ graphJob'[w1] = Separated!Idle => Separated!Finished(w1)
        /\ events' # events \/ now' # now => graphJob[w1].at = "reading"

CallHistory ==
    /\ History!Next
    /\ events' # <<>> => events'[1].kind = "call_click"
    /\ graphJob[w1].at \notin {"idle", "scoring"} => Len(events') <= 2
    /\ graphJob'[w1].at = "reading" => Len(events) <= 2

\* Of each table a row that is shown and one with a value the build does not know.
SomeRows ==
    [events |-> {[type |-> "card_view", executive |-> "ad-garner", age |-> 0],
                 [type |-> "call_click", executive |-> "sean-hall", age |-> 20],
                 [type |-> "legacy", executive |-> "sean-hall", age |-> 0]},
     scores |-> {[executive |-> "ad-garner", tier |-> "Cold Signal", score |-> 10],
                 [executive |-> "sean-hall", tier |-> "Strategic Opportunity", score |-> 90],
                 [executive |-> "sean-hall", tier |-> "legacy", score |-> 95]},
     nodes |-> {[type |-> "visitor"], [type |-> "session"]},
     edges |-> {[type |-> "visitor_has_session", source |-> 1, target |-> 2],
                [type |-> "legacy", source |-> 1, target |-> 1]},
     snapshots |-> {[executive |-> "ad-garner", tier |-> None, score |-> 0]},
     interactions |-> {[known |-> TRUE, executive |-> "ad-garner", status |-> "simulated", language |-> "en"],
                       [known |-> FALSE, executive |-> "ad-garner", status |-> "received", language |-> "ar"]},
     workflow |-> {[interaction |-> 1, event |-> "intent_classified", intent |-> "meeting"],
                   [interaction |-> 1, event |-> "score_urgency", intent |-> None],
                   [interaction |-> 2, event |-> "escalation_recommended", intent |-> None]},
     tasks |-> {[interaction |-> 1, type |-> "return_call", priority |-> "low"]},
     calls |-> {[known |-> TRUE, executive |-> "ad-garner"]},
     callEvents |-> {[call |-> 1, known |-> TRUE], [call |-> 1, known |-> FALSE]},
     sessions |-> {[known |-> TRUE]},
     outbound |-> {[executive |-> "ad-garner", approval |-> a] : a \in {"pending", "approved"}},
     telemetryEvents |-> {}, metrics |-> {},
     errors |-> {[subsystem |-> "telephony"], [subsystem |-> "improvement_engine"]},
     gates |-> {[subsystem |-> "system", decision |-> "blocked"]},
     opportunities |-> {[id |-> 0]},
     candidates |-> {[status |-> s, score |-> 1] : s \in {"needs_review", "approved"}},
     lineage |-> {[id |-> 0]},
     approvals |-> {[decision |-> "approved"]}]

Telephony(mode, outbound, approval) ==
    [mode |-> mode, provider |-> "mock", credentials |-> FALSE, outbound |-> outbound,
     approval |-> approval]

\* Every page, with three writes before and between its statements; and the
\* page of the telemetry, while its routes write it.
Dashboards == INSTANCE DashboardReads WITH
    Pages <- {"interactions", "intent", "graph", "receptionist", "telephony", "improvement"},
    Rows <- SomeRows, Configured <- BOOLEAN,
    Environments <- {Telephony("sandbox", "true", None), Telephony("other", None, "yes")},
    RequiredTables <- {"interaction_events", "voice_runtime_sessions"},
    ListLimit <- 2, ReadinessLimit <- 1, MaxWrites <- 3, MaxRequests <- 1
Observability == INSTANCE DashboardReads WITH
    Pages <- {"observability"},
    Rows <- [SomeRows EXCEPT !.errors = {[subsystem |-> "telephony"]}, !.gates = {}], Configured <- BOOLEAN,
    Environments <- {Telephony("sandbox", "true", None)},
    RequiredTables <- {"interaction_events", "voice_runtime_sessions"},
    ListLimit <- 2, ReadinessLimit <- 1, MaxWrites <- 2, MaxRequests <- 2

\* Of two requests the second is a readiness check.
Observed ==
    /\ Observability!Next
    /\ (requests = 1 /\ requests' = 2) => checks' # checks \/ answer' = "rate_limited"

IdlePages == Dashboards!Init /\ page = "intent" /\ database

-----------------------------------------------------------------------------
InitOfPart ==
    /\ part \in Parts
    /\ Decisions!Init
    /\ Policies!Init
    /\ Schema!Init
    /\ input \in CASE part = "turn" -> OneTurnInputs
                   [] part = "turns" -> TwoTurnsInputs
                   [] OTHER -> IdleInputs
    /\ Init
    /\ Improvement!Init
    /\ part # "generations" => configured /\ evidence = CHOOSE e \in SomeEvidence : TRUE
    /\ CASE part = "history" -> History!Init
         [] part = "separators" -> Separated!Init
         [] OTHER -> Overlaps!Init
    /\ CASE part = "dashboards" -> Dashboards!Init
         [] part = "observability" -> Observability!Init
         [] OTHER -> IdlePages

NextOfPart ==
    /\ UNCHANGED part
    /\ \/ part = "decisions" /\ Decisions!Next /\ UNCHANGED <<policyVars, schemaVars, vars, platformVars>>
       \/ part = "policies" /\ Policies!Next
          /\ UNCHANGED <<decision, schemaVars, vars, platformVars>>
       \/ part = "schema" /\ Schema!Next
          /\ UNCHANGED <<decision, policyVars, vars, platformVars>>
       \/ part = "turn" /\ OneTurn /\ UNCHANGED <<decision, policyVars, schemaVars, platformVars>>
       \/ part = "turns" /\ TwoTurns /\ UNCHANGED <<decision, policyVars, schemaVars, platformVars>>
       \/ part = "generations" /\ Generations /\ UNCHANGED <<receptionVars, graphVars, dashboardVars>>
       \/ part = "approvals" /\ Approvals /\ UNCHANGED <<receptionVars, graphVars, dashboardVars>>
       \/ part = "overlaps" /\ OneDropped /\ UNCHANGED <<receptionVars, improvementVars, dashboardVars>>
       \/ part = "history" /\ CallHistory /\ UNCHANGED <<receptionVars, improvementVars, dashboardVars>>
       \/ part = "separators" /\ WholeJobs /\ UNCHANGED <<receptionVars, improvementVars, dashboardVars>>
       \/ part = "dashboards" /\ Dashboards!Next /\ UNCHANGED <<receptionVars, improvementVars, graphVars>>
       \/ part = "observability" /\ Observed
          /\ UNCHANGED <<receptionVars, improvementVars, graphVars>>

SpecOfPart == InitOfPart /\ [][NextOfPart]_<<part, receptionVars, platformVars>>

\* Workers are interchangeable.
Symmetry == Permutations({w1, w2})

\* docs/POLYGLOT_RECEPTIONIST_WORKFLOWS.md: "Emergency and sensitive intents are
\* escalated to human review" (decideExecutiveAvailability looks for spam first).
SensitiveCallsAreReviewed == Decisions!SensitiveCallsAreReviewed

\* EngagementGraph.
EngagementIsSound ==
    /\ part = "overlaps" => Overlaps!EngagementIsSound
    /\ part = "history" => History!EngagementIsSound
    /\ part = "separators" => Separated!EngagementIsSound

\* DashboardReads.
DashboardsAreSound ==
    /\ part = "dashboards" => Dashboards!DashboardsAreSound
    /\ part = "observability" => Observability!DashboardsAreSound

=============================================================================
