--------------------------- MODULE TelephonyGates ---------------------------
(* The gates in front of a telephone call: the environment is read anew at  *)
(* every decision, outbound requests are made under one environment and     *)
(* decided on under another, readiness is stored and shown later, inbound   *)
(* calls follow their life cycle and routing rules are added.               *)
(*   services/telephony/src: telephony-safety-gates, live-voice-safety-     *)
(*     gates, outbound-call-request, provider-readiness, voice-runtime-     *)
(*     readiness, test-call-mode, twilio-provider, mock-telephony-provider, *)
(*     twilio-webhook-validator, inbound-webhook, call-lifecycle,           *)
(*     routing-policy                                                       *)
(*   apps/dashboard: live-provider routes and live-provider-queries         *)
(* Secrets are present or absent; wording and logging are left out.         *)
EXTENDS Naturals, Sequences

CONSTANTS
    Requests, Calls,      \* outbound requests and inbound calls
    Tenants, Cards,       \* owners of routing rules
    Environments,         \* bound: the environments that are deployed
    Routes,               \* bound: readiness routes that are called
    MaxRules,             \* bound: routing rules
    None                  \* nothing stored; a rule for every card of its tenant

VARIABLES
    env,                  \* process.env, as the next decision reads it
    outbound,             \* request -> None or its approval and status
    dialled,              \* requests the live gate let through
    approvedBy,           \* requests a person approved
    calls,                \* inbound call -> the statuses it had
    checks,               \* latest provider_readiness_checks, or None
    voiceSessions,        \* the latest row of voice_runtime_sessions, if any
    rules                 \* routing rules, in the order they are listed

vars == <<env, outbound, dialled, approvedBy, calls, checks, voiceSessions, rules>>

(***************************************************************************)
(* Reading the environment.                                                *)
(***************************************************************************)
Flags == {"outboundCalls", "voiceAgent", "requireApproval", "approvalRequired",
          "productionCalls", "liveInbound", "testMode", "signing"}

FlagValues == {"unset", "true", "other"}

Settings == Flags \cup {"provider", "mode", "node", "secret", "twilio", "openAi", "realtime", "database"}

Defaults ==
    [f \in Settings |->
        CASE f = "node"     -> "development"
          [] f = "secret"   -> "none"
          [] f = "database" -> TRUE
          [] f \in {"twilio", "openAi", "realtime"} -> FALSE
          [] OTHER          -> "unset"]

\* Everything live calls need.
Live ==
    [f \in Settings |->
        CASE f = "provider" -> "twilio"
          [] f = "secret"   -> "strong"
          [] f \in {"mode", "node"} -> "production"
          [] f \in {"twilio", "openAi", "realtime", "database"} -> TRUE
          [] f \in {"requireApproval", "testMode"} -> "other"
          [] OTHER          -> "true"]

\* Mock calls without approval.
MockCalls == [Defaults EXCEPT !.outboundCalls = "true", !.requireApproval = "other"]

Values(field) ==
    CASE field \in Flags      -> FlagValues
      [] field = "provider"   -> {"unset", "mock", "twilio", "unknown"}
      [] field = "mode"       -> {"unset", "disabled", "mock", "sandbox", "production"}
      [] field = "node"       -> {"development", "production"}
      [] field = "secret"     -> {"none", "weak", "strong"}
      [] OTHER                -> BOOLEAN

\* Environments one variable away from a base.
EnvironmentsAround(base) ==
    UNION {{[base EXCEPT ![field] = v] : v \in Values(field)} : field \in Settings}

ReadBoolean(value, fallback) == IF value = "unset" THEN fallback ELSE value = "true"

\* getTelephonyRuntimeConfig: HUMAN_APPROVAL_REQUIRED is not read here.
TelephonyRuntimeConfig ==
    [outbound |-> ReadBoolean(env.outboundCalls, FALSE),
     agent    |-> ReadBoolean(env.voiceAgent, FALSE),
     approval |-> ReadBoolean(env.requireApproval, TRUE),
     provider |-> IF env.provider \in {"mock", "twilio"} THEN env.provider ELSE "mock"]

ReadProviderExecutionMode == IF env.mode = "unset" THEN "disabled" ELSE env.mode

LiveProviderRuntimeConfig ==
    [outbound   |-> ReadBoolean(env.outboundCalls, FALSE),
     agent      |-> ReadBoolean(env.voiceAgent, FALSE),
     approval   |-> ReadBoolean(IF env.requireApproval # "unset" THEN env.requireApproval
                                ELSE env.approvalRequired, TRUE),
     production |-> ReadBoolean(env.productionCalls, FALSE),
     inbound    |-> ReadBoolean(env.liveInbound, FALSE),
     testMode   |-> ReadBoolean(env.testMode, TRUE),
     signing    |-> ReadBoolean(env.signing, FALSE),
     mode       |-> ReadProviderExecutionMode,
     node       |-> env.node,
     strong     |-> env.secret = "strong",
     provider   |-> IF env.provider = "twilio" THEN "twilio" ELSE "mock",
     twilio     |-> env.twilio,
     openAi     |-> env.openAi,
     runtime    |-> IF env.realtime THEN "openai_realtime" ELSE "none"]

(***************************************************************************)
(* The gates.                                                              *)
(***************************************************************************)
Reasons(conditions) == {r \in DOMAIN conditions : conditions[r]}

EvaluateOutboundCallSafety(c, approvalStatus) ==
    Reasons([OUTBOUND_CALLS_DISABLED |-> ~c.outbound,
             VOICE_AGENT_ENABLED_BUT_PHASE_9_BLOCKS_EXECUTION |-> c.agent,
             HUMAN_APPROVAL_REQUIRED |-> c.approval /\ approvalStatus # "approved",
             REAL_PROVIDER_EXECUTION_NOT_IMPLEMENTED |-> c.provider # "mock"])

EvaluateProductionVoiceSafety(c) ==
    Reasons([PROVIDER_NOT_TWILIO |-> c.provider # "twilio",
             TWILIO_CONFIG_MISSING |-> ~c.twilio,
             OPENAI_CONFIG_MISSING |-> ~c.openAi,
             VOICE_AGENT_DISABLED |-> ~c.agent,
             TEST_MODE_ENABLED |-> c.testMode,
             LIVE_INBOUND_DISABLED |-> ~c.inbound,
             PRODUCTION_CALLS_DISABLED |-> ~c.production,
             HUMAN_APPROVAL_REQUIRED |-> c.approval])

SafetyGateStatus(c, reasons) ==
    IF reasons = {} THEN "approved_for_production"
    ELSE IF c.testMode THEN "test_mode_only"
    ELSE "missing_configuration"

\* MUTANT: a request that is ready needs no approval.
LiveSafetyOfReady(c, r) ==
    EvaluateProductionVoiceSafety(c) \cup
    Reasons([OUTBOUND_CALLS_DISABLED |-> ~c.outbound,
             OUTBOUND_REQUEST_NOT_APPROVED |->
                 r.approval # "approved" /\ r.status \notin {"approved", "ready_for_provider"}])

EvaluateOutboundLiveCallSafety(c, r) ==
    EvaluateProductionVoiceSafety(c) \cup
    Reasons([OUTBOUND_CALLS_DISABLED |-> ~c.outbound,
             OUTBOUND_REQUEST_NOT_APPROVED |->
                 r.approval # "approved" \/ r.status \notin {"approved", "ready_for_provider"}])

ProductionCallsAllowed(c) == ~c.testMode /\ c.production

\* validateTwilioWebhookSignature, for a header that is absent, wrong or right.
WebhookAccepted(c, header, productionMode) ==
    IF ~c.signing THEN ~productionMode ELSE c.twilio /\ header = "right"

(***************************************************************************)
(* Readiness.                                                              *)
(***************************************************************************)
Passed(ok, otherwise) == IF ok THEN "passed" ELSE otherwise

ValidateSandboxProviderReadiness(c) ==
    [sandbox_provider_mode |-> Passed(c.mode = "sandbox", "skipped"),
     sandbox_webhook_signature_policy |->
         IF c.mode # "sandbox" THEN "skipped" ELSE Passed(c.strong, "failed"),
     sandbox_environment_gate |->
         Passed(~(c.node = "production" /\ c.mode = "sandbox"), "failed"),
     production_provider_mode_gate |-> Passed(c.mode # "production", "failed")]

ValidateTwilioReadiness(c) ==
    [telephony_provider |-> Passed(c.provider = "twilio", "skipped"),
     twilio_required_configuration |-> Passed(c.twilio, "failed"),
     twilio_webhook_signature_policy |-> Passed(c.signing, "warning"),
     live_inbound_gate |-> Passed(c.inbound, "warning")]

ValidateOpenAiRealtimeReadiness(c) ==
    [voice_runtime_provider |-> Passed(c.runtime = "openai_realtime", "skipped"),
     openai_realtime_configuration |-> Passed(c.openAi, "failed"),
     voice_agent_gate |-> Passed(c.agent, "warning"),
     voice_test_mode |-> Passed(~c.testMode, "warning")]

\* The checks of the one list, by the function that adds them.
ProviderReadinessChecks(c) ==
    [sandbox |-> ValidateSandboxProviderReadiness(c),
     twilio  |-> ValidateTwilioReadiness(c),
     openAi  |-> ValidateOpenAiRealtimeReadiness(c),
     mock    |-> [mock_provider_default |-> Passed(c.provider = "mock", "skipped")]]

PrepareVoiceRuntimeReadiness(c) ==
    LET reasons == EvaluateProductionVoiceSafety(c)
    IN  [provider |-> c.runtime, testMode |-> c.testMode, gate |-> SafetyGateStatus(c, reasons),
         status |-> IF ~(c.runtime = "openai_realtime" /\ c.openAi) THEN "not_configured"
                    ELSE IF c.testMode THEN "prepared"
                    ELSE IF reasons = {} THEN "configured"
                    ELSE "blocked"]

\* getLiveProviderDashboardData: the stored checks, if there are any ...
DashboardChecks(c) == IF env.database /\ checks # None THEN checks ELSE ProviderReadinessChecks(c)

\* ... beside a summary made now.
ProductionVoiceAllowed(c) == PrepareVoiceRuntimeReadiness(c).status = "configured"

(***************************************************************************)
(* Routing.                                                                *)
(***************************************************************************)
RuleTypes == {"business_hours", "after_hours", "holiday", "executive_unavailable", "language",
              "overflow", "emergency", "callback_required", "priority", "escalation"}

\* The condition is the language or the maxDepth of the rule, or it has none.
Rule == [tenant : Tenants, card : Cards \cup {None}, type : RuleTypes, condition : {None, 1},
         action : {"escalate", "take_message"}, priority : 1..2, enabled : BOOLEAN]

Contexts == [tenant : Tenants, card : Cards, emergency : BOOLEAN, afterHours : BOOLEAN,
             holiday : BOOLEAN, available : BOOLEAN, language : {None, 1}, queueDepth : {0, 1}]

TypeMatches(rule, context) ==
    CASE rule.type = "after_hours"           -> context.afterHours
      [] rule.type = "business_hours"        -> ~context.afterHours /\ ~context.holiday
      [] rule.type = "emergency"             -> context.emergency
      [] rule.type = "executive_unavailable" -> ~context.available
      [] rule.type = "holiday"               -> context.holiday
      [] rule.type = "language"              -> rule.condition = context.language
      [] rule.type = "overflow"              -> rule.condition # None /\ context.queueDepth >= rule.condition
      [] OTHER                               -> TRUE

ConditionMatches(rule, context) ==
    /\ rule.enabled
    /\ rule.card \in {None, context.card}
    /\ rule.tenant = context.tenant
    /\ TypeMatches(rule, context)

Matching(context, list) == {i \in DOMAIN list : ConditionMatches(list[i], context)}

\* The sort is stable: the first listed of the lowest priority.
ComesFirst(i, positions, list) ==
    /\ i \in positions
    /\ \A j \in positions :
          \/ list[i].priority < list[j].priority
          \/ list[i].priority = list[j].priority /\ i <= j

EvaluateTelephonyRouting(context, list) ==
    LET matching == Matching(context, list)
        rule == list[CHOOSE i \in matching : ComesFirst(i, matching, list)]
    IN  IF matching = {} THEN [action |-> "queue_callback", approval |-> TRUE]
        ELSE [action |-> rule.action,
              approval |-> rule.action = "escalate" \/ rule.type = "emergency"]

-----------------------------------------------------------------------------
Init ==
    /\ env = Defaults
    /\ outbound = [r \in Requests |-> None]
    /\ dialled = {}
    /\ approvedBy = {}
    /\ calls = [c \in Calls |-> <<>>]
    /\ checks = None
    /\ voiceSessions = {}
    /\ rules = <<>>

\* A deployment with another environment.
Deploy(e) ==
    /\ env' = e
    /\ UNCHANGED <<outbound, dialled, approvedBy, calls, checks, voiceSessions, rules>>

CreateOutboundCallRequest(r) ==
    LET c == TelephonyRuntimeConfig
        approval == IF ~c.approval /\ c.provider = "mock" THEN "not_required_for_mock"
                    ELSE "pending"
    IN  /\ outbound[r] = None
        /\ outbound' = [outbound EXCEPT ![r] =
              [approval |-> approval,
               status |-> IF EvaluateOutboundCallSafety(c, approval) = {}
                          THEN "ready_for_provider" ELSE "pending_approval"]]
        /\ UNCHANGED <<env, dialled, approvedBy, calls, checks, voiceSessions, rules>>

\* A person decides on a request that waits.
Decide(r, approval) ==
    /\ outbound[r] # None /\ outbound[r].approval = "pending"
    /\ outbound' = [outbound EXCEPT ![r] =
          [approval |-> approval, status |-> IF approval = "approved" THEN "approved" ELSE "blocked"]]
    /\ approvedBy' = IF approval = "approved" THEN approvedBy \cup {r} ELSE approvedBy
    /\ UNCHANGED <<env, dialled, calls, checks, voiceSessions, rules>>

\* A caller asks the live gate and dials when it allows.
Dial(r) ==
    /\ outbound[r] # None
    /\ EvaluateOutboundLiveCallSafety(LiveProviderRuntimeConfig, outbound[r]) = {}
    /\ dialled' = dialled \cup {r}
    /\ UNCHANGED <<env, outbound, approvedBy, calls, checks, voiceSessions, rules>>

\* normalizeInboundWebhook, of either provider, says received whatever the
\* provider's own status; a malformed payload or an unknown executive throws.
NormalizeInboundWebhook(c) ==
    /\ calls[c] = <<>>
    /\ calls' = [calls EXCEPT ![c] = <<"received">>]
    /\ UNCHANGED <<env, outbound, dialled, approvedBy, checks, voiceSessions, rules>>

AllowedTransitions ==
    [received          |-> {"queued", "blocked", "requires_approval"},
     requires_approval |-> {"queued", "blocked"},
     queued            |-> {"ringing"},
     ringing           |-> {"in_progress"},
     in_progress       |-> {"completed", "failed"},
     simulated         |-> {"received"},
     blocked |-> {}, cancelled |-> {}, completed |-> {}, failed |-> {}]

TransitionCallStatus(c, to) ==
    /\ calls[c] # <<>>
    /\ to \in AllowedTransitions[calls[c][Len(calls[c])]]
    /\ calls' = [calls EXCEPT ![c] = Append(@, to)]
    /\ UNCHANGED <<env, outbound, dialled, approvedBy, checks, voiceSessions, rules>>

\* GET live-provider/readiness stores the checks when it can.
StoreReadiness ==
    /\ "readiness" \in Routes /\ env.database
    /\ checks' = ProviderReadinessChecks(LiveProviderRuntimeConfig)
    /\ UNCHANGED <<env, outbound, dialled, approvedBy, calls, voiceSessions, rules>>

\* POST live-provider/voice-runtime.
StoreVoiceSession ==
    /\ "voice-runtime" \in Routes /\ env.database
    /\ voiceSessions' = {PrepareVoiceRuntimeReadiness(LiveProviderRuntimeConfig)}
    /\ UNCHANGED <<env, outbound, dialled, approvedBy, calls, checks, rules>>

AddRule(rule) ==
    /\ Len(rules) < MaxRules
    /\ rules' = Append(rules, rule)
    /\ UNCHANGED <<env, outbound, dialled, approvedBy, calls, checks, voiceSessions>>

Deployments == \E e \in Environments : Deploy(e)

CallSteps ==
    \/ \E r \in Requests :
          \/ CreateOutboundCallRequest(r)
          \/ \E approval \in {"approved", "denied"} : Decide(r, approval)
          \/ Dial(r)
    \/ \E c \in Calls :
          \/ NormalizeInboundWebhook(c)
          \/ \E to \in DOMAIN AllowedTransitions : TransitionCallStatus(c, to)

ReadinessSteps == StoreReadiness \/ StoreVoiceSession

RuleSteps == \E rule \in Rule : AddRule(rule)

Next == Deployments \/ CallSteps \/ ReadinessSteps \/ RuleSteps

Spec == Init /\ [][Next]_vars
-----------------------------------------------------------------------------
\* Requests and calls have the statuses of the types package.
TypeOK ==
    /\ env \in Environments \cup {Defaults}
    /\ \A r \in Requests : outbound[r] # None =>
          outbound[r] \in [approval : {"pending", "approved", "denied", "not_required_for_mock"},
                           status : {"pending_approval", "approved", "blocked", "ready_for_provider"}]
    /\ \A c \in Calls : calls[c] \in Seq(DOMAIN AllowedTransitions)

\* However the environment changes between a request and its call, a call is
\* dialled only for a request that a person approved, and the gate of the mock
\* provider and the live gate never both let one through.
ApprovedBeforeDialled ==
    /\ dialled \subseteq approvedBy
    /\ \A r \in Requests : outbound[r] # None =>
          ~ /\ EvaluateOutboundCallSafety(TelephonyRuntimeConfig, outbound[r].approval) = {}
            /\ EvaluateOutboundLiveCallSafety(LiveProviderRuntimeConfig, outbound[r]) = {}

\* The checks of what the live gate does not read: TELEPHONY_PROVIDER_MODE with its
\* signing secret, and the signing of webhooks.  Each may fail or warn while the
\* gate lets a call through.
CheckedBesideGate ==
    {"sandbox_webhook_signature_policy", "sandbox_environment_gate",
     "production_provider_mode_gate", "twilio_webhook_signature_policy"}

\* The reasons of the live gate that no check of the list looks at.
GatedBesideChecks == {"PRODUCTION_CALLS_DISABLED", "HUMAN_APPROVAL_REQUIRED"}

\* A list of all thirteen checks has nothing against live calls: none fails or warns.
ListIsClear(list) ==
    /\ list.twilio.telephony_provider = "passed"
    /\ \A f \in DOMAIN list : \A name \in DOMAIN list[f] \ CheckedBesideGate :
          list[f][name] \in {"passed", "skipped"}

\* The readiness checks, the voice runtime, the test-call mode, the dashboard and
\* the webhook validator each judge the configuration for themselves.  Apart from
\* what only one side looks at, a list made now is clear exactly when the live gate
\* has no reason to refuse; the voice runtime is configured only under an open gate.
ReadinessAgreesWithGate ==
    LET c == LiveProviderRuntimeConfig
        reasons == EvaluateProductionVoiceSafety(c)
        allowed == reasons = {}
    IN  /\ ListIsClear(ProviderReadinessChecks(c)) <=> reasons \subseteq GatedBesideChecks
        /\ checks = None /\ allowed => ListIsClear(DashboardChecks(c))
        /\ allowed =>
              /\ ProductionCallsAllowed(c)
              /\ ~WebhookAccepted(c, "wrong", TRUE) /\ ~WebhookAccepted(c, "absent", TRUE)
        /\ ProductionVoiceAllowed(c) => allowed
        /\ \A s \in voiceSessions : s.gate = "approved_for_production" => ~s.testMode

\* A call that was answered had been queued and had rung.
AnsweredCallsRang ==
    \A c \in Calls : \A i \in DOMAIN calls[c] :
        calls[c][i] \in {"in_progress", "completed", "failed"} =>
            \E j, k \in 1..(i - 1) : j < k /\ calls[c][j] = "queued" /\ calls[c][k] = "ringing"

IsFor(rule, context) == rule.tenant = context.tenant /\ rule.card \in {None, context.card}

\* A rule of another tenant or of another card never changes where a call goes, and
\* a rule that matches gives way only to one that is as urgent.
RoutingIsLocal ==
    \A i \in DOMAIN rules : \A context \in Contexts :
        LET verdict == EvaluateTelephonyRouting(context, rules)
            others == [j \in DOMAIN rules \ {i} |-> rules[j]]
        IN  /\ ~IsFor(rules[i], context) => verdict = EvaluateTelephonyRouting(context, others)
            /\ i \in Matching(context, rules) =>
                  \E j \in Matching(context, rules) :
                      /\ rules[j].priority <= rules[i].priority
                      /\ verdict.action = rules[j].action
                      /\ rules[j].type = "emergency" => verdict.approval

\* The gates hold together: no call without an approval, no readiness that
\* contradicts the gate, no answered call that never rang, no foreign rule.
GatesAreSound ==
    TypeOK /\ ApprovedBeforeDialled /\ ReadinessAgreesWithGate /\ AnsweredCallsRang
    /\ RoutingIsLocal

-----------------------------------------------------------------------------
(***************************************************************************)
(* What the proofs rest on: the parts of the inductive invariant.          *)
(***************************************************************************)
StoresAreWhole ==
    /\ DOMAIN outbound = Requests /\ DOMAIN calls = Calls
    /\ rules \in Seq(Rule)

\* A request says approved only because a person approved it.
ApprovalIsAPersons ==
    \A r \in Requests : outbound[r] # None /\ outbound[r].approval = "approved" => r \in approvedBy

\* A call that rings was queued before.
RingingWasQueued ==
    \A c \in Calls : \A i \in DOMAIN calls[c] :
        calls[c][i] = "ringing" => \E j \in 1..(i - 1) : calls[c][j] = "queued"

\* A stored voice session has a gate that its own mode permits.
SessionsAreConsistent ==
    \A s \in voiceSessions : s.gate = "approved_for_production" => ~s.testMode

IndInv ==
    /\ TypeOK /\ StoresAreWhole
    /\ dialled \subseteq approvedBy /\ ApprovalIsAPersons
    /\ RingingWasQueued /\ AnsweredCallsRang /\ SessionsAreConsistent
=============================================================================
