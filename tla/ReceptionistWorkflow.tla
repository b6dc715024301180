------------------------ MODULE ReceptionistWorkflow ------------------------
(* What the receptionist decides about one request, one call, one simulated *)
(* interaction. The decisions are pure functions of the features their      *)
(* patterns and tables tell apart; a text is the record of its features.    *)
(* "decision" holds the last one made, with the input it was made for.      *)
EXTENDS Integers, Sequences, FiniteSets

CONSTANTS
    Requests,       \* requests to run the workflow for
    Calls,          \* inbound calls
    Texts,          \* texts of simulated interactions
    Configs         \* provider configurations

VARIABLE decision

RequestTypes == {"schedule_meeting", "route_message", "request_callback", "qualify_lead",
                 "general_inquiry", "partnership_request", "support_request"}

Least(a, b) == IF a < b THEN a ELSE b

-----------------------------------------------------------------------------
(* One request: safety, lead, trust, and the steps of its run. *)

\* The reasons for which a request is blocked, whatever the rate limit says.
EvaluateReceptionistSafety(r) ==
    {reason \in {"consent_required", "invalid_email", "invalid_phone", "message_too_large",
                 "prompt_injection_guard_blocked", "prompt_attack_pattern"} :
        CASE reason = "consent_required" -> ~r.consent
          [] reason = "invalid_email" -> ~r.email
          [] reason = "invalid_phone" -> r.phone = "malformed"
          [] reason = "message_too_large" -> r.long
          [] reason = "prompt_injection_guard_blocked" -> r.unsafe \/ r.unsafeName
          [] reason = "prompt_attack_pattern" -> r.unsafe}

LeadScore(r) ==
    Least(100,
        (IF r.urgent THEN 35 ELSE 0) + (IF r.valuable THEN 30 ELSE 0)
        + (IF r.type \in {"qualify_lead", "partnership_request"} THEN 25 ELSE 10)
        + (IF r.company THEN 10 ELSE 0))

Urgency(r) ==
    CASE LeadScore(r) >= 75 -> "urgent"
      [] LeadScore(r) \in 50 .. 74 -> "high"
      [] LeadScore(r) \in 25 .. 49 -> "medium"
      [] OTHER -> "low"

RequestTypeToCallIntent(type) ==
    CASE type = "partnership_request" -> "partner"
      [] type = "qualify_lead" -> "sales"
      [] type \in {"request_callback", "schedule_meeting", "support_request"} -> "customer"
      [] OTHER -> "unknown"

\* Scores never leave 0..100; a confidence is a percentage.
CalculateVoiceTrustScore(verified, repeats, company, confidence, intent, spamRisk) ==
    LET score ==
            35 + (IF verified THEN 20 ELSE 0) + Least(20, 5 * repeats)
            + (IF company THEN 15 ELSE 0) + (IF confidence >= 75 THEN 10 ELSE -10)
            - (IF intent = "spam" THEN 45 ELSE 0)
            - (IF intent \in {"legal", "emergency"} THEN 10 ELSE 0)
            - (IF spamRisk >= 70 THEN 30 ELSE 0)
    IN  IF score < 0 THEN 0 ELSE Least(100, score)

Tier(score) ==
    CASE score >= 80 -> "trusted"
      [] score \in 60 .. 79 -> "known"
      [] score \in 35 .. 59 -> "unverified"
      [] OTHER -> "risky"

RequiresHumanReview(r) == Urgency(r) \in {"high", "urgent"} \/ r.type = "partnership_request"

StatusForCommandSubmission(config, review) ==
    CASE ~config.email -> "provider_unconfigured"
      [] config.email /\ review -> "requires_human_review"
      [] OTHER -> IF config.dispatch THEN "queued" ELSE "configured"

Stages == <<"receive_request", "validate_consent", "classify_language",
            "classify_request_type", "score_urgency", "route_to_executive",
            "create_event_ledger_record", "create_callback_or_meeting_request",
            "prepare_email_notification", "submit_communications_command",
            "dashboard_visibility", "audit_log">>

\* A request is blocked by the rate limit or by its own safety reasons; every
\* stage is a step of the run all the same.
RunReceptionistWorkflow(r, withinLimit, config) ==
    LET reasons == (IF withinLimit THEN {} ELSE {"rate_limit_exceeded"})
                   \union EvaluateReceptionistSafety(r)
        status  == IF reasons # {} THEN "blocked_by_policy"
                   ELSE StatusForCommandSubmission(config, RequiresHumanReview(r))
        StepStatus(i) ==
            CASE i = 1 -> "queued"
              [] i \in 2 .. 9 -> IF reasons # {} THEN "blocked_by_policy" ELSE "queued"
              [] i = 10 -> IF status = "configured" THEN "queued" ELSE status
              [] OTHER -> status
    IN  [providerStatus |-> status, blockedReasonCodes |-> reasons,
         requiresHumanReview |-> RequiresHumanReview(r), urgency |-> Urgency(r),
         trustScore |-> CalculateVoiceTrustScore(r.company, IF r.company THEN 1 ELSE 0, r.company,
                            85, RequestTypeToCallIntent(r.type), 0),
         callbackRequest |-> r.type = "request_callback",
         calendarRequest |-> r.type = "schedule_meeting",
         steps |-> [i \in 1 .. Len(Stages) |-> [stage |-> Stages[i], status |-> StepStatus(i)]]]

-----------------------------------------------------------------------------
(* The front office: every node runs, in order, whatever the ones before it *)
(* said; a node that wants a person's approval only says so.                *)

FrontOfficeNodes ==
    <<"InboundCallTrigger", "ChatMessageTrigger", "VoiceChatTrigger", "FormSubmitTrigger",
      "ExecutiveLookup", "CallerLookup", "LanguageDetection", "ConsentDisclosure",
      "IntentClassification", "UrgencyScoring", "VoiceTrustScoring", "AvailabilityPolicy",
      "CalendarLookup", "CallbackScheduler", "AppointmentScheduler", "MessageCapture",
      "LeadQualification", "CallTransfer", "SpamFilter", "HumanApproval",
      "EventLedgerWrite", "ContactGraphUpdate", "NotificationSend", "ReceptionistSummary">>

FrontOfficeUrgency(type) ==
    CASE type \in {"partnership_request", "qualify_lead"} -> 72
      [] type \in {"request_callback", "schedule_meeting"} -> 58
      [] OTHER -> 36

PriorityFromUrgency(score) ==
    CASE score >= 75 -> "urgent" [] score \in 60 .. 74 -> "high"
      [] score \in 40 .. 59 -> "medium" [] OTHER -> "low"

RequestTypeToAction(type) ==
    CASE type = "partnership_request" -> "request_human_approval"
      [] type = "qualify_lead" -> "qualify_lead"
      [] type = "request_callback" -> "request_callback"
      [] type = "schedule_meeting" -> "book_meeting"
      [] OTHER -> "take_message"

RequestTypeToTask(type) ==
    CASE type = "partnership_request" -> "review_transcript"
      [] type = "qualify_lead" -> "qualify_lead"
      [] type = "request_callback" -> "callback"
      [] type = "schedule_meeting" -> "appointment"
      [] OTHER -> "message"

CreateReceptionistInteraction(r) ==
    [action |-> RequestTypeToAction(r.type),
     status |-> IF r.type = "request_callback" THEN "callback_queued" ELSE "received",
     trustScore |-> IF r.company THEN 64 ELSE 42,
     urgencyScore |-> FrontOfficeUrgency(r.type),
     urgency |-> PriorityFromUrgency(FrontOfficeUrgency(r.type))]

ExecuteWorkflow(r, providerStatus) ==
    [i \in 1 .. Len(FrontOfficeNodes) |->
        [nodeId |-> FrontOfficeNodes[i],
         status |-> IF FrontOfficeNodes[i] = "HumanApproval" /\ r.type = "partnership_request"
                    THEN "requires_human_review" ELSE providerStatus]]

CreateFrontOfficeWorkflowRun(r, providerStatus) ==
    [interaction |-> CreateReceptionistInteraction(r),
     task |-> [taskType |-> RequestTypeToTask(r.type), status |-> "queued"],
     nodes |-> ExecuteWorkflow(r, providerStatus)]

-----------------------------------------------------------------------------
(* One inbound call. call.hits counts the terms of each intent. *)

IntentOrder == <<"sales", "investor", "customer", "partner", "vendor", "media", "legal",
                 "emergency", "personal", "spam">>
SensitiveIntents == {"legal", "emergency", "investor"}

\* The intent with the most hits; of several, the first in the table.
RoutePolyglotCallIntent(hits) ==
    LET Best(i) ==
            /\ hits[IntentOrder[i]] > 0
            /\ \A j \in DOMAIN IntentOrder : hits[IntentOrder[j]] <= hits[IntentOrder[i]]
            /\ \A j \in 1 .. i - 1 : hits[IntentOrder[j]] < hits[IntentOrder[i]]
    IN  IF \E i \in DOMAIN IntentOrder : Best(i)
        THEN IntentOrder[CHOOSE i \in DOMAIN IntentOrder : Best(i)]
        ELSE "unknown"

\* A caller's language: the one stated, else the one hinted at by the text,
\* else English by default.
LanguageConfidence(call) ==
    CASE call.language = "stated" -> 92 [] call.language = "hinted" -> 78 [] OTHER -> 55

SpamRisk(call) ==
    Least(100, (IF call.unsafe THEN 55 ELSE 0) + 20 * call.spamPhrases
               + (IF call.phone THEN 0 ELSE 20) + (IF call.burst THEN 35 ELSE 0))

Blocked(call) == SpamRisk(call) >= 75

CallIntent(call) == IF Blocked(call) THEN "spam" ELSE RoutePolyglotCallIntent(call.hits)

CallTrust(call) ==
    CalculateVoiceTrustScore(call.company, IF call.company THEN 1 ELSE 0, call.company,
                             LanguageConfidence(call), CallIntent(call), SpamRisk(call))

EstimateUrgencyScore(call) ==
    LET intent == RoutePolyglotCallIntent(call.hits)
    IN  Least(100, (IF intent = "emergency" THEN 85
                    ELSE IF intent \in {"legal", "investor"} THEN 70 ELSE 45)
                   + (IF call.urgent THEN 20 ELSE 0))

\* The default policy, the only one: no transfers, meetings and callbacks on.
DefaultPolicy == [transferEnabled |-> FALSE, scheduleEnabled |-> TRUE, callbackEnabled |-> TRUE,
                  requireHumanApprovalFor |-> SensitiveIntents]

SensitiveAskedLast(call, policy) ==
    LET intent == CallIntent(call)
    IN  IF intent = "spam" \/ Tier(CallTrust(call)) = "risky" THEN "block_spam"
        ELSE IF call.meeting /\ policy.scheduleEnabled THEN "book_meeting"
        ELSE IF call.callback /\ policy.callbackEnabled THEN "request_callback"
        ELSE IF intent \in policy.requireHumanApprovalFor THEN "request_human_approval"
        ELSE "take_message"

DecideExecutiveAvailability(call, policy) ==
    LET intent == CallIntent(call)
    IN  IF intent = "spam" \/ Tier(CallTrust(call)) = "risky" THEN "block_spam"
        ELSE IF intent \in policy.requireHumanApprovalFor THEN "request_human_approval"
        ELSE IF policy.transferEnabled /\ CallTrust(call) >= 85 THEN "transfer_call"
        ELSE IF call.meeting /\ policy.scheduleEnabled THEN "book_meeting"
        ELSE IF call.callback /\ policy.callbackEnabled THEN "request_callback"
        ELSE IF intent \in {"sales", "partner"} THEN "qualify_lead"
        ELSE "take_message"

IntentPriority(intent) ==
    CASE intent = "investor" -> 95 [] intent = "partner" -> 90 [] intent = "sales" -> 82
      [] intent = "customer" -> 78 [] intent = "emergency" -> 75 [] intent = "legal" -> 72
      [] intent = "media" -> 60 [] intent = "vendor" -> 45 [] intent = "personal" -> 40
      [] intent = "unknown" -> 35 [] intent = "spam" -> 0

\* Rounded to the nearest: the weights are twentieths.
CallbackPriority(call) ==
    Least(100, (9 * IntentPriority(CallIntent(call)) + 7 * CallTrust(call)
                + 4 * EstimateUrgencyScore(call) + (IF call.company THEN 240 ELSE 0) + 10) \div 20)

DecideReceptionistEscalation(call, action) ==
    LET sensitive == CallIntent(call) \in SensitiveIntents
        hot == EstimateUrgencyScore(call) >= 80
        reasons == sensitive \/ hot \/ action = "transfer_call" \/ Tier(CallTrust(call)) = "risky"
    IN  [requiresHumanApproval |-> reasons /\ action # "block_spam",
         shouldEscalate |-> hot \/ sensitive]

RequestTypeFromAction(action) ==
    CASE action = "book_meeting" -> "schedule_meeting"
      [] action \in {"request_callback", "transfer_call"} -> "request_callback"
      [] action = "qualify_lead" -> "qualify_lead"
      [] action = "request_human_approval" -> "route_message"
      [] OTHER -> "general_inquiry"

\* The type the webhook gives the call's request, from the text alone.
RequestTypeFromTranscript(call) ==
    LET intent == RoutePolyglotCallIntent(call.hits)
    IN  IF call.meeting THEN "schedule_meeting"
        ELSE IF call.callback \/ call.callMeBack THEN "request_callback"
        ELSE IF intent = "partner" THEN "partnership_request"
        ELSE IF intent \in {"sales", "investor"} THEN "qualify_lead"
        ELSE IF intent = "customer" THEN "support_request"
        ELSE "route_message"

\* The request of a call with the given type; its urgent and valuable terms are
\* the ones the lead's table looks for.
RequestOf(call, type) ==
    [type |-> type, consent |-> call.consent, email |-> TRUE,
     phone |-> IF call.phone THEN "given" ELSE "malformed", long |-> FALSE,
     unsafe |-> call.unsafe, unsafeName |-> FALSE, urgent |-> call.urgent,
     valuable |-> call.valuable, company |-> call.company]

NormalizeInboundCallWebhook(call) ==
    [RequestOf(call, RequestTypeFromTranscript(call)) EXCEPT !.company = FALSE]

NoProviders == [email |-> FALSE, dispatch |-> FALSE]

RunSimulatedInboundCallWorkflow(call) ==
    LET availability == DecideExecutiveAvailability(call, DefaultPolicy)
        action == IF Blocked(call) THEN "block_spam" ELSE availability
        run    == RunReceptionistWorkflow(RequestOf(call, RequestTypeFromAction(availability)),
                                          TRUE, NoProviders)
    IN  [actionTaken |-> action, followUpRequired |-> action # "block_spam",
         intent |-> CallIntent(call), trustScore |-> CallTrust(call),
         urgencyScore |-> EstimateUrgencyScore(call), priority |-> CallbackPriority(call),
         humanApproval |-> DecideReceptionistEscalation(call, availability),
         providerStatus |-> IF Blocked(call) THEN "blocked_by_policy" ELSE run.providerStatus,
         run |-> run]

-----------------------------------------------------------------------------
(* One simulated interaction: text.topics are the intents whose patterns it *)
(* meets, text.tones the sentiments.                                        *)

IntentRules == <<"urgent_executive_attention", "investor_interest", "partnership_interest",
                 "schedule_meeting", "request_callback", "vendor_inquiry", "support_request",
                 "wrong_number", "spam_or_low_value", "general_inquiry">>

ClassifyReceptionistIntent(text) ==
    LET Met(i) == IntentRules[i] \in text.topics
    IN  IF \E i \in DOMAIN IntentRules : Met(i)
        THEN IntentRules[CHOOSE i \in DOMAIN IntentRules : Met(i) /\ \A j \in 1 .. i - 1 : ~Met(j)]
        ELSE "unknown"

ClassifyReceptionistSentiment(text) ==
    CASE "negative" \in text.tones -> "negative"
      [] "negative" \notin text.tones /\ "positive" \in text.tones -> "positive"
      [] OTHER -> "neutral"

GetPriorityForIntent(intent, sentiment) ==
    CASE intent = "urgent_executive_attention" -> "urgent"
      [] intent = "investor_interest" -> "high"
      [] intent \in {"partnership_interest", "schedule_meeting", "request_callback",
                     "support_request"} -> IF sentiment = "negative" THEN "high" ELSE "medium"
      [] intent = "unknown" -> "medium"
      [] OTHER -> "low"

TaskTypeByIntent(intent) ==
    CASE intent = "general_inquiry" -> "create_follow_up"
      [] intent \in {"investor_interest", "urgent_executive_attention"} -> "escalate_to_executive"
      [] intent = "partnership_interest" -> "qualify_lead"
      [] intent = "request_callback" -> "return_call"
      [] intent = "schedule_meeting" -> "schedule_meeting"
      [] OTHER -> "review_transcript"

EvaluateEscalation(intent, priority, sentiment, taskType) ==
    \/ intent \in {"investor_interest", "urgent_executive_attention", "unknown"}
    \/ intent = "partnership_interest" /\ priority = "high"
    \/ sentiment = "negative" /\ priority \in {"high", "urgent"}
    \/ taskType = "escalate_to_executive"

CreateWorkflowEvents(escalated) ==
    <<"interaction_created", "language_detected", "intent_classified", "task_created">>
    \o (IF escalated THEN <<"escalation_recommended">> ELSE <<>>)
    \o <<"summary_generated", "workflow_completed">>

SimulateReceptionistInteraction(text) ==
    LET intent == ClassifyReceptionistIntent(text)
        sentiment == ClassifyReceptionistSentiment(text)
        priority == GetPriorityForIntent(intent, sentiment)
        escalated == EvaluateEscalation(intent, priority, sentiment, TaskTypeByIntent(intent))
    IN  [intent |-> intent, sentiment |-> sentiment, priority |-> priority,
         task |-> [taskType |-> TaskTypeByIntent(intent), status |-> "simulated"],
         shouldEscalate |-> escalated, workflowEvents |-> CreateWorkflowEvents(escalated)]

-----------------------------------------------------------------------------
(* The decisions as steps. *)

Init == decision = [kind |-> "none"]

\* What the proofs assume of the constants: the features are the ones of the types
\* and tables of the code.
ConstantsAssumed ==
    /\ Requests \subseteq
           [type : RequestTypes, consent : BOOLEAN, email : BOOLEAN,
            phone : {"none", "given", "malformed"}, long : BOOLEAN, unsafe : BOOLEAN,
            unsafeName : BOOLEAN, urgent : BOOLEAN, valuable : BOOLEAN, company : BOOLEAN]
    /\ Calls \subseteq
           [hits : [{IntentOrder[i] : i \in DOMAIN IntentOrder} -> Nat], unsafe : BOOLEAN,
            spamPhrases : Nat, phone : BOOLEAN, burst : BOOLEAN, company : BOOLEAN,
            consent : BOOLEAN, meeting : BOOLEAN, callback : BOOLEAN, callMeBack : BOOLEAN,
            urgent : BOOLEAN, valuable : BOOLEAN, language : {"stated", "hinted", "default"}]
    /\ Texts \subseteq
           [topics : SUBSET {IntentRules[i] : i \in DOMAIN IntentRules},
            tones : SUBSET {"negative", "positive"}]
    /\ Configs \subseteq [email : BOOLEAN, dispatch : BOOLEAN]

\* What is decided about a request, a call, a text, with what it was decided on.
RunOf(r, config, withinLimit) ==
    [kind |-> "run", request |-> r, config |-> config,
     result |-> RunReceptionistWorkflow(r, withinLimit, config),
     office |-> CreateFrontOfficeWorkflowRun(r, "provider_unconfigured")]

CallOf(call) ==
    [kind |-> "call", call |-> call, result |-> RunSimulatedInboundCallWorkflow(call),
     request |-> NormalizeInboundCallWebhook(call)]

SimulationOf(text) ==
    [kind |-> "simulated", text |-> text, result |-> SimulateReceptionistInteraction(text)]

RunRequest ==
    \E r \in Requests, config \in Configs, withinLimit \in BOOLEAN :
        decision' = RunOf(r, config, withinLimit)
TakeCall == \E call \in Calls : decision' = CallOf(call)
Simulate == \E text \in Texts : decision' = SimulationOf(text)

Next == decision.kind = "none" /\ (RunRequest \/ TakeCall \/ Simulate)

Spec == Init /\ [][Next]_decision

-----------------------------------------------------------------------------
(* Properties. *)

\* The decision, once made, is the one of an input.
IndInv ==
    \/ decision = [kind |-> "none"]
    \/ \E r \in Requests, config \in Configs, withinLimit \in BOOLEAN :
           decision = RunOf(r, config, withinLimit)
    \/ \E call \in Calls : decision = CallOf(call)
    \/ \E text \in Texts : decision = SimulationOf(text)

\* A blocked run blocks every stage after the first, and only a blocked run
\* blocks any; what needs a person's review is never queued for dispatch, and
\* nothing is queued or configured where no e-mail provider is (workflow-engine.ts).
RunsAreConsistent ==
    decision.kind = "run" =>
        LET run == decision.result
            Statuses == {run.steps[i].status : i \in 2 .. Len(run.steps)}
        IN  /\ (run.blockedReasonCodes # {}) => Statuses = {"blocked_by_policy"}
            /\ (run.blockedReasonCodes = {}) => "blocked_by_policy" \notin Statuses
            /\ ~decision.request.consent => run.providerStatus = "blocked_by_policy"
            /\ decision.config.email /\ run.requiresHumanReview
                   => run.providerStatus \in {"blocked_by_policy", "requires_human_review"}
            /\ ~decision.config.email => run.providerStatus \notin {"queued", "configured"}

\* The front office and the workflow rate a request alike where it matters: what
\* the front office rates high needs a person in the workflow, or is a lead whose
\* text is not urgent and not valuable (receptionist-core/src/index.ts:123,
\* lead-qualification.ts).
OfficesAgree ==
    decision.kind = "run" /\ decision.office.interaction.urgency = "high"
        => \/ decision.result.requiresHumanReview
           \/ decision.request.type = "qualify_lead"
              /\ ~decision.request.urgent /\ ~decision.request.valuable

\* A call that is taken is never one of a blocked or risky caller; a sensitive
\* call that is taken waits for a person, and no call is transferred
\* (executive-availability-policy.ts, escalation-decision.ts).
CallsAreGuarded ==
    decision.kind = "call" =>
        LET result == decision.result
        IN  /\ result.followUpRequired
                   => ~Blocked(decision.call) /\ Tier(result.trustScore) # "risky"
            /\ result.intent \in SensitiveIntents /\ result.followUpRequired
                   => /\ result.actionTaken = "request_human_approval"
                      /\ result.humanApproval.requiresHumanApproval
            /\ result.actionTaken # "transfer_call"
            /\ result.priority \in 0 .. 100
            /\ Blocked(decision.call) => result.providerStatus = "blocked_by_policy"

\* docs/POLYGLOT_RECEPTIONIST_WORKFLOWS.md:49: emergency and sensitive intents
\* are escalated to human review. It does not hold: a caller whose language is
\* taken by default and whose company is not known scores below 35 and is
\* blocked as spam before the sensitive intent is looked at.
SensitiveCallsAreReviewed ==
    decision.kind = "call" /\ decision.result.intent \in SensitiveIntents
        => decision.result.humanApproval.requiresHumanApproval

\* An interaction of high or urgent priority with a negative tone, one whose task
\* is for the executive, and one nothing is known of are escalated, and its events
\* say so; spam and wrong numbers are not (escalation-rules.ts, task-generator.ts).
SimulationsEscalate ==
    decision.kind = "simulated" =>
        LET result == decision.result
        IN  /\ result.shouldEscalate
                   <=> \E i \in DOMAIN result.workflowEvents :
                           result.workflowEvents[i] = "escalation_recommended"
            /\ result.priority = "urgent" => result.shouldEscalate
            /\ result.intent = "unknown" => result.shouldEscalate
            /\ result.intent \in {"spam_or_low_value", "wrong_number", "general_inquiry",
                                  "vendor_inquiry"} => ~result.shouldEscalate
            /\ "urgent_executive_attention" \in decision.text.topics => result.shouldEscalate

\* The decisions are consistent with one another and with the inputs they are of.
DecisionsAreSound ==
    RunsAreConsistent /\ OfficesAgree /\ CallsAreGuarded /\ SimulationsEscalate

=============================================================================
