------------------------------ MODULE VoiceTurns ------------------------------
(***************************************************************************)
(* The voice runtime of packages/receptionist-runtime: one call of         *)
(* processVoiceRuntimeTurn per turn.  A turn checks its replay key and the *)
(* consent it was given, awaits speech recognition, assesses the           *)
(* transcript, plans a tool, asks for consent again now that it knows the  *)
(* tool, walks the conversation state machine and awaits speech synthesis. *)
(* Other turns of the process run at every await; either provider may      *)
(* fail.  A caller may pass a replay store, a set in memory which a        *)
(* restart empties; runVoiceRuntime passes none.                           *)
(***************************************************************************)
EXTENDS Naturals, Sequences

CONSTANTS
    Turns,          \* calls of processVoiceRuntimeTurn
    ReplayKeys,
    Modes,          \* of "text_chat", "voice_chat", "phone_simulation"
    Transcripts,    \* by what is found in them
    Consents,       \* consent inputs, or NoConsent
    ConsentPolicies, \* what a caller's policy asks for
    Requested,      \* sets of capabilities a caller asks for
    Restarts        \* how often the process may restart

ASSUME ModesAssumption == Modes \subseteq {"text_chat", "voice_chat", "phone_simulation"}

NoConsent == [given |-> FALSE]
Consent(disclosed, retained, recording, granted, denied) ==
    [given |-> TRUE, disclosed |-> disclosed, retained |-> retained,
     recording |-> recording, granted |-> granted, denied |-> denied]

\* A policy of the caller's, which may ask for less than the default one.
ConsentPolicy(disclosure, retention, recording) ==
    [disclosure |-> disclosure, retention |-> retention, recording |-> recording]
DefaultRuntimeConsentPolicy == ConsentPolicy(TRUE, TRUE, TRUE)

\* A transcript: whether anything was said, the rules of intent-engine.ts it meets,
\* and whether a pattern of runtime-safety.ts finds an injection or an emergency in
\* it.  The rules and the patterns differ: each finds words the other does not.
Silence == [said |-> FALSE, rules |-> {}, injection |-> FALSE, danger |-> FALSE]
ASSUME TranscriptsAssumption == \A text \in Transcripts : text.said \/ text = Silence

IntentRules ==
    <<"prompt_injection", "emergency", "schedule_meeting", "request_callback", "qualify_lead",
      "partnership_request", "support_request", "route_message", "sensitive_request">>

\* The first rule that is met decides.
ClassifyRuntimeIntent(text) ==
    LET Met(i) == IntentRules[i] \in text.rules
        first  == CHOOSE i \in 1..9 : Met(i) /\ \A j \in 1..(i - 1) : ~Met(j)
    IN  IF ~text.said THEN "unknown"
        ELSE IF \E i \in 1..9 : Met(i) THEN IntentRules[first] ELSE "general_inquiry"

Capabilities == {"recording", "transcription", "sensitive_tool", "live_voice"}

\* The states of a conversation and where each event leads.
States == {"initialized", "greeting", "listening", "processing", "waiting_for_tool",
           "responding", "escalating", "completed", "blocked", "failed"}

ConversationTransitions ==
    [initialized |-> {"greeting", "failed"},
     greeting |-> {"listening", "blocked", "failed"},
     listening |-> {"processing", "blocked", "failed"},
     processing |-> {"waiting_for_tool", "responding", "escalating", "blocked", "failed"},
     waiting_for_tool |-> {"responding", "escalating", "blocked", "failed"},
     responding |-> {"completed", "listening", "failed"},
     escalating |-> {"completed", "failed"},
     completed |-> {}, blocked |-> {}, failed |-> {}]

EventTarget ==
    [request_received |-> "greeting", greeting_ready |-> "listening",
     transcript_ready |-> "processing", tool_required |-> "waiting_for_tool",
     tool_complete |-> "responding", response_sent |-> "completed",
     safety_review_required |-> "escalating", block |-> "blocked"]

\* transitionVoiceRuntimeState: "thrown" where the code throws.
TransitionVoiceRuntimeState(state, event) ==
    IF state # "thrown" /\ EventTarget[event] \in ConversationTransitions[state]
    THEN EventTarget[event] ELSE "thrown"

\* The three transitions before the recognizer is called.
OpeningState ==
    LET received == TransitionVoiceRuntimeState("initialized", "request_received")
        greeted  == TransitionVoiceRuntimeState(received, "greeting_ready")
    IN  TransitionVoiceRuntimeState(greeted, "transcript_ready")

-------------------------------------------------------------------------------
(* Consent, safety and tools *)

DerivePreRecognitionCapabilities(input) ==
    input.requested \cup
    (IF input.mode \in {"voice_chat", "phone_simulation"}
     THEN {"live_voice", "transcription"} ELSE {})
    \cup (IF input.audio THEN {"transcription"} ELSE {})
    \cup (IF input.consent.given /\ input.consent.recording THEN {"recording"} ELSE {})

ConsentRequired(mode, capabilities) ==
    mode \in {"voice_chat", "phone_simulation"} \/ capabilities # {}

EvaluateRuntimeConsent(input, capabilities) ==
    LET consent == input.consent
        policy  == input.policy
    IN  IF ~consent.given THEN ~ConsentRequired(input.mode, capabilities)
        ELSE /\ policy.disclosure => consent.disclosed
             /\ policy.retention => consent.retained
             /\ ((consent.recording \/ "recording" \in capabilities \/ input.mode = "phone_simulation")
                 /\ policy.recording) => consent.granted
             /\ ~consent.denied

AssessRuntimeSafety(text) ==
    IF text.injection THEN "block" ELSE IF text.danger THEN "escalate" ELSE "allow"

\* Raw audio is never kept: a policy that asks for it blocks the turn.
ResolveRuntimeRetentionPolicy(turn) == ~turn.keepsRawAudio

ValidateConversationSafety(input, capabilities, text) ==
    IF \/ ~EvaluateRuntimeConsent(input, capabilities)
       \/ ~ResolveRuntimeRetentionPolicy(input)
    THEN "block" ELSE AssessRuntimeSafety(text)

IntentFor(decision, text) ==
    CASE decision = "block" -> "prompt_injection"
      [] decision = "escalate" -> "emergency"
      [] OTHER -> ClassifyRuntimeIntent(text)

ToolMapping ==
    [general_inquiry |-> "message_capture", qualify_lead |-> "lead_qualification",
     request_callback |-> "callback_request", route_message |-> "message_capture",
     schedule_meeting |-> "appointment_request", support_request |-> "support_intake",
     unknown |-> "safe_fallback"]

PlanRuntimeTool(intent) ==
    CASE intent = "prompt_injection" -> [tool |-> "safe_fallback", status |-> "blocked", human |-> FALSE]
      [] intent = "emergency" -> [tool |-> "emergency_escalation", status |-> "review", human |-> TRUE]
      [] intent \in {"sensitive_request", "partnership_request"} ->
             [tool |-> "human_approval", status |-> "review", human |-> TRUE]
      [] OTHER -> [tool |-> ToolMapping[intent], status |-> "unconfigured", human |-> FALSE]

DeriveToolCapabilities(base, intent, plan) ==
    base \cup (IF plan.human \/ intent \in {"sensitive_request", "emergency"}
               THEN {"sensitive_tool"} ELSE {})

\* MUTANT: consent is not asked for again after the tool is known.
DecideOnce(input, text) ==
    LET decided == ValidateConversationSafety(input, DerivePreRecognitionCapabilities(input), text)
        intent  == IntentFor(decided, text)
    IN  [decision |-> decided, intent |-> intent, plan |-> PlanRuntimeTool(intent)]

\* What the turn decides once it has a transcript: assess, plan, and assess
\* again with the capability the plan needs.
Decide(input, text) ==
    LET base    == DerivePreRecognitionCapabilities(input)
        first   == IntentFor(ValidateConversationSafety(input, base, text), text)
        needed  == DeriveToolCapabilities(base, first, PlanRuntimeTool(first))
        decided == ValidateConversationSafety(input, needed, text)
        intent  == IntentFor(decided, text)
    IN  [decision |-> decided, intent |-> intent, plan |-> PlanRuntimeTool(intent)]

\* Where the plan of a turn leads.
StateAfter(state, plan) ==
    CASE plan.status = "blocked" -> TransitionVoiceRuntimeState(state, "block")
      [] plan.status # "blocked" /\ plan.human ->
             TransitionVoiceRuntimeState(state, "safety_review_required")
      [] OTHER -> TransitionVoiceRuntimeState(
                      TransitionVoiceRuntimeState(state, "tool_required"), "tool_complete")

\* The words the visitor hears.
CreateRuntimeDialogueResponse(intent, plan) ==
    CASE intent = "prompt_injection" -> "refusal"
      [] intent = "emergency" -> "contact_emergency_services"
      [] plan.human -> "executive_review"
      [] OTHER -> plan.tool

-------------------------------------------------------------------------------
VARIABLES
    pc,         \* [Turns -> "ready", "transcribing", "speaking", "done", "failed"]
    input,      \* [Turns -> the turn's input]
    replay,     \* the replay store
    heard,      \* [Turns -> the recognizer was called]
    result,     \* [Turns -> what the turn decided]
    restarts

vars == <<pc, input, replay, heard, result, restarts>>

Inputs ==
    [mode : Modes, audio : BOOLEAN, consent : Consents, policy : ConsentPolicies,
     requested : Requested, keepsRawAudio : BOOLEAN, key : ReplayKeys,
     scoped : BOOLEAN,      \* tenant, card and session are named
     stored : BOOLEAN]      \* the caller passes the replay store

Nothing == [decision |-> "none", intent |-> "none", state |-> "initialized",
            response |-> "none", text |-> Silence]

\* The answer to a turn whose consent is missing: nothing was heard.
ConsentBlockedTurn ==
    [decision |-> "block", intent |-> "prompt_injection", state |-> "blocked",
     response |-> "consent_required", text |-> Silence]

Init ==
    /\ pc = [t \in Turns |-> "ready"]
    /\ input \in [Turns -> Inputs]
    /\ replay = {}
    /\ heard = [t \in Turns |-> FALSE]
    /\ result = [t \in Turns |-> Nothing]
    /\ restarts = 0

Seen(t) == input[t].stored /\ input[t].key \in replay

\* The call throws before anything else: it is not scoped, or its key was seen.
Reject(t) ==
    /\ pc[t] = "ready"
    /\ ~input[t].scoped \/ Seen(t)
    /\ pc' = [pc EXCEPT ![t] = "failed"]
    /\ UNCHANGED <<input, replay, heard, result, restarts>>

\* MUTANT: the key is remembered when the turn has been answered.
BeginUnremembered(t) ==
    /\ pc[t] = "ready"
    /\ input[t].scoped /\ ~Seen(t)
    /\ EvaluateRuntimeConsent(input[t], DerivePreRecognitionCapabilities(input[t]))
    /\ heard' = [heard EXCEPT ![t] = TRUE]
    /\ pc' = [pc EXCEPT ![t] = "transcribing"]
    /\ result' = [result EXCEPT ![t].state = "processing"]
    /\ UNCHANGED <<input, replay, restarts>>

\* The key is remembered, and the turn either calls the recognizer or speaks
\* the refusal of createConsentBlockedTurn.
Begin(t) ==
    LET allowed == EvaluateRuntimeConsent(input[t], DerivePreRecognitionCapabilities(input[t]))
    IN  /\ pc[t] = "ready"
        /\ input[t].scoped /\ ~Seen(t)
        /\ replay' = IF input[t].stored THEN replay \cup {input[t].key} ELSE replay
        /\ IF allowed
           THEN /\ heard' = [heard EXCEPT ![t] = TRUE]
                /\ pc' = [pc EXCEPT ![t] = "transcribing"]
                /\ result' = [result EXCEPT ![t].state = OpeningState]
           ELSE /\ pc' = [pc EXCEPT ![t] = "speaking"]
                /\ result' = [result EXCEPT ![t] = ConsentBlockedTurn]
                /\ UNCHANGED heard
        /\ UNCHANGED <<input, restarts>>

\* The recognizer answers, and the turn runs on to the synthesizer.
Transcribe(t, text) ==
    LET d == Decide(input[t], text)
    IN  /\ pc[t] = "transcribing"
        /\ pc' = [pc EXCEPT ![t] = "speaking"]
        /\ result' = [result EXCEPT ![t] =
               [decision |-> d.decision, intent |-> d.intent, text |-> text,
                state |-> StateAfter(result[t].state, d.plan),
                response |-> CreateRuntimeDialogueResponse(d.intent, d.plan)]]
        /\ UNCHANGED <<input, replay, heard, restarts>>

\* The synthesizer answers and the turn returns.
Speak(t) ==
    /\ pc[t] = "speaking"
    /\ pc' = [pc EXCEPT ![t] = "done"]
    /\ result' = [result EXCEPT ![t].state =
           IF @ = "responding" THEN TransitionVoiceRuntimeState(@, "response_sent") ELSE @]
    /\ UNCHANGED <<input, replay, heard, restarts>>

\* A provider fails and the call throws.
ProviderFails(t) ==
    /\ pc[t] \in {"transcribing", "speaking"}
    /\ pc' = [pc EXCEPT ![t] = "failed"]
    /\ UNCHANGED <<input, replay, heard, result, restarts>>

\* The process restarts: the calls under way and the replay store are gone.
Restart ==
    /\ restarts < Restarts
    /\ restarts' = restarts + 1
    /\ replay' = {}
    /\ pc' = [t \in Turns |-> IF pc[t] \in {"transcribing", "speaking"} THEN "failed" ELSE pc[t]]
    /\ UNCHANGED <<input, heard, result>>

Next ==
    \/ \E t \in Turns : \/ Reject(t) \/ Begin(t) \/ Speak(t) \/ ProviderFails(t)
                        \/ \E text \in Transcripts : Transcribe(t, text)
    \/ Restart

Spec == Init /\ [][Next]_vars

-------------------------------------------------------------------------------
(* Properties *)

\* Every turn is in a state the code has, and no transition it makes is one
\* transitionVoiceRuntimeState would throw on.
TypeOK ==
    /\ \A t \in Turns : /\ pc[t] \in {"ready", "transcribing", "speaking", "done", "failed"}
                        /\ result[t].state \in States
    /\ replay \subseteq ReplayKeys

\* A visitor's speech reaches the recognizer only with consent: a voice turn or
\* an audio turn has one that was not denied, and one to the recording where the
\* turn is recorded or is a call, unless the caller's policy asks for none.
NothingHeardWithoutConsent ==
    \A t \in Turns : heard[t] =>
        LET c == input[t].consent
        IN  /\ input[t].scoped
            /\ (input[t].mode # "text_chat" \/ input[t].audio) => c.given
            /\ c.given => ~c.denied
            /\ (c.given /\ input[t].policy.recording
                /\ (c.recording \/ input[t].mode = "phone_simulation")) => c.granted

\* Words for a person: any attempt to inject and any emergency that either list
\* finds, whatever else is said; and a partnership or a sensitive request, unless
\* an ordinary rule that stands before it is met too.  (VOICE_RUNTIME_SECURITY.md:5
\* makes no such exception: a meeting about a contract is answered as a meeting.)
Sensitive(text) ==
    \/ text.injection \/ text.danger
    \/ {"prompt_injection", "emergency"} \intersect text.rules # {}
    \/ /\ "partnership_request" \in text.rules
       /\ {"schedule_meeting", "request_callback", "qualify_lead"} \intersect text.rules = {}
    \/ /\ "sensitive_request" \in text.rules
       /\ {"schedule_meeting", "request_callback", "qualify_lead", "support_request",
           "route_message"} \intersect text.rules = {}

\* No such turn is completed by the machine: it ends blocked or with a person,
\* whatever the two assessments disagree about.
SensitiveNeverAutomatic ==
    \A t \in Turns :
        Sensitive(result[t].text)
            => result[t].state \notin {"waiting_for_tool", "responding", "completed"}

\* A sensitive tool is handed to a person only with a consent that covers it.
SensitiveToolNeedsConsent ==
    \A t \in Turns :
        result[t].state = "escalating" => input[t].consent.given /\ ~input[t].consent.denied

\* Of the calls that pass the replay store, one uses a replay key until the process
\* restarts: two with one key never both reach the recognizer or an answer.
OneTurnPerKey ==
    restarts = 0 =>
        \A t, u \in Turns :
            (t # u /\ input[t].key = input[u].key /\ input[t].stored /\ input[u].stored) =>
                ~(/\ pc[t] \in {"transcribing", "speaking", "done"}
                  /\ pc[u] \in {"transcribing", "speaking", "done"})

\* A turn is safe: its type, and the three properties above about consent and
\* sensitive words (processVoiceRuntimeTurn).
VoiceTurnsAreSafe ==
    TypeOK /\ NothingHeardWithoutConsent /\ SensitiveNeverAutomatic
    /\ SensitiveToolNeedsConsent

-------------------------------------------------------------------------------
(* The inductive invariant: how far the result of a turn is, that a turn was  *)
(* heard with the consent it had, and that the key of a turn under way is     *)
(* remembered until the process restarts.                                     *)

FunctionsOfTurns ==
    /\ pc \in [Turns -> {"ready", "transcribing", "speaking", "done", "failed"}]
    /\ input \in [Turns -> Inputs]
    /\ replay \subseteq ReplayKeys
    /\ heard \in [Turns -> BOOLEAN]
    /\ result = [t \in Turns |-> result[t]]
    /\ restarts \in Nat

Undecided(r) ==
    \E state \in {"initialized", "processing"} : r = [Nothing EXCEPT !.state = state]

\* What Transcribe and Speak make of a transcript.
Decided(r, in) ==
    LET d == Decide(in, r.text)
    IN  /\ r = [decision |-> r.decision, intent |-> r.intent, state |-> r.state,
                response |-> r.response, text |-> r.text]
        /\ r.text \in Transcripts
        /\ \/ r.state = StateAfter("processing", d.plan)
           \/ StateAfter("processing", d.plan) = "responding" /\ r.state = "completed"

ResultFollows ==
    \A t \in Turns :
        /\ Undecided(result[t]) \/ result[t] = ConsentBlockedTurn \/ Decided(result[t], input[t])
        /\ pc[t] = "ready" => result[t] = Nothing
        /\ pc[t] = "transcribing" => result[t] = [Nothing EXCEPT !.state = "processing"]

HeardWithConsent ==
    \A t \in Turns :
        heard[t] =>
            /\ input[t].scoped
            /\ EvaluateRuntimeConsent(input[t], DerivePreRecognitionCapabilities(input[t]))

KeyIsRemembered ==
    restarts = 0 =>
        \A t \in Turns :
            (input[t].stored /\ pc[t] \in {"transcribing", "speaking", "done"})
                => input[t].key \in replay

IndInv ==
    FunctionsOfTurns /\ ResultFollows /\ HeardWithConsent /\ KeyIsRemembered /\ OneTurnPerKey

===============================================================================
