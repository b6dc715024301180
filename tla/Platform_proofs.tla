--------------------------- MODULE Platform_proofs ---------------------------
(***************************************************************************)
(* Proofs about Platform.  Voice turns: whatever turns interleave,         *)
(* whatever consents and transcripts they have, and however often the      *)
(* process restarts, a turn is safe and a replay key is used once per life *)
(* of the store.    The improvement engine: its tables are sound however   *)
(* its jobs overlap and fail.  The decisions of the receptionist, the      *)
(* policy and the reconciliation: every verdict agrees with what it is     *)
(* given on and with the other verdicts on it.                             *)
(***************************************************************************)
EXTENDS Platform, Integers, Sequences, FiniteSetTheorems, TLAPS

-----------------------------------------------------------------------------
(***************************************************************************)
(* The conversation state machine: no transition that a turn makes throws  *)
(***************************************************************************)

\* The three opening transitions lead to processing.
LEMMA OpeningIsProcessing == OpeningState = "processing"
<1>1. TransitionVoiceRuntimeState("initialized", "request_received") = "greeting"
  BY DEF TransitionVoiceRuntimeState, EventTarget, ConversationTransitions
<1>2. TransitionVoiceRuntimeState("greeting", "greeting_ready") = "listening"
  BY DEF TransitionVoiceRuntimeState, EventTarget, ConversationTransitions
<1>3. TransitionVoiceRuntimeState("listening", "transcript_ready") = "processing"
  BY DEF TransitionVoiceRuntimeState, EventTarget, ConversationTransitions
<1> QED
  BY <1>1, <1>2, <1>3 DEF OpeningState

\* A blocked plan blocks the turn, a plan for a person escalates it, any other
\* is answered.
LEMMA PlanLeads ==
  ASSUME NEW plan
  PROVE  /\ plan.status = "blocked" => StateAfter("processing", plan) = "blocked"
         /\ (plan.status # "blocked" /\ plan.human) => StateAfter("processing", plan) = "escalating"
         /\ ~(plan.status = "blocked" \/ plan.human) => StateAfter("processing", plan) = "responding"
<1>1. TransitionVoiceRuntimeState("processing", "block") = "blocked"
  BY DEF TransitionVoiceRuntimeState, EventTarget, ConversationTransitions
<1>2. TransitionVoiceRuntimeState("processing", "safety_review_required") = "escalating"
  BY DEF TransitionVoiceRuntimeState, EventTarget, ConversationTransitions
<1>3. TransitionVoiceRuntimeState("processing", "tool_required") = "waiting_for_tool"
  BY DEF TransitionVoiceRuntimeState, EventTarget, ConversationTransitions
<1>4. TransitionVoiceRuntimeState("waiting_for_tool", "tool_complete") = "responding"
  BY DEF TransitionVoiceRuntimeState, EventTarget, ConversationTransitions
<1> QED
  BY <1>1, <1>2, <1>3, <1>4 DEF StateAfter

\* The answer of a turn completes it.
LEMMA ResponseCompletes ==
  TransitionVoiceRuntimeState("responding", "response_sent") = "completed"
BY DEF TransitionVoiceRuntimeState, EventTarget, ConversationTransitions

-----------------------------------------------------------------------------
(***************************************************************************)
(* What a turn decides                                                     *)
(***************************************************************************)

\* The first rule a text meets is the intent.
LEMMA FirstRuleDecides ==
  ASSUME NEW text, text.said, NEW i \in 1..9, IntentRules[i] \in text.rules,
         \A j \in 1..(i - 1) : IntentRules[j] \notin text.rules
  PROVE  ClassifyRuntimeIntent(text) = IntentRules[i]
<1> DEFINE First(k) == IntentRules[k] \in text.rules /\ \A j \in 1..(k - 1) : IntentRules[j] \notin text.rules
<1>1. First(CHOOSE k \in 1..9 : First(k)) /\ (CHOOSE k \in 1..9 : First(k)) \in 1..9
  OBVIOUS
<1>2. \A k \in 1..9 : First(k) => k = i
  OBVIOUS
<1>3. (CHOOSE k \in 1..9 : First(k)) = i
  BY <1>1, <1>2
<1> QED
  BY <1>3 DEF ClassifyRuntimeIntent

\* A sensitive text in which the patterns find nothing has one of four intents.
LEMMA SensitiveIntent ==
  ASSUME NEW text, text.said, Sensitive(text), ~text.injection, ~text.danger
  PROVE  ClassifyRuntimeIntent(text)
            \in {"prompt_injection", "emergency", "sensitive_request", "partnership_request"}
<1>1. /\ IntentRules[1] = "prompt_injection" /\ IntentRules[2] = "emergency"
      /\ IntentRules[3] = "schedule_meeting" /\ IntentRules[4] = "request_callback"
      /\ IntentRules[5] = "qualify_lead" /\ IntentRules[6] = "partnership_request"
      /\ IntentRules[7] = "support_request" /\ IntentRules[8] = "route_message"
      /\ IntentRules[9] = "sensitive_request"
  BY DEF IntentRules
<1>2. CASE "prompt_injection" \in text.rules
  <2>1. \A j \in 1..(1 - 1) : IntentRules[j] \notin text.rules
    OBVIOUS
  <2> QED
    BY <1>1, <1>2, <2>1, FirstRuleDecides
<1>3. CASE "prompt_injection" \notin text.rules /\ "emergency" \in text.rules
  <2>1. \A j \in 1..(2 - 1) : IntentRules[j] \notin text.rules
    BY <1>1, <1>3
  <2> QED
    BY <1>1, <1>3, <2>1, FirstRuleDecides
<1>4. CASE /\ {"prompt_injection", "emergency"} \intersect text.rules = {}
           /\ "partnership_request" \in text.rules
           /\ {"schedule_meeting", "request_callback", "qualify_lead"} \intersect text.rules = {}
  <2>1. \A j \in 1..(6 - 1) : IntentRules[j] \notin text.rules
    <3> SUFFICES ASSUME NEW j \in {1, 2, 3, 4, 5} PROVE IntentRules[j] \notin text.rules
      OBVIOUS
    <3> QED
      BY <1>1, <1>4
  <2> QED
    BY <1>1, <1>4, <2>1, FirstRuleDecides
<1>5. CASE /\ {"prompt_injection", "emergency", "partnership_request"} \intersect text.rules = {}
           /\ "sensitive_request" \in text.rules
           /\ {"schedule_meeting", "request_callback", "qualify_lead", "support_request",
               "route_message"} \intersect text.rules = {}
  <2>1. \A j \in 1..(9 - 1) : IntentRules[j] \notin text.rules
    <3> SUFFICES ASSUME NEW j \in {1, 2, 3, 4, 5, 6, 7, 8} PROVE IntentRules[j] \notin text.rules
      OBVIOUS
    <3> QED
      BY <1>1, <1>5
  <2> QED
    BY <1>1, <1>5, <2>1, FirstRuleDecides
<1> QED
  BY <1>2, <1>3, <1>4, <1>5 DEF Sensitive

\* The intents that stop a turn or hand it to a person.
LEMMA PlansOfIntents ==
  /\ PlanRuntimeTool("prompt_injection").status = "blocked"
  /\ \A intent : intent \in {"emergency", "sensitive_request", "partnership_request"} =>
        PlanRuntimeTool(intent).human /\ PlanRuntimeTool(intent).status # "blocked"
  /\ \A intent :
        intent \notin {"prompt_injection", "emergency", "sensitive_request", "partnership_request"}
        => ~PlanRuntimeTool(intent).human /\ PlanRuntimeTool(intent).status # "blocked"
BY DEF PlanRuntimeTool

\* Whatever the consent, what safety or intent rules find sensitive is blocked
\* or handed to a person.
LEMMA SensitiveIsPlanned ==
  ASSUME NEW in, NEW text, text.said, Sensitive(text)
  PROVE  Decide(in, text).plan.status = "blocked" \/ Decide(in, text).plan.human
<1> DEFINE base == DerivePreRecognitionCapabilities(in)
           first == IntentFor(ValidateConversationSafety(in, base, text), text)
           needed == DeriveToolCapabilities(base, first, PlanRuntimeTool(first))
           decided == ValidateConversationSafety(in, needed, text)
<1>1. Decide(in, text).plan = PlanRuntimeTool(IntentFor(decided, text))
  BY DEF Decide
<1>2. decided \in {"block", "escalate", "allow"} /\ decided \in {"block", AssessRuntimeSafety(text)}
  BY DEF ValidateConversationSafety, AssessRuntimeSafety
<1> HIDE DEF decided
<1>3. IntentFor(decided, text)
        \in {"prompt_injection", "emergency", "sensitive_request", "partnership_request"}
  <2>1. CASE decided = "block"
    BY <2>1 DEF IntentFor
  <2>2. CASE decided = "escalate"
    BY <2>2 DEF IntentFor
  <2>3. CASE decided = "allow"
    <3>1. ~text.injection /\ ~text.danger
      BY <1>2, <2>3 DEF AssessRuntimeSafety
    <3> QED
      BY <2>3, <3>1, SensitiveIntent DEF IntentFor
  <2> QED
    BY <1>2, <2>1, <2>2, <2>3
<1> QED
  BY <1>1, <1>3, PlansOfIntents

\* More capabilities never make a missing consent sufficient.
LEMMA ConsentIsMonotone ==
  ASSUME NEW in, NEW small, NEW large, small \subseteq large, EvaluateRuntimeConsent(in, large)
  PROVE  EvaluateRuntimeConsent(in, small)
BY DEF EvaluateRuntimeConsent, ConsentRequired

\* A plan for a person comes with a consent that was asked about it.
LEMMA PersonNeedsConsent ==
  ASSUME NEW in, NEW text,
         Decide(in, text).plan.status # "blocked", Decide(in, text).plan.human
  PROVE  in.consent.given /\ ~in.consent.denied
<1> DEFINE base == DerivePreRecognitionCapabilities(in)
           first == IntentFor(ValidateConversationSafety(in, base, text), text)
           needed == DeriveToolCapabilities(base, first, PlanRuntimeTool(first))
           decided == ValidateConversationSafety(in, needed, text)
<1>1. Decide(in, text).plan = PlanRuntimeTool(IntentFor(decided, text))
  BY DEF Decide
<1>2. decided # "block"
  BY <1>1, PlansOfIntents DEF IntentFor
<1>3. /\ EvaluateRuntimeConsent(in, needed)
      /\ ResolveRuntimeRetentionPolicy(in)
      /\ decided = AssessRuntimeSafety(text)
  BY <1>2 DEF ValidateConversationSafety
<1>4. base \subseteq needed
  BY DEF DeriveToolCapabilities
<1>5. EvaluateRuntimeConsent(in, base)
  BY <1>3, <1>4, ConsentIsMonotone
<1>6. ValidateConversationSafety(in, base, text) = decided
  BY <1>3, <1>5 DEF ValidateConversationSafety
<1>7. PlanRuntimeTool(first).human
  BY <1>1, <1>6
<1>8. needed # {}
  BY <1>7 DEF DeriveToolCapabilities
<1> HIDE DEF needed, base
<1> QED
  BY <1>3, <1>8 DEF EvaluateRuntimeConsent, ConsentRequired

\* What was heard was heard with consent.
LEMMA ConsentCoversHearing ==
  ASSUME NEW in,
         EvaluateRuntimeConsent(in, DerivePreRecognitionCapabilities(in)),
         in.mode \in {"text_chat", "voice_chat", "phone_simulation"}
  PROVE  /\ (in.mode # "text_chat" \/ in.audio) => in.consent.given
         /\ in.consent.given => ~in.consent.denied
         /\ (in.consent.given /\ in.policy.recording
             /\ (in.consent.recording \/ in.mode = "phone_simulation")) => in.consent.granted
<1>1. (in.mode # "text_chat" \/ in.audio) => DerivePreRecognitionCapabilities(in) # {}
  BY DEF DerivePreRecognitionCapabilities
<1> QED
  BY <1>1 DEF EvaluateRuntimeConsent, ConsentRequired

-----------------------------------------------------------------------------
(***************************************************************************)
(* The invariant                                                           *)
(***************************************************************************)

\* A result with another state.
LEMMA WithState ==
  ASSUME NEW q, NEW state,
         q = [decision |-> q.decision, intent |-> q.intent, state |-> q.state,
              response |-> q.response, text |-> q.text]
  PROVE  [q EXCEPT !.state = state] =
            [decision |-> q.decision, intent |-> q.intent, state |-> state,
             response |-> q.response, text |-> q.text]
OBVIOUS

\* The results of a turn that has not decided yet.
LEMMA UndecidedResults ==
  /\ \A state : /\ [Nothing EXCEPT !.state = state].state = state
                /\ [Nothing EXCEPT !.state = state].text = Silence
  /\ Nothing = [Nothing EXCEPT !.state = "initialized"]
<1>1. /\ Nothing = [decision |-> Nothing.decision, intent |-> Nothing.intent,
                    state |-> Nothing.state, response |-> Nothing.response, text |-> Nothing.text]
      /\ Nothing.state = "initialized" /\ Nothing.text = Silence
  BY DEF Nothing
<1>2. \A state : [Nothing EXCEPT !.state = state] =
                 [decision |-> Nothing.decision, intent |-> Nothing.intent, state |-> state,
                  response |-> Nothing.response, text |-> Nothing.text]
  BY <1>1, WithState
<1> QED
  BY <1>1, <1>2

LEMMA InitInv == Init => IndInv
<1> SUFFICES ASSUME Init PROVE IndInv
  OBVIOUS
<1>1. Nothing = [Nothing EXCEPT !.state = "initialized"]
  BY UndecidedResults
<1>2. FunctionsOfTurns
  BY DEF Init, FunctionsOfTurns
<1>3. ResultFollows
  <2>1. Undecided(Nothing)
    BY <1>1 DEF Undecided
  <2>2. result = [t \in Turns |-> Nothing] /\ pc = [t \in Turns |-> "ready"]
    BY DEF Init
  <2> SUFFICES ASSUME NEW t \in Turns
               PROVE  /\ Undecided(result[t])
                      /\ pc[t] = "ready" => result[t] = Nothing
                      /\ pc[t] # "transcribing"
    BY DEF ResultFollows
  <2>3. result[t] = Nothing /\ pc[t] = "ready"
    BY <2>2
  <2> QED
    BY <2>1, <2>3
<1> QED
  BY <1>2, <1>3 DEF Init, IndInv, HeardWithConsent, KeyIsRemembered, OneTurnPerKey

\* A turn that throws keeps what it had.
LEMMA FailInv ==
  ASSUME IndInv, NEW t \in Turns, pc' = [pc EXCEPT ![t] = "failed"],
         UNCHANGED <<input, replay, heard, result, restarts>>
  PROVE  IndInv'
<1>1. \A u \in Turns : pc'[u] = IF u = t THEN "failed" ELSE pc[u]
  BY DEF IndInv, FunctionsOfTurns
<1>2. FunctionsOfTurns'
  BY DEF IndInv, FunctionsOfTurns, Inputs
<1>3. ResultFollows'
  BY <1>1 DEF IndInv, ResultFollows, Decided, Decide
<1>4. HeardWithConsent' /\ KeyIsRemembered' /\ OneTurnPerKey'
  BY <1>1 DEF IndInv, HeardWithConsent, KeyIsRemembered, OneTurnPerKey
<1> QED
  BY <1>2, <1>3, <1>4 DEF IndInv

\* A turn that begins uses its key, which no turn under way has.
LEMMA BeginInv ==
  ASSUME IndInv, NEW t \in Turns, Begin(t)
  PROVE  IndInv'
<1> DEFINE allowed == EvaluateRuntimeConsent(input[t], DerivePreRecognitionCapabilities(input[t]))
<1>1. /\ pc[t] = "ready" /\ input[t].scoped /\ (input[t].stored => input[t].key \notin replay)
      /\ replay' = IF input[t].stored THEN replay \cup {input[t].key} ELSE replay
      /\ input' = input /\ restarts' = restarts
      /\ \/ /\ allowed /\ heard' = [heard EXCEPT ![t] = TRUE]
            /\ pc' = [pc EXCEPT ![t] = "transcribing"]
            /\ result' = [result EXCEPT ![t].state = OpeningState]
         \/ /\ heard' = heard /\ pc' = [pc EXCEPT ![t] = "speaking"]
            /\ result' = [result EXCEPT ![t] = ConsentBlockedTurn]
  BY DEF Begin, Seen
<1> HIDE DEF allowed
<1>2. input[t].key \in ReplayKeys
  BY DEF IndInv, FunctionsOfTurns, Inputs
<1>3. \A u \in Turns : u # t => pc'[u] = pc[u] /\ heard'[u] = heard[u] /\ result'[u] = result[u]
  BY <1>1 DEF IndInv, FunctionsOfTurns
<1>4. /\ pc'[t] \in {"transcribing", "speaking"}
      /\ heard'[t] => heard[t] \/ allowed
      /\ pc'[t] = "transcribing" => result'[t] = [Nothing EXCEPT !.state = "processing"]
      /\ pc'[t] = "speaking" => result'[t] = ConsentBlockedTurn
  <2>1. result[t] = Nothing
    BY <1>1 DEF IndInv, ResultFollows
  <2>2. result = [u \in Turns |-> result[u]] /\ heard \in [Turns -> BOOLEAN]
        /\ pc \in [Turns -> {"ready", "transcribing", "speaking", "done", "failed"}]
    BY DEF IndInv, FunctionsOfTurns
  <2>3. CASE /\ allowed /\ heard' = [heard EXCEPT ![t] = TRUE]
             /\ pc' = [pc EXCEPT ![t] = "transcribing"]
             /\ result' = [result EXCEPT ![t].state = OpeningState]
    BY <2>1, <2>2, <2>3, OpeningIsProcessing
  <2>4. CASE /\ heard' = heard /\ pc' = [pc EXCEPT ![t] = "speaking"]
             /\ result' = [result EXCEPT ![t] = ConsentBlockedTurn]
    BY <2>2, <2>4
  <2> QED
    BY <1>1, <2>3, <2>4
<1>5. FunctionsOfTurns'
  BY <1>1, <1>2 DEF IndInv, FunctionsOfTurns, Inputs
<1>6. ResultFollows'
  <2> SUFFICES ASSUME NEW u \in Turns
               PROVE  /\ \/ Undecided(result'[u]) \/ result'[u] = ConsentBlockedTurn
                         \/ Decided(result'[u], input'[u])
                      /\ pc'[u] = "ready" => result'[u] = Nothing
                      /\ pc'[u] = "transcribing" => result'[u] = [Nothing EXCEPT !.state = "processing"]
    BY DEF ResultFollows
  <2>1. CASE u = t
    BY <1>4, <2>1 DEF Undecided
  <2>2. CASE u # t
    BY <1>1, <1>3, <2>2 DEF IndInv, ResultFollows
  <2> QED
    BY <2>1, <2>2
<1>7. HeardWithConsent'
  BY <1>1, <1>3, <1>4 DEF IndInv, HeardWithConsent, allowed
<1>8. KeyIsRemembered'
  BY <1>1, <1>3, <1>4 DEF IndInv, KeyIsRemembered
<1>9. OneTurnPerKey'
  BY <1>1, <1>3, <1>4 DEF IndInv, KeyIsRemembered, OneTurnPerKey
<1> QED
  BY <1>5, <1>6, <1>7, <1>8, <1>9 DEF IndInv

\* A transcript makes a decided result.
LEMMA TranscribeInv ==
  ASSUME IndInv, NEW t \in Turns, NEW text \in Transcripts, Transcribe(t, text)
  PROVE  IndInv'
<1> DEFINE d == Decide(input[t], text)
           r == [decision |-> d.decision, intent |-> d.intent, text |-> text,
                 state |-> StateAfter(result[t].state, d.plan),
                 response |-> CreateRuntimeDialogueResponse(d.intent, d.plan)]
<1>1. /\ pc[t] = "transcribing" /\ pc' = [pc EXCEPT ![t] = "speaking"]
      /\ result' = [result EXCEPT ![t] = r]
      /\ UNCHANGED <<input, replay, heard, restarts>>
  BY DEF Transcribe
<1>2. result[t].state = "processing"
  BY <1>1 DEF IndInv, ResultFollows, Nothing
<1>3. Decided(r, input[t])
  <2>1. /\ r.text = text /\ r.text \in Transcripts /\ r.state = StateAfter("processing", d.plan)
        /\ r = [decision |-> r.decision, intent |-> r.intent, state |-> r.state,
                response |-> r.response, text |-> r.text]
    BY <1>2
  <2> HIDE DEF r
  <2> QED
    BY <2>1 DEF Decided
<1> HIDE DEF r, d
<1>4. \A u \in Turns : /\ result'[u] = IF u = t THEN r ELSE result[u]
                       /\ pc'[u] = IF u = t THEN "speaking" ELSE pc[u]
  BY <1>1 DEF IndInv, FunctionsOfTurns
<1>5. FunctionsOfTurns'
  BY <1>1 DEF IndInv, FunctionsOfTurns, Inputs
<1>6. ResultFollows'
  <2> SUFFICES ASSUME NEW u \in Turns
               PROVE  /\ \/ Undecided(result'[u]) \/ result'[u] = ConsentBlockedTurn
                         \/ Decided(result'[u], input'[u])
                      /\ pc'[u] = "ready" => result'[u] = Nothing
                      /\ pc'[u] = "transcribing" => result'[u] = [Nothing EXCEPT !.state = "processing"]
    BY DEF ResultFollows
  <2> QED
    BY <1>1, <1>3, <1>4 DEF IndInv, ResultFollows
<1>7. HeardWithConsent' /\ KeyIsRemembered' /\ OneTurnPerKey'
  BY <1>1, <1>4 DEF IndInv, HeardWithConsent, KeyIsRemembered, OneTurnPerKey
<1> QED
  BY <1>5, <1>6, <1>7 DEF IndInv

\* A turn whose answer was to be spoken is completed; any other keeps its state.
LEMMA SpeakInv ==
  ASSUME IndInv, NEW t \in Turns, Speak(t)
  PROVE  IndInv'
<1> DEFINE r == [result[t] EXCEPT !.state =
                    IF @ = "responding" THEN TransitionVoiceRuntimeState(@, "response_sent") ELSE @]
<1>1. /\ pc[t] = "speaking" /\ pc' = [pc EXCEPT ![t] = "done"]
      /\ result' = [result EXCEPT ![t] = r]
      /\ UNCHANGED <<input, replay, heard, restarts>>
  BY DEF Speak
<1>2. Undecided(r) \/ r = ConsentBlockedTurn \/ Decided(r, input[t])
  <2>1. CASE Undecided(result[t])
    <3>1. PICK state \in {"initialized", "processing"} : result[t] = [Nothing EXCEPT !.state = state]
      BY <2>1 DEF Undecided
    <3>2. r = result[t]
      BY <3>1 DEF Nothing
    <3> QED
      BY <2>1, <3>2
  <2>2. CASE result[t] = ConsentBlockedTurn
    <3> DEFINE q == result[t]
    <3>1. /\ q = [decision |-> q.decision, intent |-> q.intent, state |-> q.state,
                  response |-> q.response, text |-> q.text]
          /\ q.state = "blocked"
      <4> DEFINE c == ConsentBlockedTurn
      <4>1. /\ c = [decision |-> c.decision, intent |-> c.intent, state |-> c.state,
                    response |-> c.response, text |-> c.text]
            /\ c.state = "blocked"
        BY DEF ConsentBlockedTurn
      <4> QED
        BY <2>2, <4>1
    <3>2. r = q
      BY <3>1, WithState
    <3> QED
      BY <2>2, <3>2
  <2>3. CASE Decided(result[t], input[t])
    <3> DEFINE q == result[t]
    <3>1. q = [decision |-> q.decision, intent |-> q.intent, state |-> q.state,
               response |-> q.response, text |-> q.text]
      BY <2>3 DEF Decided
    <3>2. CASE q.state = "responding"
      <4>1. r = [decision |-> q.decision, intent |-> q.intent, state |-> "completed",
                 response |-> q.response, text |-> q.text]
        BY <3>1, <3>2, ResponseCompletes
      <4>0. q.text \in Transcripts
        BY <2>3 DEF Decided
      <4>2. r.state = "completed" /\ r.text = q.text
            /\ r = [decision |-> r.decision, intent |-> r.intent, state |-> r.state,
                    response |-> r.response, text |-> r.text]
        BY <4>1
      <4> HIDE DEF r
      <4> QED
        BY <2>3, <3>2, <4>0, <4>2 DEF Decided
    <3>3. CASE q.state # "responding"
      <4>1. r = [decision |-> q.decision, intent |-> q.intent, state |-> q.state,
                 response |-> q.response, text |-> q.text]
        BY <3>1, <3>3
      <4> QED
        BY <2>3, <3>1, <4>1
    <3> QED
      BY <3>2, <3>3
  <2> QED
    BY <2>1, <2>2, <2>3 DEF IndInv, ResultFollows
<1> HIDE DEF r
<1>3. \A u \in Turns : /\ result'[u] = IF u = t THEN r ELSE result[u]
                       /\ pc'[u] = IF u = t THEN "done" ELSE pc[u]
  BY <1>1 DEF IndInv, FunctionsOfTurns
<1>4. FunctionsOfTurns'
  BY <1>1 DEF IndInv, FunctionsOfTurns, Inputs
<1>5. ResultFollows'
  <2> SUFFICES ASSUME NEW u \in Turns
               PROVE  /\ \/ Undecided(result'[u]) \/ result'[u] = ConsentBlockedTurn
                         \/ Decided(result'[u], input'[u])
                      /\ pc'[u] = "ready" => result'[u] = Nothing
                      /\ pc'[u] = "transcribing" => result'[u] = [Nothing EXCEPT !.state = "processing"]
    BY DEF ResultFollows
  <2> QED
    BY <1>1, <1>2, <1>3 DEF IndInv, ResultFollows
<1>6. HeardWithConsent' /\ KeyIsRemembered' /\ OneTurnPerKey'
  BY <1>1, <1>3 DEF IndInv, HeardWithConsent, KeyIsRemembered, OneTurnPerKey
<1> QED
  BY <1>4, <1>5, <1>6 DEF IndInv

\* After a restart the keys are forgotten, and the promise with them.
LEMMA RestartInv ==
  ASSUME IndInv, Restart
  PROVE  IndInv'
<1>1. restarts' \in Nat /\ restarts' # 0
  BY DEF IndInv, FunctionsOfTurns, Restart
<1>2. \A u \in Turns : pc'[u] = IF pc[u] \in {"transcribing", "speaking"} THEN "failed" ELSE pc[u]
  BY DEF Restart
<1>3. FunctionsOfTurns'
  BY <1>1 DEF IndInv, FunctionsOfTurns, Restart, Inputs
<1>4. ResultFollows'
  <2> SUFFICES ASSUME NEW u \in Turns
               PROVE  /\ \/ Undecided(result'[u]) \/ result'[u] = ConsentBlockedTurn
                         \/ Decided(result'[u], input'[u])
                      /\ pc'[u] = "ready" => result'[u] = Nothing
                      /\ pc'[u] = "transcribing" => result'[u] = [Nothing EXCEPT !.state = "processing"]
    BY DEF ResultFollows
  <2> QED
    BY <1>2 DEF IndInv, ResultFollows, Restart
<1>5. HeardWithConsent' /\ KeyIsRemembered' /\ OneTurnPerKey'
  BY <1>1 DEF IndInv, HeardWithConsent, KeyIsRemembered, OneTurnPerKey, Restart
<1> QED
  BY <1>3, <1>4, <1>5 DEF IndInv

LEMMA NextInv ==
  ASSUME IndInv, [Next]_vars
  PROVE  IndInv'
<1>1. CASE UNCHANGED vars
  <2>1. FunctionsOfTurns'
    BY <1>1 DEF vars, IndInv, FunctionsOfTurns, Inputs
  <2>2. ResultFollows'
    BY <1>1 DEF vars, IndInv, ResultFollows, Decided, Decide
  <2> QED
    BY <1>1, <2>1, <2>2 DEF vars, IndInv, HeardWithConsent, KeyIsRemembered, OneTurnPerKey
<1>2. CASE \E t \in Turns : Reject(t) \/ ProviderFails(t)
  BY <1>2, FailInv DEF Reject, ProviderFails
<1>3. CASE Next
  BY <1>2, <1>3, BeginInv, TranscribeInv, SpeakInv, RestartInv DEF Next
<1> QED
  BY <1>1, <1>3

\* The invariant holds for any number of turns.
THEOREM InvariantHolds == Spec => []IndInv
<1>1. Init => IndInv
  BY InitInv
<1>2. IndInv /\ [Next]_vars => IndInv'
  BY NextInv
<1> QED
  BY <1>1, <1>2, PTL DEF Spec

-----------------------------------------------------------------------------
(***************************************************************************)
(* What follows from it                                                    *)
(***************************************************************************)

\* Two calls with one replay key that pass the replay store never both reach the
\* recognizer or an answer before the process restarts (processVoiceRuntimeTurn
\* remembers the key before its first await).
THEOREM KeyIsUsedOnce == Spec => []OneTurnPerKey
<1>1. IndInv => OneTurnPerKey
  BY DEF IndInv
<1> QED
  BY <1>1, InvariantHolds, PTL

\* The states a turn can be in.
LEMMA StatesOfResults ==
  ASSUME NEW r, NEW in,
         Undecided(r) \/ r = ConsentBlockedTurn \/ Decided(r, in)
  PROVE  /\ r.state \in States \ {"waiting_for_tool"}
         /\ Sensitive(r.text) => r.state \notin {"responding", "completed"}
         /\ r.state = "escalating" => in.consent.given /\ ~in.consent.denied
<1>1. CASE Undecided(r) \/ r = ConsentBlockedTurn
  <2>1. r.text = Silence /\ r.state \in {"initialized", "processing", "blocked"}
    <3>1. CASE Undecided(r)
      <4>1. PICK state \in {"initialized", "processing"} : r = [Nothing EXCEPT !.state = state]
        BY <3>1 DEF Undecided
      <4> QED
        BY <4>1, UndecidedResults
    <3>2. CASE r = ConsentBlockedTurn
      <4>1. ConsentBlockedTurn.text = Silence /\ ConsentBlockedTurn.state = "blocked"
        BY DEF ConsentBlockedTurn
      <4> QED
        BY <3>2, <4>1
    <3> QED
      BY <1>1, <3>1, <3>2
  <2>2. ~Sensitive(Silence)
    BY DEF Sensitive, Silence
  <2> QED
    BY <2>1, <2>2 DEF States
<1>2. CASE Decided(r, in)
  <2> DEFINE plan == Decide(in, r.text).plan
  <2>1. \/ r.state = StateAfter("processing", plan)
        \/ StateAfter("processing", plan) = "responding" /\ r.state = "completed"
    BY <1>2 DEF Decided
  <2>2. Sensitive(r.text) => plan.status = "blocked" \/ plan.human
    <3>1. r.text.said \/ r.text = Silence
      <4>1. r.text \in Transcripts
        BY <1>2 DEF Decided
      <4> QED
        BY <4>1, TranscriptsAssumption
    <3>2. ~Sensitive(Silence)
      BY DEF Sensitive, Silence
    <3> QED
      BY <3>1, <3>2, SensitiveIsPlanned
  <2>3. plan.status # "blocked" /\ plan.human => in.consent.given /\ ~in.consent.denied
    BY PersonNeedsConsent
  <2> HIDE DEF plan
  <2>4. StateAfter("processing", plan) \in {"blocked", "escalating", "responding"}
    BY PlanLeads
  <2>5. StateAfter("processing", plan) = "escalating" => plan.status # "blocked" /\ plan.human
    BY PlanLeads
  <2>6. StateAfter("processing", plan) = "responding" => ~(plan.status = "blocked" \/ plan.human)
    BY PlanLeads
  <2> QED
    BY <2>1, <2>2, <2>3, <2>4, <2>5, <2>6 DEF States
<1> QED
  BY <1>1, <1>2

\* A turn is safe (processVoiceRuntimeTurn): nothing is heard without the consent
\* the caller's policy asks for, nothing sensitive that no earlier rule takes for
\* something ordinary is completed by the machine, no sensitive tool is handed on
\* without consent, and no transition throws, for every consent and transcript.
THEOREM TurnsAreSafe == Spec => []VoiceTurnsAreSafe
<1>1. ASSUME IndInv PROVE TypeOK
  BY <1>1, StatesOfResults DEF IndInv, FunctionsOfTurns, ResultFollows, TypeOK
<1>2. ASSUME IndInv PROVE NothingHeardWithoutConsent
  <2> SUFFICES ASSUME NEW t \in Turns, heard[t]
               PROVE  LET c == input[t].consent
                      IN  /\ input[t].scoped
                          /\ (input[t].mode # "text_chat" \/ input[t].audio) => c.given
                          /\ c.given => ~c.denied
                          /\ (c.given /\ input[t].policy.recording
                              /\ (c.recording \/ input[t].mode = "phone_simulation")) => c.granted
    BY DEF NothingHeardWithoutConsent
  <2>1. input[t].mode \in {"text_chat", "voice_chat", "phone_simulation"}
    BY <1>2, ModesAssumption DEF IndInv, FunctionsOfTurns, Inputs
  <2>2. /\ input[t].scoped
        /\ EvaluateRuntimeConsent(input[t], DerivePreRecognitionCapabilities(input[t]))
    BY <1>2 DEF IndInv, HeardWithConsent
  <2> QED
    BY <2>1, <2>2, ConsentCoversHearing
<1>3. ASSUME IndInv PROVE SensitiveNeverAutomatic /\ SensitiveToolNeedsConsent
  BY <1>3, StatesOfResults
  DEF IndInv, ResultFollows, SensitiveNeverAutomatic, SensitiveToolNeedsConsent
<1>4. IndInv => VoiceTurnsAreSafe
  BY <1>1, <1>2, <1>3 DEF VoiceTurnsAreSafe
<1> QED
  BY <1>4, InvariantHolds, PTL

-----------------------------------------------------------------------------
(***************************************************************************)
(* Improvement: the rows the detectors and the scores make.                *)
(***************************************************************************)

LEMMA SomeOpportunity ==
  ASSUME NEW type \in DOMAIN Improvement!SubsystemOf, NEW b \in Nat,
         NEW sev \in Improvement!Severities
  PROVE  /\ Improvement!Opportunity(type, b, sev) \in Improvement!OpportunityRows
         /\ Improvement!Opportunity(type, b, sev).status = "detected"
BY DEF Improvement!Opportunity, Improvement!OpportunityRows, Improvement!OpportunityStatuses

LEMMA DetectedAreRows ==
  ASSUME NEW e \in Evidences, NEW by
  PROVE  Improvement!Detected(e,
         by) \subseteq {o \in Improvement!OpportunityRows : o.status = "detected"}
<1> DEFINE New == {o \in Improvement!OpportunityRows : o.status = "detected"}
<1>1. /\ e.latency \in Nat /\ e.blocks \in Nat /\ e.errors \in Nat
      /\ e.misconfigured \in Nat /\ e.unready \in Nat
  BY ImprovementConstants DEF Improvement!ConstantsAssumed
<1>2. \A v, m, h : Improvement!SeverityFor(v, m, h) \in Improvement!Severities
  BY DEF Improvement!SeverityFor, Improvement!Severities
<1>3. {"performance", "safety_gate", "reliability", "conversion", "documentation",
       "telephony_readiness"} \subseteq DOMAIN Improvement!SubsystemOf
  BY DEF Improvement!SubsystemOf
<1>4. "medium" \in Improvement!Severities /\ "high" \in Improvement!Severities
      /\ Improvement!ConversionSeverity(e) \in Improvement!Severities
  BY DEF Improvement!Severities, Improvement!ConversionSeverity
<1>6. /\ \A x \in Improvement!Severities : Improvement!Opportunity("performance", e.latency,
         x) \in New
      /\ \A x \in Improvement!Severities : Improvement!Opportunity("safety_gate", e.blocks,
         x) \in New
      /\ \A x \in Improvement!Severities : Improvement!Opportunity("reliability", e.errors,
         x) \in New
      /\ \A x \in Improvement!Severities : Improvement!Opportunity("conversion", 0, x) \in New
      /\ \A x \in Improvement!Severities : Improvement!Opportunity("documentation",
         e.misconfigured, x) \in New
      /\ \A x \in Improvement!Severities : Improvement!Opportunity("telephony_readiness",
         e.unready, x) \in New
  BY <1>1, <1>3, SomeOpportunity
<1> HIDE DEF New
<1>7. Improvement!Detected(e, by) \subseteq New
  BY <1>2, <1>4, <1>6 DEF Improvement!Detected
<1> QED
  BY <1>7 DEF New

LEMMA ScoresInBounds ==
  /\ \A r \in Int : Improvement!Smaller(100, r) <= 100 /\ Improvement!Smaller(100, r) \in Int
  /\ \A r \in Nat : Improvement!Smaller(100, r) \in 0..100
     /\ Improvement!Smaller(30, Improvement!Rounded(r, 3)) \in 0..100
  /\ \A r \in Nat : Improvement!Rounded(r, 3) \in Nat /\ Improvement!Rounded(r, 4) \in Nat
     /\ Improvement!Rounded(r, 5) \in Nat
  /\ \A r \in Int : Improvement!Larger(0, r) \in Nat
BY DEF Improvement!Smaller, Improvement!Larger, Improvement!Rounded

LEMMA StatusOfRisk == \A r \in Int : Improvement!StatusForRisk(r) \in Improvement!CandidateStatuses
BY DEF Improvement!StatusForRisk, Improvement!CandidateStatuses

LEMMA SeverityScores ==
  ASSUME NEW o \in Improvement!OpportunityRows
  PROVE  /\ Improvement!EvidenceScoreFor(o) \in 0..100
         /\ Improvement!ExpectedImpactFor(o) \in Nat
<1>1. o.baseline \in Nat /\ o.severity \in {"low", "medium", "high", "critical"}
  BY DEF Improvement!OpportunityRows, Improvement!Severities
<1>2. Improvement!Smaller(35, o.baseline) \in Nat
  BY <1>1 DEF Improvement!Smaller
<1> DEFINE s == CASE o.severity \in {"high", "critical"} -> 18
                  [] o.severity = "medium" -> 10
                  [] OTHER -> 4
<1>3. s \in Nat
  BY <1>1
<1>4. Improvement!EvidenceScoreFor(o) = Improvement!Smaller(100, Improvement!Smaller(35,
      o.baseline) + s + 20)
  BY DEF Improvement!EvidenceScoreFor
<1>5. Improvement!EvidenceScoreFor(o) \in 0..100
  <2> HIDE DEF s
  <2> QED BY <1>2, <1>3, <1>4, ScoresInBounds
<1>6. Improvement!ExpectedImpactFor(o) \in Nat
  BY <1>1 DEF Improvement!ExpectedImpactFor
<1> QED
  BY <1>5, <1>6

LEMMA RiskOfOpportunity ==
  ASSUME NEW o \in Improvement!OpportunityRows
  PROVE  /\ Improvement!RiskScoreFromOpportunity(o) \in 0..100
         /\ Improvement!SubsystemOf[o.type] \in {"telephony", "security"} =>
                Improvement!RiskScoreFromOpportunity(o) >= 45
<1>1. o.type \in {"performance", "safety_gate", "reliability", "conversion", "documentation",
                  "telephony_readiness"}
  BY DEF Improvement!OpportunityRows, Improvement!SubsystemOf
<1>2. CASE o.type = "performance"
  BY <1>2 DEF Improvement!RiskScoreFromOpportunity, Improvement!SubsystemOf,
     Improvement!SubsystemRisk, Improvement!Smaller, Improvement!Larger
<1>3. CASE o.type = "safety_gate"
  BY <1>3 DEF Improvement!RiskScoreFromOpportunity, Improvement!SubsystemOf,
     Improvement!SubsystemRisk, Improvement!Smaller, Improvement!Larger
<1>4. CASE o.type = "reliability"
  BY <1>4 DEF Improvement!RiskScoreFromOpportunity, Improvement!SubsystemOf,
     Improvement!SubsystemRisk, Improvement!Smaller, Improvement!Larger
<1>5. CASE o.type = "conversion"
  BY <1>5 DEF Improvement!RiskScoreFromOpportunity, Improvement!SubsystemOf,
     Improvement!SubsystemRisk, Improvement!Smaller, Improvement!Larger
<1>6. CASE o.type = "documentation"
  BY <1>6 DEF Improvement!RiskScoreFromOpportunity, Improvement!SubsystemOf,
     Improvement!SubsystemRisk, Improvement!Smaller, Improvement!Larger
<1>7. CASE o.type = "telephony_readiness"
  BY <1>7 DEF Improvement!RiskScoreFromOpportunity, Improvement!SubsystemOf,
     Improvement!SubsystemRisk, Improvement!Smaller, Improvement!Larger
<1> QED
  BY <1>1, <1>2, <1>3, <1>4, <1>5, <1>6, <1>7

\* The rows the two generators make: scores within the tables' checks, and
\* the sandbox for what the route makes of telephony or security.
LEMMA RouteCandidate ==
  ASSUME NEW o \in Improvement!OpportunityRows, NEW n \in Nat
  PROVE  /\ Improvement!GenerateImprovementCandidate(n, o) \in Improvement!CandidateRows
         /\ Improvement!GenerateImprovementCandidate(n, o).opportunity = n
         /\ Improvement!GenerateImprovementCandidate(n, o).status \notin Improvement!Settled
         /\ Improvement!SubsystemOf[o.type] \in {"telephony", "security"} =>
                Improvement!GenerateImprovementCandidate(n, o).status = "sandbox_required"
<1>1. PICK risk \in 0..100 : risk = Improvement!RiskScoreFromOpportunity(o)
  BY RiskOfOpportunity
<1>2. PICK complexity \in 0..100 : complexity = Improvement!Smaller(30, Improvement!Rounded(risk,
                                   3))
  BY risk \in Nat, ScoresInBounds
<1>3. Improvement!CalculatePriorityScore(o, risk, complexity) \in Nat
  <2>1. PICK a \in 0..100 : a = Improvement!EvidenceScoreFor(o)
    BY SeverityScores
  <2>2. PICK b \in Nat : b = Improvement!ExpectedImpactFor(o)
    BY SeverityScores
  <2>3. PICK c \in Nat, d \in Nat : c = Improvement!Rounded(risk, 4)
                                    /\ d = Improvement!Rounded(risk, 5)
    BY risk \in Nat, ScoresInBounds
  <2>4. PICK x \in Nat, y \in Nat, z \in Nat :
          /\ x = (IF o.type \in {"documentation", "reliability"} THEN 10 ELSE 4)
          /\ y = (IF o.type = "performance" THEN 14 ELSE 0)
          /\ z = (IF o.type = "conversion" THEN 12 ELSE 6)
    OBVIOUS
  <2>5. Improvement!CalculatePriorityScore(o, risk, complexity) = Improvement!Larger(0,
        a + b + x + y + z - complexity - c - d)
    BY <2>1, <2>2, <2>3, <2>4 DEF Improvement!CalculatePriorityScore
  <2>6. a + b + x + y + z - complexity - c - d \in Int
    OBVIOUS
  <2> QED
    BY <2>5, <2>6, ScoresInBounds
<1>4. Improvement!GenerateImprovementCandidate(n, o) =
        [opportunity |-> n, by |-> "route", risk |-> risk,
        evidence |-> Improvement!EvidenceScoreFor(o),
         complexity |-> complexity,
         priority |-> Improvement!CalculatePriorityScore(o, risk, complexity),
         status |-> Improvement!StatusForRisk(risk)]
  BY <1>1, <1>2 DEF Improvement!GenerateImprovementCandidate
<1>5. Improvement!EvidenceScoreFor(o) \in 0..100
  BY SeverityScores
<1>6. Improvement!StatusForRisk(risk) \in Improvement!CandidateStatuses
      /\ Improvement!StatusForRisk(risk) \notin Improvement!Settled
  BY StatusOfRisk DEF Improvement!StatusForRisk, Improvement!Settled
<1>7. Improvement!SubsystemOf[o.type] \in {"telephony", "security"}
      => Improvement!StatusForRisk(risk) = "sandbox_required"
  BY <1>1, RiskOfOpportunity DEF Improvement!StatusForRisk
<1>8. Improvement!GenerateImprovementCandidate(n, o) \in Improvement!CandidateRows
  BY <1>3, <1>4, <1>5, <1>6 DEF Improvement!CandidateRows, Improvement!Makers
<1> QED
  BY <1>4, <1>6, <1>7, <1>8

LEMMA ScriptRow ==
  ASSUME NEW o \in Improvement!OpportunityRows, NEW n \in Nat
  PROVE  /\ Improvement!ScriptCandidate(n, o) \in Improvement!CandidateRows
         /\ Improvement!ScriptCandidate(n, o).opportunity = n
         /\ Improvement!ScriptCandidate(n, o).by = "script"
         /\ Improvement!ScriptCandidate(n, o).status \notin Improvement!Settled
<1>1. PICK x \in Nat, y \in Nat, z \in Nat, i \in Nat :
        /\ x = (IF o.type = "telephony_readiness" THEN 40 ELSE 0)
        /\ y = (IF o.type = "safety_gate" THEN 20 ELSE 0)
        /\ z = (IF o.severity = "high" THEN 12 ELSE 4)
        /\ i = (IF o.severity = "high" THEN 28 ELSE 18)
  OBVIOUS
<1>2. PICK risk \in 0..100 : risk = Improvement!Smaller(100, 20 + x + y + z)
  BY ScoresInBounds
<1>3. PICK complexity \in 0..100 : complexity = Improvement!Smaller(30, Improvement!Rounded(risk,
                                   3))
  BY risk \in Nat, ScoresInBounds
<1>4. PICK score \in 0..100 : score = Improvement!Smaller(100, o.baseline + 30)
  <2>1. o.baseline + 30 \in Nat
    BY DEF Improvement!OpportunityRows
  <2> QED
    BY <2>1, ScoresInBounds
<1>5. PICK d \in Nat : d = Improvement!Rounded(risk, 4)
  BY risk \in Nat, ScoresInBounds
<1>6. PICK p \in Nat : p = Improvement!Larger(0, score + i + 6 - d - complexity)
  BY ScoresInBounds
<1>7. Improvement!ScriptCandidate(n, o) =
        [opportunity |-> n, by |-> "script", risk |-> risk, evidence |-> score,
         complexity |-> complexity, priority |-> p, status |-> Improvement!StatusForRisk(risk)]
  BY <1>1, <1>2, <1>3, <1>4, <1>5, <1>6 DEF Improvement!ScriptCandidate
<1>8. Improvement!StatusForRisk(risk) \in Improvement!CandidateStatuses
      /\ Improvement!StatusForRisk(risk) \notin Improvement!Settled
  BY StatusOfRisk DEF Improvement!StatusForRisk, Improvement!Settled
<1>9. Improvement!ScriptCandidate(n, o) \in Improvement!CandidateRows
  BY <1>7, <1>8 DEF Improvement!CandidateRows, Improvement!Makers
<1> QED
  BY <1>7, <1>8, <1>9

-----------------------------------------------------------------------------
(***************************************************************************)
(* Improvement: what every step keeps of what the jobs rest on.            *)
(***************************************************************************)

\* The tables only grow, and a candidate keeps its opportunity.
RowsStay ==
    /\ DOMAIN opportunities \subseteq DOMAIN opportunities'
    /\ DOMAIN candidates \subseteq DOMAIN candidates'
    /\ \A c \in DOMAIN candidates : candidates'[c].opportunity = candidates[c].opportunity
    /\ \A c : Improvement!HasLineage(c) => Improvement!HasLineage(c)'
    /\ \A c : Improvement!DecisionsOn(c) \subseteq Improvement!DecisionsOn(c)'

LEMMA JobStays ==
  ASSUME RowsStay, NEW j, Improvement!JobFollows(j)
  PROVE  Improvement!JobFollows(j)'
<1>1. Improvement!IsDetecting(j) => Improvement!IsDetecting(j)'
  BY DEF Improvement!IsDetecting
<1>2. Improvement!IsDeciding(j) => Improvement!IsDeciding(j)'
  BY DEF Improvement!IsDeciding, RowsStay
<1>3. Improvement!IsGenerating(j) => Improvement!IsGenerating(j)'
  BY DEF Improvement!IsGenerating, RowsStay, Improvement!IsFirst
<1> QED
  BY <1>1, <1>2, <1>3 DEF Improvement!JobFollows, Improvement!Idle

\* The other jobs go on as they were.
LEMMA JobsStay ==
  ASSUME RowsStay, Improvement!JobsFollowRows, NEW w \in Workers, NEW j, Improvement!JobFollows(j)',
         job' = [job EXCEPT ![w] = j]
  PROVE  Improvement!JobsFollowRows'
<1>1. DOMAIN job' = Workers
  BY DEF Improvement!JobsFollowRows
<1>2. ASSUME NEW v \in Workers PROVE Improvement!JobFollows(job[v])'
  <2>1. CASE v = w
    <3>1. job'[v] = j
      BY <2>1 DEF Improvement!JobsFollowRows
    <3> QED
      BY <3>1 DEF Improvement!JobFollows, Improvement!IsDetecting, Improvement!IsGenerating,
         Improvement!IsDeciding
  <2>2. CASE v # w
    <3>1. PICK i : i = job[v]
      OBVIOUS
    <3>2. Improvement!JobFollows(i)
      BY <3>1 DEF Improvement!JobsFollowRows
    <3>3. Improvement!JobFollows(i)'
      BY <3>2, JobStays
    <3>4. job'[v] = i
      BY <2>2, <3>1 DEF Improvement!JobsFollowRows
    <3> QED
      BY <3>3, <3>4 DEF Improvement!JobFollows, Improvement!IsDetecting, Improvement!IsGenerating,
         Improvement!IsDeciding
  <2> QED
    BY <2>1, <2>2
<1> QED
  BY <1>1, <1>2 DEF Improvement!JobsFollowRows

LEMMA DecidedStays ==
  ASSUME RowsStay
  PROVE  \A c, status : Improvement!IsDecided(status, c) => Improvement!IsDecided(status, c)'
BY DEF RowsStay, Improvement!IsDecided

\* A step that leaves the tables alone.
LEMMA TablesStay ==
  ASSUME UNCHANGED <<opportunities, candidates, lineage, approvals>>
  PROVE  /\ RowsStay
         /\ Improvement!RowsAreWhole /\ evidence' \in Evidences => Improvement!RowsAreWhole'
         /\ Improvement!GeneratedHasLineage => Improvement!GeneratedHasLineage'
         /\ Improvement!DecidedByPerson => Improvement!DecidedByPerson'
         /\ Improvement!SensitiveNeedsSandbox => Improvement!SensitiveNeedsSandbox'
<1>1. RowsStay
  BY DEF RowsStay, Improvement!HasLineage, Improvement!DecisionsOn
<1>2. Improvement!RowsAreWhole /\ evidence' \in Evidences => Improvement!RowsAreWhole'
  BY DEF Improvement!RowsAreWhole
<1>3. Improvement!GeneratedHasLineage => Improvement!GeneratedHasLineage'
  BY DEF Improvement!GeneratedHasLineage, Improvement!HasLineage
<1>4. Improvement!DecidedByPerson => Improvement!DecidedByPerson'
  BY DEF Improvement!DecidedByPerson, Improvement!IsDecided, Improvement!DecisionsOn
<1>5. Improvement!SensitiveNeedsSandbox => Improvement!SensitiveNeedsSandbox'
  BY DEF Improvement!SensitiveNeedsSandbox, Improvement!DecisionsOn
<1> QED
  BY <1>1, <1>2, <1>3, <1>4, <1>5

-----------------------------------------------------------------------------
(***************************************************************************)
(* Improvement: every action keeps the invariant.                          *)
(***************************************************************************)

LEMMA IdleFollows == Improvement!JobFollows(Improvement!Idle)'
BY DEF Improvement!JobFollows, Improvement!Idle

\* A step that leaves the tables alone needs only the job it writes.
LEMMA QuietKeeps ==
  ASSUME Improvement!IndInv, UNCHANGED <<evidence, opportunities, candidates, lineage, approvals>>,
         NEW w \in Workers, NEW j, Improvement!JobFollows(j)', job' = [job EXCEPT ![w] = j]
  PROVE  Improvement!IndInv'
<1>1. evidence' \in Evidences
  BY DEF Improvement!IndInv, Improvement!RowsAreWhole
<1>2. Improvement!JobsFollowRows'
  BY TablesStay, JobsStay DEF Improvement!IndInv
<1> QED
  BY <1>1, <1>2, TablesStay DEF Improvement!IndInv

LEMMA TelemetryArrivesKeeps ==
  ASSUME Improvement!IndInv, Improvement!TelemetryArrives
  PROVE  Improvement!IndInv'
<1>1. evidence' \in Evidences /\ UNCHANGED <<opportunities, candidates, lineage, approvals, job>>
  BY DEF Improvement!TelemetryArrives
<1>2. Improvement!JobsFollowRows'
  BY <1>1 DEF Improvement!IndInv, Improvement!JobsFollowRows, Improvement!JobFollows,
     Improvement!IsDetecting, Improvement!IsGenerating, Improvement!IsDeciding,
     Improvement!HasLineage,
       Improvement!DecisionsOn
<1> QED
  BY <1>1, <1>2, TablesStay DEF Improvement!IndInv

LEMMA StartDetectionKeeps ==
  ASSUME Improvement!IndInv, NEW w \in Workers, NEW by, Improvement!StartDetection(w, by)
  PROVE  Improvement!IndInv'
<1>1. PICK found : found = Improvement!Detected(evidence, by)
  OBVIOUS
<1>2. found \subseteq {o \in Improvement!OpportunityRows : o.status = "detected"}
  BY <1>1, DetectedAreRows DEF Improvement!IndInv, Improvement!RowsAreWhole
<1> DEFINE j == [at |-> "detecting", by |-> by, found |-> found]
<1>3. Improvement!JobFollows(j)'
  BY <1>2 DEF Improvement!JobFollows, Improvement!IsDetecting
<1>4. job' = [job EXCEPT ![w] = j]
  BY <1>1 DEF Improvement!StartDetection
<1> HIDE DEF j
<1> QED
  BY <1>3, <1>4, QuietKeeps DEF Improvement!StartDetection

LEMMA StartGenerationKeeps ==
  ASSUME Improvement!IndInv, NEW w \in Workers, NEW by \in Improvement!Makers,
         Improvement!StartGeneration(w, by)
  PROVE  Improvement!IndInv'
<1>1. PICK todo : todo = {n \in Improvement!Open : Improvement!Cardinality({m \in Improvement!Open : m < n}) < BatchLimit}
  OBVIOUS
<1>2. todo \subseteq DOMAIN opportunities' /\ opportunities' = opportunities
  BY <1>1 DEF Improvement!Open, Improvement!StartGeneration
<1> DEFINE j == [at |-> "candidate", by |-> by, todo |-> todo]
<1>3. Improvement!JobFollows(j)'
  BY <1>2 DEF Improvement!JobFollows, Improvement!IsGenerating
<1>4. job' = [job EXCEPT ![w] = j]
  BY <1>1 DEF Improvement!StartGeneration
<1> HIDE DEF j
<1> QED
  BY <1>3, <1>4, QuietKeeps DEF Improvement!StartGeneration

LEMMA FinishKeeps ==
  ASSUME Improvement!IndInv, NEW w \in Workers, Improvement!Finish(w) \/ Improvement!FailSafely(w)
  PROVE  Improvement!IndInv'
<1>1. PICK j : j = Improvement!Idle
  OBVIOUS
<1>2. Improvement!JobFollows(j)'
  BY <1>1, IdleFollows
<1> QED
  BY <1>1, <1>2, QuietKeeps DEF Improvement!Finish, Improvement!FailSafely

LEMMA InsertOpportunityKeeps ==
  ASSUME Improvement!IndInv, NEW w \in Workers, Improvement!InsertOpportunity(w)
  PROVE  Improvement!IndInv'
<1>1. PICK o \in job[w].found :
        /\ opportunities' = Append(opportunities, o)
        /\ job' = [job EXCEPT ![w] =
               [at |-> "detecting", by |-> @.by, found |-> @.found \ {o}]]
  BY DEF Improvement!InsertOpportunity
<1>2. UNCHANGED <<evidence, candidates, lineage, approvals>>
  BY DEF Improvement!InsertOpportunity
<1>3. Improvement!IsDetecting(job[w])
  BY DEF Improvement!InsertOpportunity, Improvement!IndInv, Improvement!JobsFollowRows,
     Improvement!JobFollows, Improvement!IsDetecting, Improvement!IsGenerating,
         Improvement!IsDeciding, Improvement!Idle
<1>4. o \in Improvement!OpportunityRows /\ o.status = "detected"
      /\ opportunities \in Seq(Improvement!OpportunityRows)
  BY <1>1, <1>3 DEF Improvement!IsDetecting, Improvement!IndInv, Improvement!RowsAreWhole
<1>5. /\ opportunities' \in Seq(Improvement!OpportunityRows)
      /\ DOMAIN opportunities \subseteq DOMAIN opportunities'
      /\ \A n \in DOMAIN opportunities : opportunities'[n] = opportunities[n]
      /\ \A n \in DOMAIN opportunities' : n \in DOMAIN opportunities \/ opportunities'[n] = o
  BY <1>1, <1>4
<1>6. RowsStay
  BY <1>2, <1>5 DEF RowsStay, Improvement!HasLineage, Improvement!DecisionsOn
<1>7. Improvement!RowsAreWhole'
  BY <1>2, <1>5 DEF Improvement!IndInv, Improvement!RowsAreWhole
<1>8. Improvement!JobsFollowRows'
  <2>1. PICK by, found : by = job[w].by /\ found = job[w].found \ {o}
    OBVIOUS
  <2> DEFINE j == [at |-> "detecting", by |-> by, found |-> found]
  <2>2. Improvement!JobFollows(j)'
    BY <2>1, <1>3 DEF Improvement!JobFollows, Improvement!IsDetecting
  <2>3. job' = [job EXCEPT ![w] = j]
    BY <1>1, <2>1
  <2> HIDE DEF j
  <2> QED
    BY <1>6, <2>2, <2>3, JobsStay DEF Improvement!IndInv
<1>9. Improvement!GeneratedHasLineage'
  BY <1>2, <1>4, <1>5 DEF Improvement!IndInv, Improvement!GeneratedHasLineage,
     Improvement!HasLineage
<1>10. Improvement!DecidedByPerson'
  BY <1>2 DEF Improvement!IndInv, Improvement!DecidedByPerson, Improvement!IsDecided,
     Improvement!DecisionsOn
<1>11. Improvement!SensitiveNeedsSandbox'
  <2>1. \A c : Improvement!DecisionsOn(c)' = Improvement!DecisionsOn(c)
    BY <1>2 DEF Improvement!DecisionsOn
  <2>2. \A c \in DOMAIN candidates :
          opportunities'[candidates[c].opportunity] = opportunities[candidates[c].opportunity]
    BY <1>5 DEF Improvement!IndInv, Improvement!RowsAreWhole
  <2> QED
    BY <1>2, <2>1, <2>2 DEF Improvement!IndInv, Improvement!SensitiveNeedsSandbox
<1> QED
  BY <1>7, <1>8, <1>9, <1>10, <1>11 DEF Improvement!IndInv

LEMMA InsertCandidateKeeps ==
  ASSUME Improvement!IndInv, NEW w \in Workers, Improvement!InsertCandidate(w)
  PROVE  Improvement!IndInv'
<1>1. PICK n \in job[w].todo :
        /\ Improvement!IsFirst(n, job[w].todo)
        /\ candidates' = Append(candidates, Improvement!CandidateOf(job[w].by, n))
        /\ job' = [job EXCEPT ![w] = [at |-> "lineage", by |-> @.by, todo |-> @.todo,
                                      candidate |-> Len(candidates) + 1]]
  BY DEF Improvement!InsertCandidate
<1>2. UNCHANGED <<evidence, opportunities, lineage, approvals>>
  BY DEF Improvement!InsertCandidate
<1>3. Improvement!IsGenerating(job[w])
  BY DEF Improvement!InsertCandidate, Improvement!IndInv, Improvement!JobsFollowRows,
     Improvement!JobFollows, Improvement!IsDetecting, Improvement!IsGenerating,
         Improvement!IsDeciding, Improvement!Idle
<1>4. n \in DOMAIN opportunities /\ n \in Nat /\ opportunities[n] \in Improvement!OpportunityRows
  BY <1>3 DEF Improvement!IsGenerating, Improvement!IndInv, Improvement!RowsAreWhole
<1>5. PICK r : r = Improvement!CandidateOf(job[w].by, n)
  OBVIOUS
<1>6. /\ r \in Improvement!CandidateRows
      /\ r.opportunity = n
      /\ r.status \notin Improvement!Settled
      /\ r.by = "route"
         /\ Improvement!SubsystemOf[opportunities[n].type] \in {"telephony", "security"} =>
            r.status = "sandbox_required"
  BY <1>4, <1>5, RouteCandidate, ScriptRow DEF Improvement!CandidateOf
<1>7. candidates \in Seq(Improvement!CandidateRows) /\ candidates' = Append(candidates, r)
  BY <1>1, <1>5 DEF Improvement!IndInv, Improvement!RowsAreWhole
<1>8. PICK k \in Nat : k = Len(candidates) + 1
  BY <1>7
<1>9. /\ candidates' \in Seq(Improvement!CandidateRows)
      /\ DOMAIN candidates' = DOMAIN candidates \cup {k}
      /\ k \notin DOMAIN candidates
      /\ \A c \in DOMAIN candidates : candidates'[c] = candidates[c]
      /\ candidates'[k] = r
  BY <1>6, <1>7, <1>8
<1>10. \A c : Improvement!DecisionsOn(c)' = Improvement!DecisionsOn(c)
  BY <1>2 DEF Improvement!DecisionsOn
<1>11. RowsStay
  BY <1>2, <1>9, <1>10 DEF RowsStay, Improvement!HasLineage
<1>12. Improvement!RowsAreWhole'
  <2>1. \A c \in DOMAIN candidates' : candidates'[c].opportunity \in DOMAIN opportunities'
    BY <1>2, <1>4, <1>6, <1>9 DEF Improvement!IndInv, Improvement!RowsAreWhole
  <2> QED
    BY <1>2, <1>9, <2>1 DEF Improvement!IndInv, Improvement!RowsAreWhole
<1>13. Improvement!JobsFollowRows'
  <2>1. PICK by, todo : by = job[w].by /\ todo = job[w].todo
    OBVIOUS
  <2> DEFINE j == [at |-> "lineage", by |-> by, todo |-> todo, candidate |-> k]
  <2>2. job' = [job EXCEPT ![w] = j]
    BY <1>1, <1>8, <2>1
  <2>3. Improvement!JobFollows(j)'
    BY <1>1, <1>2, <1>3, <1>6, <1>9, <2>1 DEF Improvement!JobFollows, Improvement!IsGenerating,
       Improvement!IsFirst
  <2> HIDE DEF j
  <2> QED
    BY <1>11, <2>2, <2>3, JobsStay DEF Improvement!IndInv
<1>14. Improvement!GeneratedHasLineage'
  BY <1>2, <1>9 DEF Improvement!IndInv, Improvement!GeneratedHasLineage, Improvement!HasLineage
<1>15. Improvement!DecidedByPerson'
  <2>1. Improvement!IsDecided(r.status, k)'
    BY <1>6 DEF Improvement!IsDecided
  <2> QED
    BY <1>2, <1>9, <1>11, <2>1, DecidedStays DEF Improvement!IndInv, Improvement!DecidedByPerson, RowsStay
<1>16. Improvement!SensitiveNeedsSandbox'
  BY <1>2, <1>6, <1>9, <1>10 DEF Improvement!IndInv, Improvement!SensitiveNeedsSandbox
<1> QED
  BY <1>12, <1>13, <1>14, <1>15, <1>16 DEF Improvement!IndInv

LEMMA InsertLineageKeeps ==
  ASSUME Improvement!IndInv, NEW w \in Workers, Improvement!InsertLineage(w)
  PROVE  Improvement!IndInv'
<1>1. /\ lineage' = Append(lineage, Improvement!NewLineage(job[w].candidate))
      /\ job' = [job EXCEPT ![w] = [at |-> "status", by |-> @.by, todo |-> @.todo,
                                    candidate |-> @.candidate]]
      /\ UNCHANGED <<evidence, opportunities, candidates, approvals>>
  BY DEF Improvement!InsertLineage
<1>2. Improvement!IsGenerating(job[w]) /\ job[w].at = "lineage"
  BY DEF Improvement!InsertLineage, Improvement!IndInv, Improvement!JobsFollowRows,
     Improvement!JobFollows, Improvement!IsDetecting, Improvement!IsGenerating,
         Improvement!IsDeciding, Improvement!Idle
<1>3. PICK by, todo, c : by = job[w].by /\ todo = job[w].todo /\ c = job[w].candidate
  OBVIOUS
<1>4. c \in DOMAIN candidates /\ c \in Nat
  BY <1>2, <1>3 DEF Improvement!IsGenerating, Improvement!IndInv, Improvement!RowsAreWhole
<1>5. PICK r \in Improvement!LineageRows : r = Improvement!NewLineage(c) /\ r.candidate = c
                                           /\ r.approval = "pending"
  <2>1. "pending" \in Improvement!ApprovalStatuses
    BY DEF Improvement!ApprovalStatuses
  <2>2. Improvement!NewLineage(c) \in Improvement!LineageRows
    BY <1>4, <2>1 DEF Improvement!NewLineage, Improvement!LineageRows
  <2> QED
    BY <2>2 DEF Improvement!NewLineage
<1>6. lineage \in Seq(Improvement!LineageRows) /\ lineage' = Append(lineage, r)
  BY <1>1, <1>3, <1>5 DEF Improvement!IndInv, Improvement!RowsAreWhole
<1>7. PICK k \in Nat : k = Len(lineage) + 1
  BY <1>6
<1>8. /\ lineage' \in Seq(Improvement!LineageRows)
      /\ DOMAIN lineage' = DOMAIN lineage \cup {k}
      /\ \A l \in DOMAIN lineage : lineage'[l] = lineage[l]
      /\ lineage'[k] = r
  BY <1>6, <1>7
<1>9. Improvement!HasLineage(c)' /\ \A d : Improvement!HasLineage(d) => Improvement!HasLineage(d)'
  BY <1>5, <1>8 DEF Improvement!HasLineage
<1>10. \A d : Improvement!DecisionsOn(d)' = Improvement!DecisionsOn(d)
  BY <1>1 DEF Improvement!DecisionsOn
<1>11. RowsStay
  BY <1>1, <1>9, <1>10 DEF RowsStay
<1>12. Improvement!RowsAreWhole'
  BY <1>1, <1>4, <1>5, <1>8 DEF Improvement!IndInv, Improvement!RowsAreWhole
<1>13. Improvement!JobsFollowRows'
  <2> DEFINE j == [at |-> "status", by |-> by, todo |-> todo, candidate |-> c]
  <2>1. job' = [job EXCEPT ![w] = j]
    BY <1>1, <1>3
  <2>2. Improvement!JobFollows(j)'
    BY <1>1, <1>2, <1>3, <1>9 DEF Improvement!JobFollows, Improvement!IsGenerating,
       Improvement!IsFirst
  <2> HIDE DEF j
  <2> QED
    BY <1>11, <2>1, <2>2, JobsStay DEF Improvement!IndInv
<1>14. Improvement!GeneratedHasLineage'
  BY <1>1, <1>9 DEF Improvement!IndInv, Improvement!GeneratedHasLineage
<1>15. Improvement!DecidedByPerson'
  BY <1>1, <1>5, <1>8, <1>11, DecidedStays DEF Improvement!IndInv, Improvement!DecidedByPerson, RowsStay
<1>16. Improvement!SensitiveNeedsSandbox'
  BY <1>1, <1>10 DEF Improvement!IndInv, Improvement!SensitiveNeedsSandbox
<1> QED
  BY <1>12, <1>13, <1>14, <1>15, <1>16 DEF Improvement!IndInv

LEMMA MarkGeneratedKeeps ==
  ASSUME Improvement!IndInv, NEW w \in Workers, Improvement!MarkGenerated(w)
  PROVE  Improvement!IndInv'
<1>1. PICK n \in job[w].todo :
        /\ Improvement!IsFirst(n, job[w].todo)
        /\ opportunities' = [opportunities EXCEPT ![n].status = "candidate_generated"]
        /\ job' = [job EXCEPT ![w] = [at |-> "candidate", by |-> @.by, todo |-> @.todo \ {n}]]
        /\ UNCHANGED <<evidence, candidates, lineage, approvals>>
  BY DEF Improvement!MarkGenerated, Improvement!Generated
<1>2. Improvement!IsGenerating(job[w]) /\ job[w].at = "status"
  BY DEF Improvement!MarkGenerated, Improvement!IndInv, Improvement!JobsFollowRows,
     Improvement!JobFollows, Improvement!IsDetecting, Improvement!IsGenerating,
         Improvement!IsDeciding, Improvement!Idle
<1>3. PICK by, todo, c : by = job[w].by /\ todo = job[w].todo \ {n} /\ c = job[w].candidate
  OBVIOUS
<1>4. /\ c \in DOMAIN candidates /\ Improvement!HasLineage(c)
      /\ by \in Improvement!Makers /\ todo \subseteq DOMAIN opportunities
         /\ n \in DOMAIN opportunities
      /\ Improvement!IsFirst(candidates[c].opportunity, job[w].todo)
  BY <1>1, <1>2, <1>3 DEF Improvement!IsGenerating
<1>5. opportunities \in Seq(Improvement!OpportunityRows) /\ DOMAIN opportunities \subseteq Nat
  BY DEF Improvement!IndInv, Improvement!RowsAreWhole
<1>6. candidates[c].opportunity = n
  BY <1>1, <1>2, <1>4, <1>5 DEF Improvement!IsFirst, Improvement!IsGenerating
<1>7. /\ opportunities' \in Seq(Improvement!OpportunityRows)
      /\ DOMAIN opportunities' = DOMAIN opportunities
      /\ \A m \in DOMAIN opportunities : opportunities'[m].type = opportunities[m].type
      /\ \A m \in DOMAIN opportunities \ {n} : opportunities'[m] = opportunities[m]
  <2>2. opportunities[n] \in Improvement!OpportunityRows
    BY <1>4, <1>5
  <2>1. [opportunities[n] EXCEPT !.status = "candidate_generated"] \in Improvement!OpportunityRows
    BY <2>2 DEF Improvement!OpportunityRows, Improvement!OpportunityStatuses
  <2>3. [opportunities[n] EXCEPT !.status = "candidate_generated"].type = opportunities[n].type
    BY <2>2 DEF Improvement!OpportunityRows
  <2> QED
    BY <1>1, <1>4, <1>5, <2>1, <2>3
<1>8. \A d : Improvement!DecisionsOn(d)' = Improvement!DecisionsOn(d)
  BY <1>1 DEF Improvement!DecisionsOn
<1>9. \A d : Improvement!HasLineage(d)' = Improvement!HasLineage(d)
  BY <1>1 DEF Improvement!HasLineage
<1>10. RowsStay
  BY <1>1, <1>7, <1>8, <1>9 DEF RowsStay
<1>11. Improvement!RowsAreWhole'
  BY <1>1, <1>7 DEF Improvement!IndInv, Improvement!RowsAreWhole
<1>12. Improvement!JobsFollowRows'
  <2> DEFINE j == [at |-> "candidate", by |-> by, todo |-> todo]
  <2>1. job' = [job EXCEPT ![w] = j]
    BY <1>1, <1>3
  <2>2. Improvement!JobFollows(j)'
    BY <1>4, <1>7 DEF Improvement!JobFollows, Improvement!IsGenerating
  <2> HIDE DEF j
  <2> QED
    BY <1>10, <2>1, <2>2, JobsStay DEF Improvement!IndInv
<1>13. Improvement!GeneratedHasLineage'
  BY <1>1, <1>4, <1>6, <1>7, <1>9 DEF Improvement!IndInv, Improvement!GeneratedHasLineage
<1>14. Improvement!DecidedByPerson'
  BY <1>1, <1>10, DecidedStays DEF Improvement!IndInv, Improvement!DecidedByPerson, RowsStay
<1>15. Improvement!SensitiveNeedsSandbox'
  BY <1>1, <1>7, <1>8 DEF Improvement!IndInv, Improvement!RowsAreWhole,
     Improvement!SensitiveNeedsSandbox
<1> QED
  BY <1>11, <1>12, <1>13, <1>14, <1>15 DEF Improvement!IndInv

LEMMA StartApprovalKeeps ==
  ASSUME Improvement!IndInv, NEW w \in Workers, Improvement!StartApproval(w)
  PROVE  Improvement!IndInv'
<1>1. PICK c \in DOMAIN candidates, d \in Improvement!Decisions :
        /\ approvals' = Append(approvals, [candidate |-> c, decision |-> d])
        /\ job' = [job EXCEPT ![w] = [at |-> "decided", candidate |-> c, decision |-> d]]
        /\ UNCHANGED <<evidence, opportunities, candidates, lineage>>
  BY DEF Improvement!StartApproval
<1>2. PICK r : r = [candidate |-> c, decision |-> d]
  OBVIOUS
<1>3. r \in Improvement!ApprovalRows /\ r.candidate = c /\ r.decision = d
  BY <1>2 DEF Improvement!ApprovalRows, Improvement!IndInv, Improvement!RowsAreWhole
<1>4. approvals \in Seq(Improvement!ApprovalRows) /\ approvals' = Append(approvals, r)
  BY <1>1, <1>2 DEF Improvement!IndInv, Improvement!RowsAreWhole
<1>5. PICK k \in Nat : k = Len(approvals) + 1
  BY <1>4
<1>6. /\ approvals' \in Seq(Improvement!ApprovalRows)
      /\ DOMAIN approvals' = DOMAIN approvals \cup {k}
      /\ \A a \in DOMAIN approvals : approvals'[a] = approvals[a]
      /\ approvals'[k] = r
  BY <1>3, <1>4, <1>5
<1>7. d \in Improvement!DecisionsOn(c)'
      /\ \A b : Improvement!DecisionsOn(b) \subseteq Improvement!DecisionsOn(b)'
  BY <1>3, <1>6 DEF Improvement!DecisionsOn
<1>8. RowsStay
  BY <1>1, <1>7 DEF RowsStay, Improvement!HasLineage
<1>9. Improvement!RowsAreWhole'
  BY <1>1, <1>3, <1>6 DEF Improvement!IndInv, Improvement!RowsAreWhole
<1>10. Improvement!JobsFollowRows'
  <2> DEFINE j == [at |-> "decided", candidate |-> c, decision |-> d]
  <2>1. Improvement!JobFollows(j)'
    BY <1>1, <1>7 DEF Improvement!JobFollows, Improvement!IsDeciding
  <2>2. job' = [job EXCEPT ![w] = j]
    BY <1>1
  <2> HIDE DEF j
  <2> QED
    BY <1>8, <2>1, <2>2, JobsStay DEF Improvement!IndInv
<1>11. Improvement!GeneratedHasLineage'
  BY <1>1 DEF Improvement!IndInv, Improvement!GeneratedHasLineage, Improvement!HasLineage
<1>12. Improvement!DecidedByPerson'
  BY <1>1, <1>8, DecidedStays DEF Improvement!IndInv, Improvement!DecidedByPerson, RowsStay
<1>13. Improvement!SensitiveNeedsSandbox'
  BY <1>1, <1>7 DEF Improvement!IndInv, Improvement!SensitiveNeedsSandbox
<1> QED
  BY <1>9, <1>10, <1>11, <1>12, <1>13 DEF Improvement!IndInv

LEMMA UpdateCandidateKeeps ==
  ASSUME Improvement!IndInv, NEW w \in Workers, Improvement!UpdateCandidate(w)
  PROVE  Improvement!IndInv'
<1>1. /\ candidates' = [candidates EXCEPT ![job[w].candidate].status = Improvement!StatusAfter(job[w].decision)]
      /\ job' = [job EXCEPT ![w] = [at |-> "archiving", candidate |-> @.candidate,
                                    decision |-> @.decision]]
      /\ UNCHANGED <<evidence, opportunities, lineage, approvals>>
  BY DEF Improvement!UpdateCandidate
<1>2. Improvement!IsDeciding(job[w])
  BY DEF Improvement!UpdateCandidate, Improvement!IndInv, Improvement!JobsFollowRows,
     Improvement!JobFollows, Improvement!IsDetecting, Improvement!IsGenerating,
         Improvement!IsDeciding, Improvement!Idle
<1>3. PICK c, d : c = job[w].candidate /\ d = job[w].decision
  OBVIOUS
<1>4. c \in DOMAIN candidates /\ d \in Improvement!DecisionsOn(c)
  BY <1>2, <1>3 DEF Improvement!IsDeciding
<1>5. candidates \in Seq(Improvement!CandidateRows) /\ candidates[c] \in Improvement!CandidateRows
  BY <1>4 DEF Improvement!IndInv, Improvement!RowsAreWhole
<1>6. PICK r : r = [candidates[c] EXCEPT !.status = Improvement!StatusAfter(d)]
  OBVIOUS
<1>7. /\ r \in Improvement!CandidateRows /\ r.opportunity = candidates[c].opportunity
      /\ r.status = Improvement!StatusAfter(d)
  <2>1. Improvement!StatusAfter(d) \in Improvement!CandidateStatuses
    BY DEF Improvement!StatusAfter, Improvement!CandidateStatuses
  <2> QED
    BY <1>5, <1>6, <2>1 DEF Improvement!CandidateRows
<1>8. candidates' = [candidates EXCEPT ![c] = r]
  BY <1>1, <1>3, <1>4, <1>5, <1>6
<1>9. /\ candidates' \in Seq(Improvement!CandidateRows)
      /\ DOMAIN candidates' = DOMAIN candidates
      /\ candidates'[c] = r
      /\ \A b \in DOMAIN candidates \ {c} : candidates'[b] = candidates[b]
  BY <1>4, <1>5, <1>7, <1>8
<1>10. \A b : Improvement!DecisionsOn(b)' = Improvement!DecisionsOn(b)
  BY <1>1 DEF Improvement!DecisionsOn
<1>11. RowsStay
  BY <1>1, <1>7, <1>9, <1>10 DEF RowsStay, Improvement!HasLineage
<1>12. Improvement!RowsAreWhole'
  BY <1>1, <1>4, <1>7, <1>9 DEF Improvement!IndInv, Improvement!RowsAreWhole
<1>13. Improvement!JobsFollowRows'
  <2> DEFINE j == [at |-> "archiving", candidate |-> c, decision |-> d]
  <2>1. Improvement!JobFollows(j)'
    BY <1>4, <1>9, <1>10 DEF Improvement!JobFollows, Improvement!IsDeciding
  <2>2. job' = [job EXCEPT ![w] = j]
    BY <1>1, <1>3
  <2> HIDE DEF j
  <2> QED
    BY <1>11, <2>1, <2>2, JobsStay DEF Improvement!IndInv
<1>14. Improvement!GeneratedHasLineage'
  BY <1>1, <1>4, <1>7, <1>9 DEF Improvement!IndInv, Improvement!GeneratedHasLineage,
     Improvement!HasLineage
<1>15. Improvement!DecidedByPerson'
  <2>1. Improvement!IsDecided(r.status, c)'
    BY <1>4, <1>7, <1>10 DEF Improvement!IsDecided
  <2> QED
    BY <1>1, <1>9, <1>10, <1>11, <2>1, DecidedStays DEF Improvement!IndInv,
       Improvement!DecidedByPerson
<1>16. Improvement!SensitiveNeedsSandbox'
  <2>1. Improvement!DecisionsOn(c)' # {}
    BY <1>4, <1>10
  <2>2. ASSUME NEW b \in DOMAIN candidates', Improvement!DecisionsOn(b)' = {},
               candidates'[b].by = "route",
               Improvement!SubsystemOf[opportunities'[candidates'[b].opportunity].type]
                   \in {"telephony", "security"}
        PROVE  candidates'[b].status = "sandbox_required"
    <3>1. b \in DOMAIN candidates /\ candidates'[b] = candidates[b]
          /\ Improvement!DecisionsOn(b) = {}
      BY <1>9, <1>10, <2>1, <2>2
    <3>2. Improvement!SubsystemOf[opportunities[candidates[b].opportunity].type] \in {"telephony",
          "security"}
      BY <1>1, <2>2, <3>1
    <3> QED
      BY <2>2, <3>1, <3>2 DEF Improvement!IndInv, Improvement!SensitiveNeedsSandbox
  <2> QED
    BY <2>2 DEF Improvement!SensitiveNeedsSandbox
<1> QED
  BY <1>12, <1>13, <1>14, <1>15, <1>16 DEF Improvement!IndInv

LEMMA UpdateLineageKeeps ==
  ASSUME Improvement!IndInv, NEW w \in Workers, Improvement!UpdateLineage(w)
  PROVE  Improvement!IndInv'
<1>1. /\ job' = [job EXCEPT ![w] = Improvement!Idle]
      /\ UNCHANGED <<evidence, opportunities, candidates, approvals>>
  BY DEF Improvement!UpdateLineage
<1>2. Improvement!IsDeciding(job[w])
  BY DEF Improvement!UpdateLineage, Improvement!IndInv, Improvement!JobsFollowRows,
     Improvement!JobFollows, Improvement!IsDetecting, Improvement!IsGenerating,
         Improvement!IsDeciding, Improvement!Idle
<1>3. PICK c, d : c = job[w].candidate /\ d = job[w].decision
  OBVIOUS
<1>4. lineage' = [n \in DOMAIN lineage |->
          IF lineage[n].candidate = c THEN [lineage[n] EXCEPT !.approval = d] ELSE lineage[n]]
  BY <1>3 DEF Improvement!UpdateLineage
<1>5. c \in DOMAIN candidates /\ d \in Improvement!DecisionsOn(c)
      /\ d \in Improvement!ApprovalStatuses
  <2>1. c \in DOMAIN candidates /\ d \in Improvement!DecisionsOn(c)
    BY <1>2, <1>3 DEF Improvement!IsDeciding
  <2>2. d \in Improvement!Decisions
    <3>1. PICK a \in DOMAIN approvals : d = approvals[a].decision
      BY <2>1 DEF Improvement!DecisionsOn
    <3>2. approvals[a] \in Improvement!ApprovalRows
      BY DEF Improvement!IndInv, Improvement!RowsAreWhole
    <3> QED
      BY <3>1, <3>2 DEF Improvement!ApprovalRows
  <2> QED
    BY <2>1, <2>2 DEF Improvement!ApprovalStatuses
<1>6. lineage \in Seq(Improvement!LineageRows)
  BY DEF Improvement!IndInv, Improvement!RowsAreWhole
<1>7. ASSUME NEW n \in DOMAIN lineage
      PROVE  /\ lineage'[n] \in Improvement!LineageRows
             /\ lineage'[n].candidate = lineage[n].candidate
             /\ \/ lineage'[n].approval = lineage[n].approval
                \/ lineage[n].candidate = c /\ lineage'[n].approval = d
  <2>1. lineage[n] \in Improvement!LineageRows
    BY <1>6
  <2> QED
    BY <1>4, <1>5, <2>1 DEF Improvement!LineageRows
<1>8. lineage' \in Seq(Improvement!LineageRows) /\ DOMAIN lineage' = DOMAIN lineage
  BY <1>4, <1>6, <1>7
<1>9. \A b : Improvement!DecisionsOn(b)' = Improvement!DecisionsOn(b)
  BY <1>1 DEF Improvement!DecisionsOn
<1>10. \A b : Improvement!HasLineage(b)' = Improvement!HasLineage(b)
  BY <1>7, <1>8 DEF Improvement!HasLineage
<1>11. RowsStay
  BY <1>1, <1>9, <1>10 DEF RowsStay
<1>12. Improvement!RowsAreWhole'
  BY <1>1, <1>7, <1>8 DEF Improvement!IndInv, Improvement!RowsAreWhole
<1>13. Improvement!JobsFollowRows'
  <2>1. PICK j : j = Improvement!Idle
    OBVIOUS
  <2> QED
    BY <1>1, <1>11, <2>1, IdleFollows, JobsStay DEF Improvement!IndInv
<1>14. Improvement!GeneratedHasLineage'
  BY <1>1, <1>10 DEF Improvement!IndInv, Improvement!GeneratedHasLineage
<1>15. Improvement!DecidedByPerson'
  <2>1. (\A b \in DOMAIN candidates : Improvement!IsDecided(candidates[b].status, b))'
    BY <1>1, <1>11, DecidedStays DEF Improvement!IndInv, Improvement!DecidedByPerson
  <2>2. (\A n \in DOMAIN lineage :
            lineage[n].approval \in Improvement!DecisionsOn(lineage[n].candidate) \cup {"pending"})'
    BY <1>5, <1>7, <1>8, <1>9 DEF Improvement!IndInv, Improvement!DecidedByPerson
  <2> QED
    BY <2>1, <2>2 DEF Improvement!DecidedByPerson
<1>16. Improvement!SensitiveNeedsSandbox'
  BY <1>1, <1>9 DEF Improvement!IndInv, Improvement!SensitiveNeedsSandbox
<1> QED
  BY <1>12, <1>13, <1>14, <1>15, <1>16 DEF Improvement!IndInv
-----------------------------------------------------------------------------
(***************************************************************************)
(* Improvement: the invariant and the theorem.                             *)
(***************************************************************************)

LEMMA IndInvStarts ==
  ASSUME Improvement!Init PROVE Improvement!IndInv
<1>1. Improvement!RowsAreWhole
  BY DEF Improvement!Init, Improvement!RowsAreWhole
<1>2. Improvement!JobsFollowRows
  BY DEF Improvement!Init, Improvement!JobsFollowRows, Improvement!JobFollows
<1>3. Improvement!GeneratedHasLineage /\ Improvement!DecidedByPerson
      /\ Improvement!SensitiveNeedsSandbox
  BY DEF Improvement!Init, Improvement!GeneratedHasLineage, Improvement!DecidedByPerson,
     Improvement!SensitiveNeedsSandbox
<1> QED
  BY <1>1, <1>2, <1>3 DEF Improvement!IndInv

LEMMA IndInvStays ==
  ASSUME Improvement!IndInv, [Improvement!Next]_Improvement!vars
  PROVE  Improvement!IndInv'
<1>1. CASE Improvement!TelemetryArrives
  BY <1>1, TelemetryArrivesKeeps
<1>2. CASE UNCHANGED Improvement!vars
  <2>1. UNCHANGED <<evidence, opportunities, candidates, lineage, approvals>> /\ job' = job
    BY <1>2 DEF Improvement!vars
  <2>2. Improvement!JobsFollowRows'
    BY <2>1 DEF Improvement!IndInv, Improvement!JobsFollowRows, Improvement!JobFollows,
       Improvement!IsDetecting, Improvement!IsGenerating, Improvement!IsDeciding,
         Improvement!HasLineage, Improvement!DecisionsOn
  <2>3. evidence' \in Evidences
    BY <2>1 DEF Improvement!IndInv, Improvement!RowsAreWhole
  <2> QED
    BY <2>1, <2>2, <2>3, TablesStay DEF Improvement!IndInv
<1>3. ASSUME NEW w \in Workers, NEW by \in Improvement!Makers, Improvement!StartDetection(w, by)
             \/ Improvement!StartGeneration(w, by)
      PROVE  Improvement!IndInv'
  BY <1>3, StartDetectionKeeps, StartGenerationKeeps
<1>4. ASSUME NEW w \in Workers,
             \/ Improvement!InsertOpportunity(w) \/ Improvement!InsertCandidate(w)
                \/ Improvement!InsertLineage(w) \/ Improvement!MarkGenerated(w)
             \/ Improvement!StartApproval(w) \/ Improvement!UpdateCandidate(w)
                \/ Improvement!UpdateLineage(w)
             \/ Improvement!Finish(w) \/ Improvement!FailSafely(w)
      PROVE  Improvement!IndInv'
  BY <1>4, InsertOpportunityKeeps, InsertCandidateKeeps, InsertLineageKeeps, MarkGeneratedKeeps,
     StartApprovalKeeps, UpdateCandidateKeeps, UpdateLineageKeeps, FinishKeeps
<1> QED
  BY <1>1, <1>2, <1>3, <1>4 DEF Improvement!Next

LEMMA IndInvMeans ==
  ASSUME Improvement!IndInv PROVE Improvement!ImprovementIsSound
<1>1. ASSUME NEW n \in DOMAIN opportunities
      PROVE  opportunities[n].severity \in Improvement!Severities
             /\ opportunities[n].status \in Improvement!OpportunityStatuses
  <2>1. opportunities[n] \in Improvement!OpportunityRows
    BY DEF Improvement!IndInv, Improvement!RowsAreWhole
  <2> QED
    BY <2>1 DEF Improvement!OpportunityRows
<1>2. ASSUME NEW c \in DOMAIN candidates
      PROVE  /\ candidates[c].status \in Improvement!CandidateStatuses
             /\ {candidates[c].risk, candidates[c].evidence,
                candidates[c].complexity} \subseteq 0..100
             /\ candidates[c].priority >= 0
  <2>1. candidates[c] \in Improvement!CandidateRows
    BY DEF Improvement!IndInv, Improvement!RowsAreWhole
  <2> QED
    BY <2>1 DEF Improvement!CandidateRows
<1>3. ASSUME NEW l \in DOMAIN lineage
      PROVE  lineage[l].approval \in Improvement!ApprovalStatuses
             /\ lineage[l].candidate \in DOMAIN candidates
  <2>1. lineage[l] \in Improvement!LineageRows
    BY DEF Improvement!IndInv, Improvement!RowsAreWhole
  <2> QED
    BY <2>1 DEF Improvement!LineageRows, Improvement!IndInv, Improvement!RowsAreWhole
<1>4. \A a \in DOMAIN approvals : approvals[a].candidate \in DOMAIN candidates
  BY DEF Improvement!IndInv, Improvement!RowsAreWhole
<1>5. Improvement!TypeOK
  BY <1>1, <1>2, <1>3, <1>4 DEF Improvement!TypeOK
<1>6. Improvement!GateDiffersAfterRejection
  <2>1. ASSUME NEW c \in DOMAIN candidates, candidates[c].status = "approved"
        PROVE  "approved" \in Improvement!DecisionsOn(c)
    BY <2>1 DEF Improvement!IndInv, Improvement!DecidedByPerson, Improvement!IsDecided,
       Improvement!Settled, Improvement!StatusAfter
  <2> QED
    BY <2>1 DEF Improvement!GateDiffersAfterRejection, Improvement!EvaluateApprovalGate
<1> QED
  BY <1>5, <1>6 DEF Improvement!IndInv, Improvement!ImprovementIsSound

\* Rows are whole and refer to rows, and what a job has still to do follows what
\* it wrote, however jobs overlap and wherever one fails (the detect, generate
\* and approval routes and their scripts).
THEOREM ImprovementInvariantHolds == Improvement!Spec => []Improvement!IndInv
<1>1. Improvement!Init => Improvement!IndInv
  BY IndInvStarts
<1>2. Improvement!IndInv /\ [Improvement!Next]_Improvement!vars => Improvement!IndInv'
  BY IndInvStays
<1> QED
  BY <1>1, <1>2, PTL DEF Improvement!Spec

\* For any workers, telemetry and batch size: a closed opportunity has a
\* candidate with its lineage, a settled candidate and a lineage entry say what
\* some recorded decision said (not the last one, and not the gate's word: an
\* approval after a rejection stays), a sensitive candidate waits for a sandbox, and scores stay within
\* what the tables accept (generateImprovementCandidate, createLineageEntry,
\* evaluateApprovalGate).
THEOREM ImprovementSound == Improvement!Spec => []ImprovementIsSound
<1>1. Improvement!IndInv => Improvement!ImprovementIsSound
  BY IndInvMeans
<1> QED
  BY <1>1, ImprovementInvariantHolds, PTL DEF ImprovementIsSound

-----------------------------------------------------------------------------
(***************************************************************************)
(* The receptionist's decisions                                            *)
(***************************************************************************)

\* The decision in force is the workflow's answer to a request under some
\* configuration and rate limit, to a call, or to a simulated text.
THEOREM DecisionsInvariantHolds == Decisions!Spec => []Decisions!IndInv
<1>1. Decisions!Init => Decisions!IndInv
  BY DEF Decisions!Init, Decisions!IndInv
<1>2. Decisions!IndInv /\ [Decisions!Next]_decision => Decisions!IndInv'
  <2> SUFFICES ASSUME Decisions!IndInv, [Decisions!Next]_decision PROVE Decisions!IndInv'
    OBVIOUS
  <2>1. CASE Decisions!RunRequest
    BY <2>1 DEF Decisions!RunRequest, Decisions!IndInv
  <2>2. CASE Decisions!TakeCall
    BY <2>2 DEF Decisions!TakeCall, Decisions!IndInv
  <2>3. CASE Decisions!Simulate
    BY <2>3 DEF Decisions!Simulate, Decisions!IndInv
  <2>4. CASE UNCHANGED decision
    BY <2>4 DEF Decisions!IndInv
  <2> QED
    BY <2>1, <2>2, <2>3, <2>4 DEF Decisions!Next
<1> QED
  BY <1>1, <1>2, PTL DEF Decisions!Spec

-----------------------------------------------------------------------------
Reasons(r, withinLimit) ==
  (IF withinLimit THEN {} ELSE {"rate_limit_exceeded"})
      \union Decisions!EvaluateReceptionistSafety(r)

\* What a run says, by the reasons to block it.
RunSays(run, r, reasons, config) ==
  /\ run.blockedReasonCodes = reasons
  /\ run.requiresHumanReview = Decisions!RequiresHumanReview(r)
  /\ run.providerStatus = IF reasons # {} THEN "blocked_by_policy"
                          ELSE Decisions!StatusForCommandSubmission(config,
                              Decisions!RequiresHumanReview(r))
  /\ Len(run.steps) = 12
  /\ \A i \in 1 .. 12 : run.steps[i].status =
         CASE i = 1 -> "queued"
           [] i \in 2 .. 9 -> IF reasons # {} THEN "blocked_by_policy" ELSE "queued"
           [] i = 10 -> IF run.providerStatus = "configured" THEN "queued"
                        ELSE run.providerStatus
           [] OTHER -> run.providerStatus

\* What runReceptionistWorkflow answers, in terms of the reasons to block.
LEMMA RunDecides ==
  ASSUME NEW r, NEW withinLimit, NEW config
  PROVE  RunSays(Decisions!RunReceptionistWorkflow(r, withinLimit, config), r,
             Reasons(r, withinLimit), config)
<1> DEFINE run == Decisions!RunReceptionistWorkflow(r, withinLimit, config)
           reasons == Reasons(r, withinLimit)
           status == IF reasons # {} THEN "blocked_by_policy"
                     ELSE Decisions!StatusForCommandSubmission(config,
                         Decisions!RequiresHumanReview(r))
           StepStatus(i) ==
               CASE i = 1 -> "queued"
                 [] i \in 2 .. 9 -> IF reasons # {} THEN "blocked_by_policy" ELSE "queued"
                 [] i = 10 -> IF status = "configured" THEN "queued" ELSE status
                 [] OTHER -> status
<1>1. Len(Decisions!Stages) = 12
  BY DEF Decisions!Stages
<1>2. /\ run.blockedReasonCodes = reasons
      /\ run.requiresHumanReview = Decisions!RequiresHumanReview(r)
      /\ run.providerStatus = status
      /\ run.steps = [i \in 1 .. Len(Decisions!Stages)
             |-> [stage |-> Decisions!Stages[i], status |-> StepStatus(i)]]
  BY DEF Decisions!RunReceptionistWorkflow, Reasons
<1> HIDE DEF run, reasons
<1>3. Len(run.steps) = 12
  BY <1>1, <1>2
<1>4. ASSUME NEW i \in 1 .. 12 PROVE run.steps[i].status = StepStatus(i)
  BY <1>1, <1>2
<1> QED
  BY <1>2, <1>3, <1>4 DEF run, reasons, RunSays

\* The status of a submission says whether mail is configured and a person must look.
LEMMA SubmissionStatus ==
  ASSUME NEW config \in [email : BOOLEAN, dispatch : BOOLEAN], NEW review \in BOOLEAN
  PROVE  LET status == Decisions!StatusForCommandSubmission(config, review)
         IN  /\ status \in {"provider_unconfigured", "requires_human_review", "queued",
                    "configured"}
             /\ config.email /\ review => status = "requires_human_review"
             /\ ~config.email => status = "provider_unconfigured"
BY DEF Decisions!StatusForCommandSubmission

\* The steps of a run, its provider status and its reasons agree.
LEMMA RunIsConsistent ==
  ASSUME NEW r \in Requests, NEW config \in Configs, NEW withinLimit \in BOOLEAN,
         decision = Decisions!RunOf(r, config, withinLimit)
  PROVE  Decisions!RunsAreConsistent
<1> DEFINE run == Decisions!RunReceptionistWorkflow(r, withinLimit, config)
           reasons == Reasons(r, withinLimit)
           Statuses == {run.steps[i].status : i \in 2 .. Len(run.steps)}
<1>0. /\ decision.result = run /\ decision.request = r /\ decision.config = config
  BY DEF Decisions!RunOf
<1>1. RunSays(run, r, reasons, config)
  BY RunDecides
<1>2. /\ config \in [email : BOOLEAN, dispatch : BOOLEAN]
      /\ Decisions!RequiresHumanReview(r) \in BOOLEAN
  BY DecisionConstants DEF Decisions!ConstantsAssumed, Decisions!RequiresHumanReview
<1>3. ~r.consent => reasons # {}
  <2>1. ~r.consent => "consent_required" \in Decisions!EvaluateReceptionistSafety(r)
    BY DEF Decisions!EvaluateReceptionistSafety
  <2> QED
    BY <2>1 DEF Reasons
<1> HIDE DEF run, reasons
<1> DEFINE status == Decisions!StatusForCommandSubmission(config, Decisions!RequiresHumanReview(r))
<1>4. /\ status \in {"provider_unconfigured", "requires_human_review", "queued", "configured"}
      /\ config.email /\ Decisions!RequiresHumanReview(r) => status = "requires_human_review"
      /\ ~config.email => status = "provider_unconfigured"
  BY <1>2, SubmissionStatus
<1> HIDE DEF status
<1>5. run.providerStatus = IF reasons # {} THEN "blocked_by_policy" ELSE status
  BY <1>1 DEF status, RunSays
<1>6. ASSUME reasons # {} PROVE Statuses = {"blocked_by_policy"}
  <2>1. \A i \in 2 .. 12 : run.steps[i].status = "blocked_by_policy"
    <3> TAKE i \in 2 .. 12
    <3>1. i \in 1 .. 12 /\ i # 1
      OBVIOUS
    <3> QED
      BY <1>1, <1>5, <1>6, <3>1 DEF RunSays
  <2> QED
    BY <1>1, <2>1 DEF RunSays
<1>7. ASSUME reasons = {} PROVE "blocked_by_policy" \notin Statuses
  <2>1. \A i \in 2 .. 12 : run.steps[i].status # "blocked_by_policy"
    <3> TAKE i \in 2 .. 12
    <3>1. i \in 1 .. 12 /\ i # 1
      OBVIOUS
    <3> QED
      BY <1>1, <1>4, <1>5, <1>7, <3>1 DEF RunSays
  <2> QED
    BY <1>1, <2>1 DEF RunSays
<1>8. Decisions!RunsAreConsistent <=>
        (decision.kind = "run" =>
            /\ (run.blockedReasonCodes # {}) => Statuses = {"blocked_by_policy"}
            /\ (run.blockedReasonCodes = {}) => "blocked_by_policy" \notin Statuses
            /\ ~r.consent => run.providerStatus = "blocked_by_policy"
            /\ config.email /\ run.requiresHumanReview
                   => run.providerStatus \in {"blocked_by_policy", "requires_human_review"}
            /\ ~config.email => run.providerStatus \notin {"queued", "configured"})
  BY <1>0 DEF Decisions!RunsAreConsistent
<1> QED
  BY <1>1, <1>3, <1>4, <1>5, <1>6, <1>7, <1>8 DEF RunSays

\* offices
LEMMA OfficesDoAgree ==
  ASSUME NEW r \in Requests, NEW config \in Configs, NEW withinLimit \in BOOLEAN,
         decision = Decisions!RunOf(r, config, withinLimit)
  PROVE  Decisions!OfficesAgree
<1>1. /\ decision.request = r
      /\ decision.result.requiresHumanReview = Decisions!RequiresHumanReview(r)
      /\ decision.office.interaction.urgency
             = Decisions!PriorityFromUrgency(Decisions!FrontOfficeUrgency(r.type))
  <2> DEFINE run == Decisions!RunReceptionistWorkflow(r, withinLimit, config)
             office == Decisions!CreateFrontOfficeWorkflowRun(r, "provider_unconfigured")
  <2>1. run.requiresHumanReview = Decisions!RequiresHumanReview(r)
    BY RunDecides DEF RunSays
  <2>2. office.interaction.urgency
            = Decisions!PriorityFromUrgency(Decisions!FrontOfficeUrgency(r.type))
    BY DEF Decisions!CreateFrontOfficeWorkflowRun, Decisions!CreateReceptionistInteraction
  <2> HIDE DEF run, office
  <2>3. decision.request = r /\ decision.result = run /\ decision.office = office
    BY DEF Decisions!RunOf, run, office
  <2> QED
    BY <2>1, <2>2, <2>3
<1>2. /\ r.urgent \in BOOLEAN /\ r.valuable \in BOOLEAN /\ r.company \in BOOLEAN
      /\ r.type \in Decisions!RequestTypes
  BY DecisionConstants DEF Decisions!ConstantsAssumed
<1>3. ASSUME Decisions!PriorityFromUrgency(Decisions!FrontOfficeUrgency(r.type)) = "high"
      PROVE  r.type \in {"partnership_request", "qualify_lead"}
  <2>1. CASE r.type \in {"request_callback", "schedule_meeting"}
    BY <1>3, <2>1 DEF Decisions!FrontOfficeUrgency, Decisions!PriorityFromUrgency
  <2>2. CASE r.type \in {"route_message", "general_inquiry", "support_request"}
    BY <1>3, <2>2 DEF Decisions!FrontOfficeUrgency, Decisions!PriorityFromUrgency
  <2> QED
    BY <1>2, <2>1, <2>2 DEF Decisions!RequestTypes
<1>4. ASSUME r.type = "qualify_lead", r.urgent \/ r.valuable
      PROVE  Decisions!RequiresHumanReview(r)
  <2>1. Decisions!LeadScore(r) \in Int /\ Decisions!LeadScore(r) >= 50
    BY <1>2, <1>4 DEF Decisions!LeadScore, Decisions!Least
  <2> QED
    BY <2>1 DEF Decisions!RequiresHumanReview, Decisions!Urgency
<1>5. r.type = "partnership_request" => Decisions!RequiresHumanReview(r)
  BY DEF Decisions!RequiresHumanReview
<1> QED
  BY <1>1, <1>3, <1>4, <1>5 DEF Decisions!OfficesAgree

-----------------------------------------------------------------------------
AllIntents == {Decisions!IntentOrder[i] : i \in DOMAIN Decisions!IntentOrder} \union {"unknown"}

\* The intents a call can be routed to.
LEMMA IntentsAreKnown == AllIntents =
  {"sales", "investor", "customer", "partner", "vendor", "media", "legal", "emergency",
   "personal", "spam", "unknown"}
<1>1. DOMAIN Decisions!IntentOrder = 1 .. 10
  BY DEF Decisions!IntentOrder
<1>2. /\ Decisions!IntentOrder[1] = "sales" /\ Decisions!IntentOrder[2] = "investor"
      /\ Decisions!IntentOrder[3] = "customer"
      /\ Decisions!IntentOrder[4] = "partner" /\ Decisions!IntentOrder[5] = "vendor"
      /\ Decisions!IntentOrder[6] = "media"
      /\ Decisions!IntentOrder[7] = "legal" /\ Decisions!IntentOrder[8] = "emergency"
      /\ Decisions!IntentOrder[9] = "personal"
      /\ Decisions!IntentOrder[10] = "spam"
  BY DEF Decisions!IntentOrder
<1>3. \A i \in 1 .. 10 : i = 1 \/ i = 2 \/ i = 3 \/ i = 4 \/ i = 5 \/ i = 6 \/ i = 7 \/ i = 8
                         \/ i = 9 \/ i = 10
  OBVIOUS
<1>4. 1 \in 1 .. 10 /\ 2 \in 1 .. 10 /\ 3 \in 1 .. 10 /\ 4 \in 1 .. 10 /\ 5 \in 1 .. 10
      /\ 6 \in 1 .. 10 /\ 7 \in 1 .. 10 /\ 8 \in 1 .. 10 /\ 9 \in 1 .. 10 /\ 10 \in 1 .. 10
  OBVIOUS
<1>5. {Decisions!IntentOrder[i] : i \in 1 .. 10} =
        {"sales", "investor", "customer", "partner", "vendor", "media", "legal", "emergency",
         "personal", "spam"}
  BY <1>2, <1>3, <1>4
<1> QED
  BY <1>1, <1>5 DEF AllIntents

\* The call's intent is one of the table or unknown.
LEMMA CallIntentIsKnown ==
  ASSUME NEW call
  PROVE  Decisions!CallIntent(call) \in AllIntents
         /\ Decisions!RoutePolyglotCallIntent(call.hits) \in AllIntents
<1> DEFINE hits == call.hits
           Best(i) ==
             /\ hits[Decisions!IntentOrder[i]] > 0
             /\ \A j \in DOMAIN Decisions!IntentOrder : hits[Decisions!IntentOrder[j]]
                    <= hits[Decisions!IntentOrder[i]]
             /\ \A j \in 1 .. i - 1 : hits[Decisions!IntentOrder[j]] < hits[Decisions!IntentOrder[i]]
<1>1. Decisions!RoutePolyglotCallIntent(hits) \in AllIntents
  <2>1. Decisions!RoutePolyglotCallIntent(hits) =
          IF \E i \in DOMAIN Decisions!IntentOrder : Best(i)
          THEN Decisions!IntentOrder[CHOOSE i \in DOMAIN Decisions!IntentOrder : Best(i)]
              ELSE "unknown"
    BY DEF Decisions!RoutePolyglotCallIntent
  <2> HIDE DEF Best, hits
  <2>2. CASE \E i \in DOMAIN Decisions!IntentOrder : Best(i)
    <3>1. (CHOOSE i \in DOMAIN Decisions!IntentOrder : Best(i)) \in DOMAIN Decisions!IntentOrder
      BY <2>2
    <3> QED
      BY <2>1, <2>2, <3>1 DEF AllIntents
  <2>3. CASE ~ \E i \in DOMAIN Decisions!IntentOrder : Best(i)
    BY <2>1, <2>3 DEF AllIntents
  <2> QED
    BY <2>2, <2>3
<1>2. Decisions!CallIntent(call) \in AllIntents
  BY <1>1, IntentsAreKnown DEF Decisions!CallIntent
<1> QED
  BY <1>1, <1>2

\* Scores stay within 0..100.
LEMMA CallScores ==
  ASSUME NEW call \in Calls
  PROVE  /\ Decisions!CallTrust(call) \in 0 .. 100
         /\ Decisions!EstimateUrgencyScore(call) \in 0 .. 100
         /\ Decisions!IntentPriority(Decisions!CallIntent(call)) \in 0 .. 100
<1>1. /\ call.company \in BOOLEAN /\ call.urgent \in BOOLEAN /\ call.unsafe \in BOOLEAN
      /\ call.spamPhrases \in Nat /\ call.phone \in BOOLEAN /\ call.burst \in BOOLEAN
  BY DecisionConstants DEF Decisions!ConstantsAssumed
<1>2. Decisions!SpamRisk(call) \in Int
  BY <1>1 DEF Decisions!SpamRisk, Decisions!Least
<1>3. Decisions!LanguageConfidence(call) \in Int
  BY DEF Decisions!LanguageConfidence
<1>4. ASSUME NEW verified, NEW repeats \in Nat, NEW company, NEW confidence \in Int,
             NEW intent, NEW risk \in Int
      PROVE  Decisions!CalculateVoiceTrustScore(verified, repeats, company, confidence, intent,
                 risk) \in 0 .. 100
  <2> DEFINE score == 35 + (IF verified THEN 20 ELSE 0) + Decisions!Least(20, 5 * repeats)
                      + (IF company THEN 15 ELSE 0) + (IF confidence >= 75 THEN 10 ELSE -10)
                      - (IF intent = "spam" THEN 45 ELSE 0)
                      - (IF intent \in {"legal", "emergency"} THEN 10 ELSE 0)
                      - (IF risk >= 70 THEN 30 ELSE 0)
  <2>1. Decisions!Least(20, 5 * repeats) \in Int
    BY DEF Decisions!Least
  <2>2. score \in Int
    BY <2>1
  <2>3. Decisions!CalculateVoiceTrustScore(verified, repeats, company, confidence, intent, risk) =
          IF score < 0 THEN 0 ELSE Decisions!Least(100, score)
    BY DEF Decisions!CalculateVoiceTrustScore
  <2> HIDE DEF score
  <2> QED
    BY <2>2, <2>3 DEF Decisions!Least
<1>5. Decisions!CallTrust(call) \in 0 .. 100
  <2>1. (IF call.company THEN 1 ELSE 0) \in Nat
    OBVIOUS
  <2> QED
    BY <1>2, <1>3, <1>4, <2>1 DEF Decisions!CallTrust
<1>6. Decisions!EstimateUrgencyScore(call) \in 0 .. 100
  BY <1>1 DEF Decisions!EstimateUrgencyScore, Decisions!Least
<1>7. \A intent \in AllIntents : Decisions!IntentPriority(intent) \in 0 .. 100
  BY IntentsAreKnown DEF Decisions!IntentPriority
<1> QED
  BY <1>5, <1>6, <1>7, CallIntentIsKnown

\* The weights are twentieths that add to at most the whole and a company's bonus.
LEMMA PriorityIsBounded ==
  ASSUME NEW call \in Calls
  PROVE  Decisions!CallbackPriority(call) \in 0 .. 100
<1> DEFINE p == Decisions!IntentPriority(Decisions!CallIntent(call))
           t == Decisions!CallTrust(call)
           u == Decisions!EstimateUrgencyScore(call)
           w == 9 * p + 7 * t + 4 * u + (IF call.company THEN 240 ELSE 0) + 10
<1>1. p \in 0 .. 100 /\ t \in 0 .. 100 /\ u \in 0 .. 100
  BY CallScores
<1>2. Decisions!CallbackPriority(call) = Decisions!Least(100, w \div 20)
  BY DEF Decisions!CallbackPriority
<1> HIDE DEF p, t, u
<1>3. w \in Nat
  BY <1>1
<1> HIDE DEF w
<1>4. w \div 20 \in Nat
  BY <1>3
<1> QED
  BY <1>2, <1>4 DEF Decisions!Least

\* A call that is spam, risky or sensitive is guarded as it should be.
LEMMA CallIsGuarded ==
  ASSUME NEW call \in Calls, decision = Decisions!CallOf(call)
  PROVE  Decisions!CallsAreGuarded
<1> DEFINE answer == Decisions!RunSimulatedInboundCallWorkflow(call)
           availability == Decisions!DecideExecutiveAvailability(call, Decisions!DefaultPolicy)
           action == IF Decisions!Blocked(call) THEN "block_spam" ELSE availability
           intent == Decisions!CallIntent(call)
           risky == Decisions!Tier(Decisions!CallTrust(call)) = "risky"
<1>1. /\ answer.actionTaken = action /\ answer.followUpRequired = (action # "block_spam")
      /\ answer.intent = intent /\ answer.trustScore = Decisions!CallTrust(call)
      /\ answer.priority = Decisions!CallbackPriority(call)
      /\ answer.humanApproval = Decisions!DecideReceptionistEscalation(call, availability)
      /\ Decisions!Blocked(call) => answer.providerStatus = "blocked_by_policy"
  BY DEF Decisions!RunSimulatedInboundCallWorkflow
<1>2. decision.call = call /\ decision.result = answer
  BY DEF Decisions!CallOf
<1>3. /\ Decisions!DefaultPolicy.transferEnabled = FALSE
      /\ Decisions!DefaultPolicy.requireHumanApprovalFor = Decisions!SensitiveIntents
  BY DEF Decisions!DefaultPolicy
<1>4. /\ (intent = "spam" \/ risky) <=> availability = "block_spam"
      /\ (intent \in Decisions!SensitiveIntents /\ availability # "block_spam")
             => availability = "request_human_approval"
      /\ availability # "transfer_call"
  <2> HIDE DEF intent, risky, answer
  <2>1. availability =
          IF intent = "spam" \/ risky THEN "block_spam"
          ELSE IF intent \in Decisions!SensitiveIntents THEN "request_human_approval"
          ELSE IF FALSE /\ Decisions!CallTrust(call) >= 85 THEN "transfer_call"
          ELSE IF call.meeting /\ Decisions!DefaultPolicy.scheduleEnabled THEN "book_meeting"
          ELSE IF call.callback /\ Decisions!DefaultPolicy.callbackEnabled THEN "request_callback"
          ELSE IF intent \in {"sales", "partner"} THEN "qualify_lead"
          ELSE "take_message"
    BY <1>3 DEF Decisions!DecideExecutiveAvailability, intent, risky
  <2> HIDE DEF availability
  <2> QED
    BY <2>1
<1>5. (intent \in Decisions!SensitiveIntents /\ availability # "block_spam")
        => Decisions!DecideReceptionistEscalation(call, availability).requiresHumanApproval
  BY DEF Decisions!DecideReceptionistEscalation
<1>6. Decisions!CallbackPriority(call) \in 0 .. 100
  BY PriorityIsBounded
<1> HIDE DEF answer, availability, intent, risky
<1>7. Decisions!CallsAreGuarded <=>
        (decision.kind = "call" =>
            /\ answer.followUpRequired
                   => ~Decisions!Blocked(call) /\ Decisions!Tier(answer.trustScore) # "risky"
            /\ answer.intent \in Decisions!SensitiveIntents /\ answer.followUpRequired
                   => /\ answer.actionTaken = "request_human_approval"
                      /\ answer.humanApproval.requiresHumanApproval
            /\ answer.actionTaken # "transfer_call"
            /\ answer.priority \in 0 .. 100
            /\ Decisions!Blocked(call) => answer.providerStatus = "blocked_by_policy")
  BY <1>2 DEF Decisions!CallsAreGuarded
<1>8. answer.followUpRequired
          => ~Decisions!Blocked(call) /\ Decisions!Tier(answer.trustScore) # "risky"
  BY <1>1, <1>4 DEF risky
<1> QED
  BY <1>1, <1>4, <1>5, <1>6, <1>7, <1>8

-----------------------------------------------------------------------------
\* The intent of a text: the first rule of the table that it meets.
LEMMA FirstRuleIsMet ==
  ASSUME NEW text
  PROVE  LET intent == Decisions!ClassifyReceptionistIntent(text)
         IN  /\ intent \in {Decisions!IntentRules[i] : i \in 1 .. 10} \union {"unknown"}
             /\ "urgent_executive_attention" \in text.topics
                    => intent = "urgent_executive_attention"
<1> DEFINE Met(i) == Decisions!IntentRules[i] \in text.topics
           First(i) == Met(i) /\ \A j \in 1 .. i - 1 : ~Met(j)
<1>1. DOMAIN Decisions!IntentRules = 1 .. 10
      /\ Decisions!IntentRules[1] = "urgent_executive_attention"
  BY DEF Decisions!IntentRules
<1>2. Decisions!ClassifyReceptionistIntent(text) =
        IF \E i \in 1 .. 10 : Met(i) THEN Decisions!IntentRules[CHOOSE i \in 1 .. 10 : First(i)]
            ELSE "unknown"
  BY <1>1 DEF Decisions!ClassifyReceptionistIntent
<1>3. ASSUME \E i \in 1 .. 10 : Met(i) PROVE \E i \in 1 .. 10 : First(i)
  <2> HIDE DEF Met
  <2>1. CASE Met(1)
    BY <2>1
  <2>2. CASE ~Met(1) /\ Met(2)
    <3>1. First(2)
      BY <2>2
    <3> QED
      BY <3>1
  <2>3. CASE ~Met(1) /\ ~Met(2) /\ Met(3)
    <3>1. First(3)
      BY <2>3
    <3> QED
      BY <3>1
  <2>4. CASE ~Met(1) /\ ~Met(2) /\ ~Met(3) /\ Met(4)
    <3>1. First(4)
      BY <2>4
    <3> QED
      BY <3>1
  <2>5. CASE (\A j \in 1 .. 4 : ~Met(j)) /\ Met(5)
    <3>1. First(5)
      BY <2>5
    <3> QED
      BY <3>1
  <2>6. CASE (\A j \in 1 .. 5 : ~Met(j)) /\ Met(6)
    <3>1. First(6)
      BY <2>6
    <3> QED
      BY <3>1
  <2>7. CASE (\A j \in 1 .. 6 : ~Met(j)) /\ Met(7)
    <3>1. First(7)
      BY <2>7
    <3> QED
      BY <3>1
  <2>8. CASE (\A j \in 1 .. 7 : ~Met(j)) /\ Met(8)
    <3>1. First(8)
      BY <2>8
    <3> QED
      BY <3>1
  <2>9. CASE (\A j \in 1 .. 8 : ~Met(j)) /\ Met(9)
    <3>1. First(9)
      BY <2>9
    <3> QED
      BY <3>1
  <2>10. CASE (\A j \in 1 .. 9 : ~Met(j)) /\ Met(10)
    <3>1. First(10)
      BY <2>10
    <3> QED
      BY <3>1
  <2> QED
    BY <1>3, <2>1, <2>2, <2>3, <2>4, <2>5, <2>6, <2>7, <2>8, <2>9, <2>10
<1> DEFINE first == CHOOSE i \in 1 .. 10 : First(i)
<1>4. ASSUME \E i \in 1 .. 10 : Met(i) PROVE first \in 1 .. 10 /\ First(first)
  BY <1>3, <1>4
<1>5. ASSUME Met(1) PROVE first = 1
  <2>1. first \in 1 .. 10 /\ First(first)
    BY <1>4, <1>5
  <2> HIDE DEF first
  <2>2. ~(first > 1)
    BY <1>5, <2>1
  <2> QED
    BY <2>1, <2>2
<1> HIDE DEF first, Met
<1>6. Decisions!ClassifyReceptionistIntent(text) =
        IF \E i \in 1 .. 10 : Met(i) THEN Decisions!IntentRules[first] ELSE "unknown"
  BY <1>2 DEF first
<1>7. "urgent_executive_attention" \in text.topics => Met(1)
  BY <1>1 DEF Met
<1> QED
  BY <1>1, <1>4, <1>5, <1>6, <1>7

\* The intents the rules of the simulation name.
LEMMA RulesAreKnown == {Decisions!IntentRules[i] : i \in 1 .. 10} \subseteq
  {"urgent_executive_attention", "investor_interest", "partnership_interest", "schedule_meeting",
   "request_callback", "vendor_inquiry", "support_request", "wrong_number", "spam_or_low_value",
   "general_inquiry"}
<1>1. \A i \in 1 .. 10 : i = 1 \/ i = 2 \/ i = 3 \/ i = 4 \/ i = 5 \/ i = 6 \/ i = 7 \/ i = 8
                         \/ i = 9 \/ i = 10
  OBVIOUS
<1> QED
  BY <1>1 DEF Decisions!IntentRules

\* A list joined to another: what stands in it, how long it is and where its elements are.
LEMMA Joined ==
  ASSUME NEW S, NEW a \in Seq(S), NEW b \in Seq(S)
  PROVE  /\ a \o b \in Seq(S)
         /\ Len(a \o b) = Len(a) + Len(b)
         /\ \A i \in 1 .. Len(a) : (a \o b)[i] = a[i]
OBVIOUS

\* Where the elements of the second list are.
LEMMA JoinedEnd ==
  ASSUME NEW S, NEW a \in Seq(S), NEW b \in Seq(S)
  PROVE  \A i \in 1 .. Len(b) : (a \o b)[Len(a) + i] = b[i]
OBVIOUS

\* The escalation is in the events exactly when it is recommended.
LEMMA EventsTellEscalation ==
  ASSUME NEW escalated \in BOOLEAN
  PROVE  escalated <=> \E i \in DOMAIN Decisions!CreateWorkflowEvents(escalated) :
                          Decisions!CreateWorkflowEvents(escalated)[i] = "escalation_recommended"
<1> DEFINE begin == <<"interaction_created", "language_detected", "intent_classified",
               "task_created">>
           end == <<"summary_generated", "workflow_completed">>
           others == {"interaction_created", "language_detected", "intent_classified",
                      "task_created", "summary_generated", "workflow_completed"}
           all == others \union {"escalation_recommended"}
<1>1. CASE escalated
  <2> DEFINE mid == <<"escalation_recommended">>
             half == begin \o mid
             whole == half \o end
  <2>1. Decisions!CreateWorkflowEvents(escalated) = whole
    BY <1>1 DEF Decisions!CreateWorkflowEvents
  <2>2. /\ begin \in Seq(all) /\ Len(begin) = 4
        /\ mid \in Seq(all) /\ Len(mid) = 1 /\ mid[1] = "escalation_recommended"
        /\ end \in Seq(all) /\ Len(end) = 2
    OBVIOUS
  <2> HIDE DEF begin, mid, end, all
  <2>3. /\ half \in Seq(all)
        /\ Len(half) = Len(begin) + Len(mid)
        /\ \A i \in 1 .. Len(mid) : half[Len(begin) + i] = mid[i]
    <3>1. begin \in Seq(all) /\ mid \in Seq(all)
      BY <2>2
    <3>2. half \in Seq(all) /\ Len(half) = Len(begin) + Len(mid)
      BY <3>1, Joined, Zenon
    <3>3. \A i \in 1 .. Len(mid) : half[Len(begin) + i] = mid[i]
      BY <3>1, JoinedEnd, Zenon
    <3> QED
      BY <3>2, <3>3, Zenon
  <2>4. Len(half) = 5 /\ half[5] = "escalation_recommended"
    <3>1. 1 \in 1 .. Len(mid) /\ Len(begin) + 1 = 5
      BY <2>2
    <3> HIDE DEF half
    <3> QED
      BY <2>2, <2>3, <3>1
  <2> HIDE DEF half
  <2>5. /\ whole \in Seq(all) /\ Len(whole) = Len(half) + Len(end)
        /\ \A i \in 1 .. Len(half) : whole[i] = half[i]
    <3>1. half \in Seq(all) /\ end \in Seq(all)
      BY <2>2, <2>3
    <3> QED
      BY <3>1, Joined, Zenon
  <2> HIDE DEF whole
  <2>6. 5 \in DOMAIN whole /\ whole[5] = "escalation_recommended"
    BY <2>2, <2>4, <2>5
  <2> QED
    BY <1>1, <2>1, <2>6
<1>2. CASE ~escalated
  <2> DEFINE half == begin \o <<>>
             whole == half \o end
  <2>1. Decisions!CreateWorkflowEvents(escalated) = whole
    BY <1>2 DEF Decisions!CreateWorkflowEvents
  <2>2. begin \in Seq(others) /\ <<>> \in Seq(others) /\ end \in Seq(others)
    OBVIOUS
  <2> HIDE DEF begin, end
  <2>3. whole \in Seq(others)
    BY <2>2
  <2> HIDE DEF whole
  <2>4. \A i \in DOMAIN whole : whole[i] # "escalation_recommended"
    BY <2>3
  <2> QED
    BY <1>2, <2>1, <2>4
<1> QED
  BY <1>1, <1>2

\* A simulation escalates what its priority and intent ask for and says so.
LEMMA SimulationEscalates ==
  ASSUME NEW text \in Texts, decision = Decisions!SimulationOf(text)
  PROVE  Decisions!SimulationsEscalate
<1> DEFINE answer == Decisions!SimulateReceptionistInteraction(text)
           intent == Decisions!ClassifyReceptionistIntent(text)
           sentiment == Decisions!ClassifyReceptionistSentiment(text)
           priority == Decisions!GetPriorityForIntent(intent, sentiment)
           escalated == Decisions!EvaluateEscalation(intent, priority, sentiment,
               Decisions!TaskTypeByIntent(intent))
<1>1. /\ answer.intent = intent /\ answer.priority = priority /\ answer.shouldEscalate = escalated
      /\ answer.workflowEvents = Decisions!CreateWorkflowEvents(escalated)
  BY DEF Decisions!SimulateReceptionistInteraction
<1>2. decision.result = answer /\ decision.text = text
  BY DEF Decisions!SimulationOf
<1>3. /\ intent \in {"urgent_executive_attention", "investor_interest", "partnership_interest",
                      "schedule_meeting", "request_callback", "vendor_inquiry", "support_request",
                      "wrong_number", "spam_or_low_value", "general_inquiry", "unknown"}
      /\ "urgent_executive_attention" \in text.topics => intent = "urgent_executive_attention"
  BY FirstRuleIsMet, RulesAreKnown
<1>4. escalated \in BOOLEAN
  BY DEF Decisions!EvaluateEscalation
<1> HIDE DEF intent, sentiment
<1>5. priority = "urgent" => intent = "urgent_executive_attention"
  BY <1>3 DEF Decisions!GetPriorityForIntent
<1>6. intent \in {"urgent_executive_attention", "unknown"} => escalated
  BY DEF Decisions!EvaluateEscalation
<1>7. intent \in {"spam_or_low_value", "wrong_number", "general_inquiry", "vendor_inquiry"}
          => ~escalated
  <2> SUFFICES ASSUME intent \in {"spam_or_low_value", "wrong_number", "general_inquiry",
                                  "vendor_inquiry"}
               PROVE  ~escalated
    OBVIOUS
  <2>1. priority = "low"
    BY DEF Decisions!GetPriorityForIntent
  <2>2. Decisions!TaskTypeByIntent(intent) \in {"create_follow_up", "review_transcript"}
    BY DEF Decisions!TaskTypeByIntent
  <2> HIDE DEF priority
  <2> QED
    BY <2>1, <2>2 DEF Decisions!EvaluateEscalation
<1> HIDE DEF priority, escalated, answer
<1>8. escalated <=> \E i \in DOMAIN answer.workflowEvents :
                       answer.workflowEvents[i] = "escalation_recommended"
  BY <1>1, <1>4, EventsTellEscalation
<1> QED
  BY <1>1, <1>2, <1>3, <1>5, <1>6, <1>7, <1>8 DEF Decisions!SimulationsEscalate

\* Whatever the decision answers, it is sound.
LEMMA DecisionsInvariantSuffices == Decisions!IndInv => Decisions!DecisionsAreSound
<1> SUFFICES ASSUME Decisions!IndInv PROVE Decisions!DecisionsAreSound
  OBVIOUS
<1>1. CASE decision = [kind |-> "none"]
  BY <1>1 DEF Decisions!DecisionsAreSound, Decisions!RunsAreConsistent, Decisions!OfficesAgree,
     Decisions!CallsAreGuarded, Decisions!SimulationsEscalate
<1>2. CASE \E r \in Requests, config \in Configs, withinLimit \in BOOLEAN :
              decision = Decisions!RunOf(r, config, withinLimit)
  <2>1. Decisions!RunsAreConsistent /\ Decisions!OfficesAgree
    BY <1>2, RunIsConsistent, OfficesDoAgree
  <2>2. decision.kind = "run"
    BY <1>2 DEF Decisions!RunOf
  <2> QED
    BY <2>1, <2>2 DEF Decisions!DecisionsAreSound, Decisions!CallsAreGuarded,
       Decisions!SimulationsEscalate
<1>3. CASE \E call \in Calls : decision = Decisions!CallOf(call)
  <2>1. Decisions!CallsAreGuarded
    BY <1>3, CallIsGuarded
  <2>2. decision.kind = "call"
    BY <1>3 DEF Decisions!CallOf
  <2> QED
    BY <2>1, <2>2 DEF Decisions!DecisionsAreSound, Decisions!RunsAreConsistent,
       Decisions!OfficesAgree, Decisions!SimulationsEscalate
<1>4. CASE \E text \in Texts : decision = Decisions!SimulationOf(text)
  <2>1. Decisions!SimulationsEscalate
    BY <1>4, SimulationEscalates
  <2>2. decision.kind = "simulated"
    BY <1>4 DEF Decisions!SimulationOf
  <2> QED
    BY <2>1, <2>2 DEF Decisions!DecisionsAreSound, Decisions!RunsAreConsistent,
       Decisions!OfficesAgree, Decisions!CallsAreGuarded
<1> QED
  BY <1>1, <1>2, <1>3, <1>4 DEF Decisions!IndInv

-----------------------------------------------------------------------------
(***************************************************************************)
(* The claims a policy is enforced on                                      *)
(***************************************************************************)

\* The instance counts as FiniteSets does.
LEMMA PolicyCounts ==
  /\ \A z : Policies!Cardinality(z) = Cardinality(z)
  /\ \A z : Policies!IsFiniteSet(z) = IsFiniteSet(z)
BY DEF Policies!Cardinality, Cardinality, Policies!IsFiniteSet, IsFiniteSet

\* No claim is presented at first.
LEMMA PolicyStarts == Policies!Init => Policies!IndInv
<1>1. 0 \in Nat
  OBVIOUS
<1> QED
  BY <1>1 DEF Policies!Init, Policies!IndInv

\* Presenting a claim, changing its evidence, revoking it and time keep the invariant.
LEMMA PolicyStays == Policies!IndInv /\ [Policies!Next]_Policies!vars => Policies!IndInv'
<1> SUFFICES ASSUME Policies!IndInv, [Policies!Next]_Policies!vars PROVE Policies!IndInv'
  OBVIOUS
<1>1. ASSUME NEW c \in [classification : Policies!Classifications,
                        evidence : SUBSET DOMAIN ClaimEvidence,
                        expiresAt : Expiries \union {None}, revokedAt : {None}], Policies!Present(c)
      PROVE  Policies!IndInv'
  <2>1. c \in Policies!Claims
    BY DEF Policies!Claims
  <2> QED
    BY <1>1, <2>1 DEF Policies!Present, Policies!IndInv, Policies!Claims
<1>2. ASSUME NEW e \in DOMAIN ClaimEvidence, Policies!SetEvidence(e)
      PROVE  Policies!IndInv'
  BY <1>2 DEF Policies!SetEvidence, Policies!IndInv, Policies!Claims
<1>3. ASSUME NEW t \in policyNow .. MaxTime, Policies!Revoke(t)
      PROVE  Policies!IndInv'
  <2>1. t \in Nat
    BY PolicyConstants DEF Policies!IndInv, Policies!ConstantsAssumed
  <2>2. claim \in Policies!Claims
    BY <1>3 DEF Policies!Revoke, Policies!IndInv
  <2>3. [claim EXCEPT !.revokedAt = t] \in Policies!Claims
    BY <2>1, <2>2 DEF Policies!Claims
  <2> QED
    BY <1>3, <2>3 DEF Policies!Revoke, Policies!IndInv, Policies!Claims
<1>4. ASSUME Policies!Tick PROVE Policies!IndInv'
  BY <1>4 DEF Policies!Tick, Policies!IndInv, Policies!Claims
<1>5. ASSUME UNCHANGED Policies!vars PROVE Policies!IndInv'
  BY <1>5 DEF Policies!vars, Policies!IndInv, Policies!Claims
<1> QED
  BY <1>1, <1>2, <1>3, <1>4, <1>5 DEF Policies!Next

\* However evidence comes and goes, whenever the claim is revoked, it is none or one
\* a caller can present, and the evidence available is evidence there is.
THEOREM PolicyInvariantHolds == Policies!Spec => []Policies!IndInv
BY PolicyStarts, PolicyStays, PTL DEF Policies!Spec

-----------------------------------------------------------------------------
(* The score of an assessment. *)

\* A clamped score is a percentage.
LEMMA ScoreBounds ==
  \A x \in Int : /\ Policies!ClampScore(x) \in 0 .. 100
                 /\ Policies!Min({15, x}) \in Int
<1> SUFFICES ASSUME NEW x \in Int
             PROVE  Policies!ClampScore(x) \in 0 .. 100 /\ Policies!Min({15, x}) \in Int
  OBVIOUS
<1> DEFINE IsMin(S, a) == a \in S /\ \A b \in S : a <= b
           IsMax(S, a) == a \in S /\ \A b \in S : a >= b
<1>1. ASSUME NEW a \in Int PROVE IsMin({a, x}, Policies!Min({a, x}))
  <2>1. \E b \in {a, x} : \A c \in {a, x} : b <= c
    OBVIOUS
  <2> QED
    BY <2>1 DEF Policies!Min
<1>2. ASSUME NEW a \in Int PROVE IsMax({0, a}, Policies!Max({0, a}))
  <2>1. \E b \in {0, a} : \A c \in {0, a} : b >= c
    OBVIOUS
  <2> QED
    BY <2>1 DEF Policies!Max
<1>3. IsMin({100, x}, Policies!Min({100, x}))
  BY <1>1
<1>4. Policies!Min({100, x}) \in Int /\ Policies!Min({100, x}) <= 100
  BY <1>3
<1>5. IsMax({0, Policies!Min({100, x})}, Policies!Max({0, Policies!Min({100, x})}))
  BY <1>2, <1>4
<1>6. Policies!ClampScore(x) \in 0 .. 100
  BY <1>4, <1>5 DEF Policies!ClampScore
<1>7. Policies!Min({15, x}) \in Int
  BY <1>1
<1> QED
  BY <1>6, <1>7

\* The rounded average of percentages is a number.
LEMMA Quotients ==
  ASSUME NEW a \in Int, NEW n \in Nat, n # 0
  PROVE  a \div (2 * n) \in Int
OBVIOUS

\* The average confidence and the counts of the assessment are numbers.
LEMMA AverageIsNumber ==
  ASSUME Policies!IndInv, claim # None
  PROVE  Policies!ConfidenceAverage \in Int
         /\ Policies!Cardinality(Policies!UniqueEvidenceTypes) \in Nat
         /\ Policies!Cardinality(Policies!MissingEvidence) \in Nat
<1>1. claim \in Policies!Claims /\ Policies!IsFiniteSet(DOMAIN ClaimEvidence)
  BY PolicyConstants DEF Policies!IndInv, Policies!ConstantsAssumed
<1>2. claim.evidence \subseteq DOMAIN ClaimEvidence
  BY <1>1 DEF Policies!Claims
<1>3. Policies!Supporting \subseteq DOMAIN ClaimEvidence
      /\ Policies!MissingEvidence \subseteq DOMAIN ClaimEvidence
  BY <1>2 DEF Policies!Supporting, Policies!MissingEvidence
<1>4. Policies!IsFiniteSet(Policies!Supporting) /\ Policies!IsFiniteSet(Policies!MissingEvidence)
  BY <1>1, <1>3, PolicyCounts, FS_Subset
<1>5. Policies!IsFiniteSet(1 .. 100)
  <2>1. 1 \in Int /\ 100 \in Int
    OBVIOUS
  <2> QED
    BY <2>1, PolicyCounts, FS_Interval, Zenon
<1>6. Policies!IsFiniteSet(Policies!Supporting \X (1 .. 100))
  BY <1>4, <1>5, PolicyCounts, FS_Product
<1> DEFINE percents == {p \in Policies!Supporting \X (1 .. 100) :
                          p[2] <= ClaimEvidence[p[1]].confidence}
<1>7. Policies!IsFiniteSet(percents)
  BY <1>6, PolicyCounts, FS_Subset
<1>8. Policies!IsFiniteSet(Policies!UniqueEvidenceTypes)
  <2> DEFINE type == [e \in Policies!Supporting |-> ClaimEvidence[e].type]
  <2>1. type \in Surjection(Policies!Supporting, Policies!UniqueEvidenceTypes)
    BY DEF Surjection, Policies!UniqueEvidenceTypes
  <2> QED
    BY <1>4, <2>1, PolicyCounts, FS_Surjection
<1>9. Policies!Cardinality(percents) \in Nat /\ Policies!Cardinality(Policies!Supporting) \in Nat
      /\ Policies!Cardinality(Policies!UniqueEvidenceTypes) \in Nat
      /\ Policies!Cardinality(Policies!MissingEvidence) \in Nat
  BY <1>4, <1>7, <1>8, PolicyCounts, FS_CardinalityType
<1> HIDE DEF percents
<1>10. Policies!ConfidenceAverage = IF Policies!Cardinality(Policies!Supporting) = 0 THEN 0
                                    ELSE (2 * Policies!Cardinality(percents) + Policies!Cardinality(Policies!Supporting))
                                         \div (2 * Policies!Cardinality(Policies!Supporting))
  BY DEF Policies!ConfidenceAverage, percents
<1>11. Policies!ConfidenceAverage \in Int
  <2>1. CASE Policies!Cardinality(Policies!Supporting) = 0
    BY <1>10, <2>1
  <2>2. CASE Policies!Cardinality(Policies!Supporting) # 0
    <3>1. 2 * Policies!Cardinality(percents) + Policies!Cardinality(Policies!Supporting) \in Int
      BY <1>9
    <3> QED
      BY <1>9, <1>10, <2>2, <3>1, Quotients
  <2> QED
    BY <2>1, <2>2
<1> QED
  BY <1>9, <1>11

\* A score is a percentage, and that of a revoked claim 0.
LEMMA ScoreIsPercentage ==
  ASSUME Policies!IndInv, claim # None
  PROVE  /\ Policies!AssessDataTrust.score \in 0 .. 100
         /\ Policies!AssessDataTrust.decision
                = Policies!DecisionForScore(Policies!AssessDataTrust.score,
                    Policies!AssessmentReasons)
         /\ Policies!AssessDataTrust.tier = Policies!TierForScore(Policies!AssessDataTrust.score)
         /\ "CLAIM_REVOKED" \in Policies!AssessmentReasons => Policies!AssessDataTrust.score = 0
<1> DEFINE x == Policies!ConfidenceAverage
               + Policies!Min({15, 5 * Policies!Cardinality(Policies!UniqueEvidenceTypes)})
                - 10 * Policies!Cardinality(Policies!MissingEvidence)
                - Policies!ClassificationPenalties[claim.classification]
           score == IF "CLAIM_REVOKED" \in Policies!AssessmentReasons THEN 0
               ELSE Policies!ClampScore(x)
<1>1. claim \in Policies!Claims
  BY DEF Policies!IndInv
<1>2. claim.classification \in {"public", "internal", "confidential", "restricted"}
  BY <1>1 DEF Policies!Claims, Policies!Classifications, Policies!ClassificationPenalties
<1>3. Policies!ClassificationPenalties[claim.classification] \in Int
  BY <1>2 DEF Policies!ClassificationPenalties
<1>4. 5 * Policies!Cardinality(Policies!UniqueEvidenceTypes) \in Int
  BY AverageIsNumber
<1>5. Policies!Min({15, 5 * Policies!Cardinality(Policies!UniqueEvidenceTypes)}) \in Int
  BY <1>4, ScoreBounds
<1>6. x \in Int
  BY <1>3, <1>5, AverageIsNumber
<1> HIDE DEF x
<1>7. score \in 0 .. 100
  <2>1. Policies!ClampScore(x) \in 0 .. 100
    BY <1>6, ScoreBounds
  <2> QED
    BY <2>1
<1>8. Policies!AssessDataTrust
          = [decision |-> Policies!DecisionForScore(score, Policies!AssessmentReasons),
              score |-> score,
                                  tier |-> Policies!TierForScore(score)]
  BY DEF Policies!AssessDataTrust, x
<1> HIDE DEF score
<1>9. "CLAIM_REVOKED" \in Policies!AssessmentReasons => score = 0
  BY DEF score
<1> QED
  BY <1>7, <1>8, <1>9

-----------------------------------------------------------------------------
(* The rules of the policy. *)

\* The rules, one by one.
Blocks(r) ==
  \/ r.subjectTenant # None /\ r.resourceTenant # None /\ r.subjectTenant # r.resourceTenant
  \/ r.score < 40
  \/ /\ r.action \in {"export", "share", "execute", "promote"}
     /\ r.classification = "restricted" /\ ~r.approved

Warns(r) ==
  \/ r.score < 65
  \/ /\ r.action \in {"export", "share"} /\ r.classification \in {"confidential", "restricted"}
     /\ ~({"lineage", "provenance"} \subseteq r.evidence)

\* evaluatePolicy blocks if a blocking rule matches, else warns if a warning one does.
LEMMA PolicyDecides ==
  ASSUME NEW r, r.action \in Policies!Actions,
         r.classification \in Policies!Classifications, r.score \in Int
  PROVE  Policies!EvaluatePolicy(r) =
           IF Blocks(r) THEN "blocked" ELSE IF Warns(r) THEN "warning" ELSE "allowed"
<1> DEFINE b1 == Policies!Rule("block", Policies!Actions, Policies!Classifications, 40, FALSE, {})
           w1 == Policies!Rule("warn", Policies!Actions, Policies!Classifications, 65, FALSE, {})
           b2 == Policies!Rule("block", {"export", "share", "execute", "promote"}, {"restricted"},
               None, TRUE, {})
           w2 == Policies!Rule("warn", {"export", "share"}, {"confidential", "restricted"}, None,
               FALSE,
                               {"lineage", "provenance"})
           matched == {rule \in Policies!DefaultPolicyRules : Policies!RuleMatches(r, rule)}
           foreign == None \notin {r.subjectTenant, r.resourceTenant}
                      /\ r.subjectTenant # r.resourceTenant
<1>0. None # 40 /\ None # 65
  BY PolicyConstants DEF Policies!ConstantsAssumed
<1>1. /\ b1.effect = "block" /\ b2.effect = "block" /\ w1.effect = "warn" /\ w2.effect = "warn"
      /\ Policies!RuleMatches(r, b1) <=> r.score < 40
      /\ Policies!RuleMatches(r, w1) <=> r.score < 65
  BY <1>0 DEF Policies!Rule, Policies!RuleMatches
<1>2. Policies!RuleMatches(r, b2) <=> /\ r.action \in {"export", "share", "execute", "promote"}
                                      /\ r.classification = "restricted" /\ ~r.approved
  BY DEF Policies!Rule, Policies!RuleMatches
<1>3. Policies!RuleMatches(r, w2) <=> /\ r.action \in {"export", "share"}
                                      /\ r.classification \in {"confidential", "restricted"}
                                      /\ ~({"lineage", "provenance"} \subseteq r.evidence)
  BY DEF Policies!Rule, Policies!RuleMatches
<1>4. Policies!DefaultPolicyRules = {b1, w1, b2, w2}
  BY DEF Policies!DefaultPolicyRules
<1>5. Policies!EvaluatePolicy(r) =
        CASE foreign \/ \E rule \in matched : rule.effect = "block" -> "blocked"
          [] ~foreign /\ matched # {} /\ (\A rule \in matched : rule.effect = "warn") -> "warning"
          [] OTHER -> "allowed"
  BY DEF Policies!EvaluatePolicy
<1>6. foreign <=> /\ r.subjectTenant # None /\ r.resourceTenant # None
                  /\ r.subjectTenant # r.resourceTenant
  OBVIOUS
<1> HIDE DEF b1, w1, b2, w2, foreign
<1>7. (\E rule \in matched : rule.effect = "block")
          <=> Policies!RuleMatches(r, b1) \/ Policies!RuleMatches(r, b2)
  BY <1>1, <1>4
<1>8. matched # {} <=> \/ Policies!RuleMatches(r, b1) \/ Policies!RuleMatches(r, b2)
                       \/ Policies!RuleMatches(r, w1) \/ Policies!RuleMatches(r, w2)
  BY <1>4
<1>9. (\A rule \in matched : rule.effect = "warn")
          <=> ~Policies!RuleMatches(r, b1) /\ ~Policies!RuleMatches(r, b2)
  BY <1>1, <1>4
<1>10. Blocks(r) <=> foreign \/ Policies!RuleMatches(r, b1) \/ Policies!RuleMatches(r, b2)
  BY <1>1, <1>2, <1>6 DEF Blocks
<1>11. Warns(r) <=> Policies!RuleMatches(r, w1) \/ Policies!RuleMatches(r, w2)
  BY <1>1, <1>3 DEF Warns
<1> HIDE DEF matched
<1> QED
  BY <1>5, <1>7, <1>8, <1>9, <1>10, <1>11

-----------------------------------------------------------------------------
(* Both together. *)

\* The request of an assessment, in the form the rules look at.
LEMMA RequestsAreDecided ==
  ASSUME Policies!IndInv, claim # None, NEW act \in Policies!Actions, NEW ok \in BOOLEAN,
         NEW score \in Int,
         NEW types, NEW tenant
  PROVE  LET r == Policies!Request(act, score, ok, types, tenant)
             foreign == tenant # None /\ tenant # "t1" /\ "t1" # None
             restricted == /\ act \in {"export", "share", "execute", "promote"}
                           /\ claim.classification = "restricted" /\ ~ok
             bare == /\ act \in {"export", "share"}
                     /\ claim.classification \in {"confidential", "restricted"}
                     /\ ~({"lineage", "provenance"} \subseteq types)
         IN  Policies!EvaluatePolicy(r) =
               IF foreign \/ score < 40 \/ restricted THEN "blocked"
               ELSE IF score < 65 \/ bare THEN "warning" ELSE "allowed"
<1> DEFINE r == Policies!Request(act, score, ok, types, tenant)
<1>1. /\ r.action = act /\ r.score = score /\ r.approved = ok /\ r.evidence = types
      /\ r.subjectTenant = "t1" /\ r.resourceTenant = tenant
      /\ r.classification = claim.classification
  BY DEF Policies!Request
<1>2. claim.classification \in Policies!Classifications
  BY DEF Policies!IndInv, Policies!Claims
<1>3. Policies!EvaluatePolicy(r) = IF Blocks(r) THEN "blocked" ELSE IF Warns(r) THEN "warning"
          ELSE "allowed"
  <2> HIDE DEF r
  <2> QED
    BY <1>1, <1>2, PolicyDecides
<1> HIDE DEF r
<1>4. Blocks(r) <=> \/ tenant # None /\ tenant # "t1" /\ "t1" # None
                    \/ score < 40
                    \/ /\ act \in {"export", "share", "execute", "promote"}
                       /\ claim.classification = "restricted" /\ ~ok
  BY <1>1 DEF Blocks
<1>5. Warns(r) <=> \/ score < 65
                   \/ /\ act \in {"export", "share"}
                      /\ claim.classification \in {"confidential", "restricted"}
                      /\ ~({"lineage", "provenance"} \subseteq types)
  BY <1>1 DEF Warns
<1> QED
  BY <1>3, <1>4, <1>5 DEF r

\* What a person approved is blocked for its score only.
LEMMA ApprovedIsDecided ==
  ASSUME Policies!IndInv, claim # None, NEW act \in Policies!Actions, NEW score \in Int, NEW types
  PROVE  Policies!EvaluatePolicy(Policies!Request(act, score, TRUE, types, "t1")) =
           IF score < 40 THEN "blocked"
           ELSE IF \/ score < 65
                   \/ /\ act \in {"export", "share"}
                      /\ claim.classification \in {"confidential", "restricted"}
                      /\ ~({"lineage", "provenance"} \subseteq types)
                THEN "warning" ELSE "allowed"
<1> DEFINE restricted == /\ act \in {"export", "share", "execute", "promote"}
                         /\ claim.classification = "restricted"
           bare == /\ act \in {"export", "share"}
                   /\ claim.classification \in {"confidential", "restricted"}
                   /\ ~({"lineage", "provenance"} \subseteq types)
<1>1. ASSUME NEW ok \in BOOLEAN
      PROVE  Policies!EvaluatePolicy(Policies!Request(act, score, ok, types, "t1")) =
               IF score < 40 \/ (restricted /\ ~ok) THEN "blocked"
               ELSE IF score < 65 \/ bare THEN "warning" ELSE "allowed"
  BY RequestsAreDecided
<1> HIDE DEF restricted, bare
<1>2. Policies!EvaluatePolicy(Policies!Request(act, score, TRUE, types, "t1")) =
        IF score < 40 \/ (restricted /\ ~TRUE) THEN "blocked"
        ELSE IF score < 65 \/ bare THEN "warning" ELSE "allowed"
  BY <1>1, Zenon
<1>3. Policies!EvaluatePolicy(Policies!Request(act, score, TRUE, types, "t1")) =
        IF score < 40 THEN "blocked"
        ELSE IF score < 65 \/ bare THEN "warning" ELSE "allowed"
  BY <1>2, Zenon
<1> QED
  BY <1>3, Zenon DEF bare

\* A tier and a decision, by the score and the reasons.
LEMMA VerdictsFollow ==
  ASSUME NEW score \in 0 .. 100, NEW reasons
  PROVE  /\ Policies!TierForScore(score) = "untrusted" <=> score < 40
         /\ Policies!TierForScore(score) \in {"supported", "verified"} <=> score >= 65
         /\ Policies!DecisionForScore(score, reasons) = "revoked" <=> "CLAIM_REVOKED" \in reasons
         /\ score < 40 => Policies!DecisionForScore(score, reasons) \in {"blocked", "revoked"}
         /\ Policies!DecisionForScore(score, reasons) = "trusted" =>
                /\ score >= 65
                /\ "MISSING_LINKED_EVIDENCE" \notin reasons
                /\ "LINEAGE_EVIDENCE_MISSING" \notin reasons
                /\ "CLAIM_EXPIRED" \notin reasons
<1>1. Policies!TierForScore(score) = "untrusted" <=> score < 40
  BY DEF Policies!TierForScore
<1>2. Policies!TierForScore(score) \in {"supported", "verified"} <=> score >= 65
  BY DEF Policies!TierForScore
<1>3. CASE "CLAIM_REVOKED" \in reasons
  <2>1. Policies!DecisionForScore(score, reasons) = "revoked"
    BY <1>3 DEF Policies!DecisionForScore
  <2> QED
    BY <1>1, <1>2, <1>3, <2>1
<1>4. CASE "CLAIM_REVOKED" \notin reasons /\ ("CLAIM_EXPIRED" \in reasons \/ score < 40)
  <2>1. Policies!DecisionForScore(score, reasons) = "blocked"
    BY <1>4 DEF Policies!DecisionForScore
  <2> QED
    BY <1>1, <1>2, <1>4, <2>1
<1>5. CASE "CLAIM_REVOKED" \notin reasons /\ "CLAIM_EXPIRED" \notin reasons /\ ~(score < 40)
  <2> DEFINE review == score < 65 \/ {"MISSING_LINKED_EVIDENCE", "LINEAGE_EVIDENCE_MISSING",
                          "RESTRICTED_DATA_REQUIRES_APPROVAL_EVIDENCE"} \intersect reasons # {}
  <2>1. Policies!DecisionForScore(score, reasons) = IF review THEN "needs_review" ELSE "trusted"
    BY <1>5 DEF Policies!DecisionForScore
  <2> QED
    BY <1>1, <1>2, <1>5, <2>1
<1> QED
  BY <1>3, <1>4, <1>5

\* The assessment and the policy agree on the claim.
LEMMA AgreementHolds ==
  ASSUME Policies!IndInv, claim # None
  PROVE  Policies!AssessmentAndPolicyAgree
<1> DEFINE a == Policies!AssessDataTrust
<1>1. /\ a.score \in 0 .. 100 /\ a.score \in Int
      /\ a.decision = Policies!DecisionForScore(a.score, Policies!AssessmentReasons)
      /\ a.tier = Policies!TierForScore(a.score)
      /\ "CLAIM_REVOKED" \in Policies!AssessmentReasons => a.score = 0
  BY ScoreIsPercentage
<1> HIDE DEF a
<1>2. /\ a.tier = "untrusted" <=> a.score < 40
      /\ a.tier \in {"supported", "verified"} <=> a.score >= 65
      /\ a.decision = "revoked" <=> "CLAIM_REVOKED" \in Policies!AssessmentReasons
      /\ a.score < 40 => a.decision \in {"blocked", "revoked"}
      /\ a.decision = "trusted" =>
             /\ a.score >= 65
             /\ "MISSING_LINKED_EVIDENCE" \notin Policies!AssessmentReasons
             /\ "LINEAGE_EVIDENCE_MISSING" \notin Policies!AssessmentReasons
  BY <1>1, VerdictsFollow
<1>3. ASSUME NEW act \in Policies!Actions, NEW ok \in BOOLEAN, a.score < 40
      PROVE  Policies!EvaluatePolicy(Policies!RequestNow(act, ok)) = "blocked"
  BY <1>1, <1>3, RequestsAreDecided DEF Policies!RequestNow, a
<1>4. ASSUME NEW act \in Policies!Actions, a.score >= 65
      PROVE  Policies!EvaluatePolicy(Policies!RequestNow(act, TRUE)) # "blocked"
  <2> DEFINE d == Policies!EvaluatePolicy(Policies!Request(act, a.score, TRUE,
                 Policies!UniqueEvidenceTypes, "t1"))
  <2>1. ~(a.score < 40)
    BY <1>1, <1>4
  <2>2. d # "blocked"
    BY <1>1, <2>1, ApprovedIsDecided
  <2> QED
    BY <2>2 DEF Policies!RequestNow, a
<1>5. a.decision = "trusted"
          => Policies!MissingEvidence = {} /\ "lineage" \in Policies!UniqueEvidenceTypes
  BY <1>2 DEF Policies!AssessmentReasons
<1>6. (a.decision = "revoked" \/ a.tier = "untrusted") => a.score < 40
  BY <1>1, <1>2
<1>7. Policies!AssessmentAndPolicyAgree <=>
        /\ (a.decision = "revoked" \/ a.tier = "untrusted") =>
               \A act \in Policies!Actions, ok \in BOOLEAN :
                   Policies!EvaluatePolicy(Policies!RequestNow(act, ok)) = "blocked"
        /\ a.tier = "untrusted" => a.decision \in {"blocked", "revoked"}
        /\ a.decision = "trusted" =>
               /\ a.tier \in {"supported", "verified"}
               /\ Policies!MissingEvidence = {} /\ "lineage" \in Policies!UniqueEvidenceTypes
               /\ \A act \in Policies!Actions :
                      Policies!EvaluatePolicy(Policies!RequestNow(act, TRUE)) # "blocked"
  BY DEF Policies!AssessmentAndPolicyAgree, a
<1> QED
  BY <1>2, <1>3, <1>4, <1>5, <1>6, <1>7

\* The policy only tightens as its request gets worse.
LEMMA MonotonyHolds ==
  ASSUME Policies!IndInv, claim # None
  PROVE  Policies!PolicyIsMonotone
<1> DEFINE score == Policies!AssessDataTrust.score
<1>1. score \in Int /\ 100 \in Int
  BY ScoreIsPercentage
<1>2. None # "t1" /\ None # "t2"
  BY PolicyConstants DEF Policies!ConstantsAssumed
<1>3. {"read", "export", "promote"} \subseteq Policies!Actions
  BY DEF Policies!Actions
<1>4. Policies!Rank("blocked") = 0 /\ Policies!Rank("warning") = 1 /\ Policies!Rank("allowed") = 2
  BY DEF Policies!Rank
<1> HIDE DEF score
<1> SUFFICES ASSUME NEW act \in {"read", "export", "promote"}, NEW ok \in BOOLEAN
    PROVE  LET d == Policies!Rank(Policies!EvaluatePolicy(Policies!RequestNow(act, ok))) IN
           /\ d <= Policies!Rank(Policies!EvaluatePolicy(Policies!RequestNow(act, TRUE)))
           /\ d <= Policies!Rank(Policies!EvaluatePolicy(Policies!Request(act, score, ok,
                  {"lineage", "provenance"}, None)))
           /\ \A better \in {39, 40, 64, 65} : better >= score =>
                  d <= Policies!Rank(Policies!EvaluatePolicy(Policies!Request(act, better, ok,
                      Policies!UniqueEvidenceTypes, "t1")))
           /\ Policies!EvaluatePolicy(Policies!Request(act, 100, ok, {"lineage", "provenance"},
                  "t2")) = "blocked"
  BY DEF Policies!PolicyIsMonotone, score
<1> DEFINE d == Policies!EvaluatePolicy(Policies!Request(act, score, ok,
               Policies!UniqueEvidenceTypes, "t1"))
           restricted == /\ act \in {"export", "share", "execute", "promote"}
                         /\ claim.classification = "restricted"
           handed == /\ act \in {"export", "share"}
                     /\ claim.classification \in {"confidential", "restricted"}
           bare == ~({"lineage", "provenance"} \subseteq Policies!UniqueEvidenceTypes)
<1>5. d = IF score < 40 \/ (restricted /\ ~ok) THEN "blocked"
          ELSE IF score < 65 \/ (handed /\ bare) THEN "warning" ELSE "allowed"
  BY <1>1, <1>3, RequestsAreDecided
<1>6. Policies!EvaluatePolicy(Policies!Request(act, score, TRUE, Policies!UniqueEvidenceTypes,
          "t1")) =
        IF score < 40 THEN "blocked" ELSE IF score < 65 \/ (handed /\ bare) THEN "warning"
            ELSE "allowed"
  <2>1. act \in Policies!Actions
    BY <1>3
  <2> QED
    <3> DEFINE e == Policies!EvaluatePolicy(Policies!Request(act, score, TRUE,
                   Policies!UniqueEvidenceTypes, "t1"))
    <3>1. e = IF score < 40 THEN "blocked"
              ELSE IF \/ score < 65
                      \/ /\ act \in {"export", "share"}
                         /\ claim.classification \in {"confidential", "restricted"}
                         /\ ~({"lineage", "provenance"} \subseteq Policies!UniqueEvidenceTypes)
                   THEN "warning" ELSE "allowed"
      BY <1>1, <2>1, ApprovedIsDecided, Zenon
    <3> HIDE DEF e
    <3>2. e = IF score < 40 THEN "blocked"
              ELSE IF score < 65 \/ (handed /\ bare) THEN "warning" ELSE "allowed"
      BY <3>1
    <3> QED
      BY <3>2, Zenon DEF e
<1>7. Policies!EvaluatePolicy(Policies!Request(act, score, ok, {"lineage", "provenance"}, None)) =
        IF score < 40 \/ (restricted /\ ~ok) THEN "blocked" ELSE IF score < 65 THEN "warning"
            ELSE "allowed"
  BY <1>1, <1>3, RequestsAreDecided
<1>8. ASSUME NEW better \in {39, 40, 64, 65}
      PROVE  Policies!EvaluatePolicy(Policies!Request(act, better, ok, Policies!UniqueEvidenceTypes,
                 "t1")) =
               IF better < 40 \/ (restricted /\ ~ok) THEN "blocked"
               ELSE IF better < 65 \/ (handed /\ bare) THEN "warning" ELSE "allowed"
  <2>1. better \in Int
    OBVIOUS
  <2> QED
    BY <1>3, <2>1, RequestsAreDecided
<1>9. Policies!EvaluatePolicy(Policies!Request(act, 100, ok, {"lineage", "provenance"}, "t2"))
          = "blocked"
  BY <1>1, <1>2, <1>3, RequestsAreDecided
<1>10. Policies!EvaluatePolicy(Policies!RequestNow(act, ok)) = d
       /\ Policies!EvaluatePolicy(Policies!RequestNow(act, TRUE))
            = Policies!EvaluatePolicy(Policies!Request(act, score, TRUE,
                Policies!UniqueEvidenceTypes, "t1"))
  BY DEF Policies!RequestNow, score
<1> HIDE DEF d, restricted, handed, bare
<1>11. Policies!Rank(d) <= Policies!Rank(Policies!EvaluatePolicy(Policies!RequestNow(act, TRUE)))
  <2> DEFINE e == Policies!EvaluatePolicy(Policies!RequestNow(act, TRUE))
  <2>1. e = IF score < 40 THEN "blocked" ELSE IF score < 65 \/ (handed /\ bare) THEN "warning"
            ELSE "allowed"
    BY <1>6, <1>10, Zenon
  <2> HIDE DEF e
  <2>2. Policies!Rank(d) <= Policies!Rank(e)
    BY <1>4, <1>5, <2>1
  <2> QED
    BY <2>2 DEF e
<1>12. Policies!Rank(d) <= Policies!Rank(Policies!EvaluatePolicy(Policies!Request(act, score, ok,
           {"lineage", "provenance"}, None)))
  BY <1>4, <1>5, <1>7
<1>13. ASSUME NEW better \in {39, 40, 64, 65}, better >= score
       PROVE  Policies!Rank(d) <= Policies!Rank(Policies!EvaluatePolicy(Policies!Request(act,
                  better, ok, Policies!UniqueEvidenceTypes, "t1")))
  <2>1. (better < 40 => score < 40) /\ (better < 65 => score < 65)
    BY <1>1, <1>13
  <2> QED
    BY <1>4, <1>5, <1>8, <2>1
<1> QED
  BY <1>9, <1>10, <1>11, <1>12, <1>13

\* The invariant gives both halves of the policy's soundness.
LEMMA PolicyInvariantSuffices == Policies!IndInv => Policies!PolicyIsSound
BY AgreementHolds, MonotonyHolds DEF Policies!PolicyIsSound

\* assessDataTrust and evaluatePolicy agree on the claim in every state, and
\* evaluatePolicy only tightens with a lower score, a missing approval, missing
\* evidence or a foreign tenant.
THEOREM PolicySound == Policies!Spec => []Policies!PolicyIsSound
BY PolicyInvariantHolds, PolicyInvariantSuffices, PTL

-----------------------------------------------------------------------------
(***************************************************************************)
(* The migrations and the report on them                                   *)
(***************************************************************************)

\* An object is known by its key and its definition.
LEMMA ObjectIsKeyed ==
  ASSUME NEW o, NEW p, Schema!IsObject(o), Schema!IsObject(p),
         Schema!MakeKey(o) = Schema!MakeKey(p), o.definition = p.definition
  PROVE  o = p
<1>1. o.type = p.type /\ o.name = p.name /\ o.parent = p.parent
  BY DEF Schema!MakeKey
<1> QED
  BY <1>1 DEF Schema!IsObject

\* The objects of the manifest are objects with a definition.
LEMMA ManifestIsWhole ==
  ASSUME NEW m \in Schema!Migrations, NEW o \in Schema!Manifest(m), Schema!ConstantsAssumed
  PROVE  Schema!IsObject(o) /\ o.definition # None /\ o \in Schema!AllObjects
<1>1. PICK st \in Scripts[m] : o \in st.creates
  BY DEF Schema!Manifest, Schema!Listed
<1>2. Schema!IsObject(o)
  BY <1>1 DEF Schema!ConstantsAssumed
<1>3. o.definition # None
  BY DEF Schema!ConstantsAssumed, Schema!HasDefinitionEvidence
<1> QED
  BY <1>2, <1>3 DEF Schema!AllObjects

\* Reading an object of the catalog changes at most a table's definition.
LEMMA ReadingKeepsKeys ==
  ASSUME NEW o, Schema!IsObject(o)
  PROVE  /\ Schema!IsObject(Schema!AsRead(o))
         /\ Schema!MakeKey(Schema!AsRead(o)) = Schema!MakeKey(o)
         /\ Schema!GetTableScopeName(Schema!AsRead(o)) = Schema!GetTableScopeName(o)
<1>1. PICK d : Schema!AsRead(o)
               = [type |-> o.type, name |-> o.name, parent |-> o.parent, definition |-> d]
  <2>1. CASE o.type # "table"
    BY <2>1 DEF Schema!AsRead, Schema!IsObject
  <2>2. CASE o.type = "table"
    <3> DEFINE d == IF Schema!ColumnsOf(catalog, o.name) = {} THEN None
                    ELSE Schema!ColumnsOf(catalog, o.name)
    <3>1. Schema!AsRead(o) = [o EXCEPT !.definition = d]
      BY <2>2 DEF Schema!AsRead
    <3> HIDE DEF d
    <3>2. [o EXCEPT !.definition = d]
             = [type |-> o.type, name |-> o.name, parent |-> o.parent, definition |-> d]
      BY DEF Schema!IsObject
    <3> QED
      BY <3>1, <3>2
  <2> QED
    BY <2>1, <2>2
<1> QED
  BY <1>1 DEF Schema!IsObject, Schema!MakeKey, Schema!GetTableScopeName

\* What is read of a catalog of objects are objects.
LEMMA ReadingKeepsObjects ==
  ASSUME \A o \in catalog : Schema!IsObject(o), NEW l \in Schema!Inventory
  PROVE  Schema!IsObject(l)
BY ReadingKeepsKeys DEF Schema!Inventory

\* What reconcileMigration finds of an object of the manifest.
LEMMA EveryObjectIsFound ==
  ASSUME NEW m \in Schema!Migrations, NEW o \in Schema!Manifest(m)
  PROVE  \/ o \in Schema!Missing(m) \/ o \in Schema!Found(m, "EXACT")
         \/ o \in Schema!Found(m, "UNKNOWN") \/ o \in Schema!Found(m, "MISMATCHED")
<1>1. CASE Schema!MakeKey(o) \notin Schema!Keys(Schema!Inventory)
  BY <1>1 DEF Schema!Missing
<1>2. CASE Schema!MakeKey(o) \in Schema!Keys(Schema!Inventory)
  <2>1. PICK l \in Schema!Inventory : Schema!MakeKey(l) = Schema!MakeKey(o)
    BY <1>2 DEF Schema!Keys
  <2>2. Schema!CompareObjects(o, l) \in {"EXACT", "UNKNOWN", "MISMATCHED"}
    BY DEF Schema!CompareObjects
  <2> QED
    BY <2>1, <2>2 DEF Schema!Found
<1> QED
  BY <1>1, <1>2

\* An object found exact is in the inventory as it is.
LEMMA ExactIsThere ==
  ASSUME NEW m \in Schema!Migrations, Schema!ConstantsAssumed,
         \A l \in catalog : Schema!IsObject(l), Schema!Found(m, "EXACT") = Schema!Manifest(m)
  PROVE  Schema!Manifest(m) \subseteq Schema!Inventory
<1> SUFFICES ASSUME NEW o \in Schema!Manifest(m) PROVE o \in Schema!Inventory
  OBVIOUS
<1>1. PICK l \in Schema!Inventory :
         Schema!MakeKey(l) = Schema!MakeKey(o) /\ Schema!CompareObjects(o, l) = "EXACT"
  BY DEF Schema!Found
<1>2. o.definition = l.definition
  BY <1>1 DEF Schema!CompareObjects
<1>3. Schema!IsObject(o)
  BY ManifestIsWhole
<1> QED
  BY <1>1, <1>2, <1>3, ObjectIsKeyed, ReadingKeepsObjects

\* What the schema has of a manifest is found in it.
LEMMA MissingIsNotThere ==
  ASSUME NEW m \in Schema!Migrations
  PROVE  /\ Schema!Missing(m) = Schema!Manifest(m)
                <=> Schema!Keys(Schema!Manifest(m)) \intersect Schema!Keys(Schema!Inventory) = {}
         /\ Schema!Missing(m) = {} <=> Schema!Keys(Schema!Manifest(m)) \subseteq Schema!Keys(Schema!Inventory)
BY DEF Schema!Missing, Schema!Keys

\* An object found under any verdict has its key in the inventory.
LEMMA FoundIsThere ==
  ASSUME NEW m \in Schema!Migrations, NEW answer, NEW o \in Schema!Found(m, answer)
  PROVE  o \in Schema!Manifest(m) /\ o \notin Schema!Missing(m)
BY DEF Schema!Found, Schema!Missing, Schema!Keys

\* The classification, by what was found.
LEMMA ReportFollows ==
  ASSUME NEW m \in Schema!Migrations, NEW known
  PROVE  LET report == Schema!ReconcileMigration(m, known)
             extra == Schema!ExtraScoped(m, known)
             exact == Schema!Found(m, "EXACT") = Schema!Manifest(m) /\ extra = {}
         IN  /\ exact => report = IF m \in recorded THEN "ALREADY_APPLIED_AND_RECORDED"
                                  ELSE "ALREADY_APPLIED_NOT_RECORDED"
             /\ ~exact => report \notin {"ALREADY_APPLIED_AND_RECORDED",
                                         "ALREADY_APPLIED_NOT_RECORDED"}
             /\ report = "NOT_APPLIED" => Schema!Missing(m) = Schema!Manifest(m) /\ extra = {}
             /\ (~exact /\ Schema!Missing(m) # {} /\ Schema!Missing(m) # Schema!Manifest(m))
                    => report \in {"PARTIALLY_APPLIED", "BLOCKED"}
             /\ (~exact /\ Schema!Found(m, "UNKNOWN") = {} /\ Schema!Missing(m) = Schema!Manifest(m)
                 /\ Schema!Missing(m) # {} /\ extra = {}) => report = "NOT_APPLIED"
             /\ report # "UNDETERMINED"
<1> DEFINE extra == Schema!ExtraScoped(m, known)
           exact == Schema!Found(m, "EXACT") = Schema!Manifest(m) /\ extra = {}
           unknown == Schema!Found(m, "UNKNOWN") # {}
           partial == Schema!Missing(m) # {} /\ ~(Schema!Missing(m) = Schema!Manifest(m) /\ extra = {})
           drift == Schema!Missing(m) = {} /\ (Schema!Found(m, "MISMATCHED") # {} \/ extra # {})
           absent == Schema!Missing(m) = Schema!Manifest(m) /\ extra = {}
<1>1. Schema!LedgerStatus(m) = "RECORDED" <=> m \in recorded
  BY DEF Schema!LedgerStatus
<1>2. Schema!ReconcileMigration(m, known) =
        IF exact THEN IF Schema!LedgerStatus(m) = "RECORDED" THEN "ALREADY_APPLIED_AND_RECORDED"
                      ELSE "ALREADY_APPLIED_NOT_RECORDED"
        ELSE IF unknown THEN "BLOCKED"
        ELSE IF partial THEN "PARTIALLY_APPLIED"
        ELSE IF drift THEN "SCHEMA_DRIFT"
        ELSE IF absent THEN "NOT_APPLIED"
        ELSE "UNDETERMINED"
  BY DEF Schema!ReconcileMigration, Schema!Absent
<1>3. exact \/ unknown \/ partial \/ drift \/ absent
  <2> SUFFICES ASSUME ~exact, ~unknown, ~partial, ~drift, ~absent PROVE FALSE
    OBVIOUS
  <2>1. Schema!Missing(m) = {} /\ Schema!Found(m, "MISMATCHED") = {} /\ extra = {}
    OBVIOUS
  <2>2. \A o \in Schema!Manifest(m) : o \in Schema!Found(m, "EXACT")
    BY <2>1, EveryObjectIsFound
  <2>3. Schema!Found(m, "EXACT") = Schema!Manifest(m)
    BY <2>2, FoundIsThere DEF Schema!Found
  <2> QED
    BY <2>1, <2>3
<1> HIDE DEF extra, exact, unknown, partial, drift, absent
<1>4. /\ absent <=> Schema!Missing(m) = Schema!Manifest(m) /\ extra = {}
      /\ partial <=> Schema!Missing(m) # {} /\ ~absent
      /\ unknown <=> Schema!Found(m, "UNKNOWN") # {}
      /\ drift => Schema!Missing(m) = {}
      /\ exact <=> Schema!Found(m, "EXACT") = Schema!Manifest(m) /\ extra = {}
      /\ extra = Schema!ExtraScoped(m, known)
  BY DEF absent, partial, unknown, drift, exact, extra
<1> QED
  BY <1>1, <1>2, <1>3, <1>4

\* The report is safe in any schema, whatever the migrations have in common.
THEOREM ReportIsSafeAnywhere ==
  ASSUME Schema!ConstantsAssumed, \A l \in catalog : Schema!IsObject(l)
  PROVE  Schema!ReportIsSafe
<1> SUFFICES ASSUME NEW m \in Schema!Migrations, NEW known, Schema!Manifest(m) \subseteq known
             PROVE  LET report == Schema!ReconcileMigration(m, known)
                        there == Schema!Keys(Schema!Manifest(m)) \intersect Schema!Keys(Schema!Inventory)
                    IN  /\ report = "NOT_APPLIED" =>
                               /\ there = {}
                               /\ \A l \in Schema!Inventory :
                                      Schema!GetTableScopeName(l)
                                          \in Schema!CollectCanonicalTables(Schema!Manifest(m))
                                          => Schema!MakeKey(l) \in Schema!Keys(known)
                        /\ report \in {"ALREADY_APPLIED_AND_RECORDED",
                               "ALREADY_APPLIED_NOT_RECORDED"} =>
                               Schema!Manifest(m) \subseteq Schema!Inventory
                        /\ (there # {} /\ there # Schema!Keys(Schema!Manifest(m))) =>
                               report \in {"PARTIALLY_APPLIED", "BLOCKED"}
                        /\ report # "UNDETERMINED"
  BY DEF Schema!ReportIsSafe
<1> DEFINE report == Schema!ReconcileMigration(m, known)
           there == Schema!Keys(Schema!Manifest(m)) \intersect Schema!Keys(Schema!Inventory)
           extra == Schema!ExtraScoped(m, known)
           exact == Schema!Found(m, "EXACT") = Schema!Manifest(m) /\ extra = {}
<1>0. /\ ~exact => report \notin {"ALREADY_APPLIED_AND_RECORDED", "ALREADY_APPLIED_NOT_RECORDED"}
      /\ report = "NOT_APPLIED" => Schema!Missing(m) = Schema!Manifest(m) /\ extra = {}
      /\ (~exact /\ Schema!Missing(m) # {} /\ Schema!Missing(m) # Schema!Manifest(m))
             => report \in {"PARTIALLY_APPLIED", "BLOCKED"}
      /\ report # "UNDETERMINED"
  BY ReportFollows
<1>1. ASSUME report = "NOT_APPLIED"
      PROVE  /\ there = {}
             /\ \A l \in Schema!Inventory :
                    Schema!GetTableScopeName(l) \in Schema!CollectCanonicalTables(Schema!Manifest(m))
                        => Schema!MakeKey(l) \in Schema!Keys(known)
  <2>1. there = {}
    BY <1>0, <1>1, MissingIsNotThere
  <2>2. Schema!Keys(Schema!Manifest(m)) \subseteq Schema!Keys(known)
    BY DEF Schema!Keys
  <2> QED
    BY <1>0, <1>1, <2>1, <2>2 DEF Schema!ExtraScoped, Schema!IsWithinCanonicalScope
<1>2. ASSUME report \in {"ALREADY_APPLIED_AND_RECORDED", "ALREADY_APPLIED_NOT_RECORDED"}
      PROVE  Schema!Manifest(m) \subseteq Schema!Inventory
  BY <1>0, <1>2, ExactIsThere
<1>3. ASSUME there # {}, there # Schema!Keys(Schema!Manifest(m))
      PROVE  report \in {"PARTIALLY_APPLIED", "BLOCKED"}
  <2>1. Schema!Missing(m) # Schema!Manifest(m) /\ Schema!Missing(m) # {}
    BY <1>3, MissingIsNotThere
  <2>2. ~exact
    BY <2>1, FoundIsThere DEF Schema!Missing
  <2> QED
    BY <1>0, <2>1, <2>2
<1> QED
  BY <1>0, <1>1, <1>2, <1>3

\* The catalog has the keys of the inventory.
LEMMA ReadKeys ==
  ASSUME \A o \in catalog : Schema!IsObject(o)
  PROVE  Schema!Keys(Schema!Inventory) = Schema!Keys(catalog)
BY ReadingKeepsKeys DEF Schema!Inventory, Schema!Keys

\* A statement other than the one that creates an object of an untouched migration
\* has nothing of its key.
LEMMA StatementsKeepApart ==
  ASSUME Schema!ConstantsAssumed, NEW m \in Schema!Migrations, Schema!Untouched(m),
         NEW st \in Schema!Listed(m), NEW o \in st.creates,
         NEW n \in Schema!Migrations, NEW other \in Scripts[n], n # m \/ other # st
  PROVE  Schema!MakeKey(o) \notin Schema!Keys(other.creates \union other.drops)
<1>1. o \in Schema!Manifest(m) /\ Schema!MakeKey(o) \in Schema!Keys(Schema!Manifest(m))
  BY DEF Schema!Manifest, Schema!Keys
<1>2. CASE n # m \/ ~other.listed
  <2>1. ~Schema!Reaches(other, m)
    BY <1>2 DEF Schema!Untouched
  <2> QED
    BY <1>1, <2>1 DEF Schema!Reaches
<1>3. CASE n = m /\ other.listed
  <2>1. other \in Schema!Listed(m) /\ other # st
    BY <1>3 DEF Schema!Listed
  <2>2. \A p \in other.creates : Schema!MakeKey(o) # Schema!MakeKey(p)
    BY <2>1 DEF Schema!Untouched
  <2>3. Schema!Keys(other.drops) \subseteq Schema!Keys(other.creates)
    BY <1>3 DEF Schema!ConstantsAssumed
  <2> QED
    BY <2>2, <2>3 DEF Schema!Keys
<1> QED
  BY <1>2, <1>3

\* Such a statement leaves the object where it is.
LEMMA OthersLeaveIt ==
  ASSUME NEW other, NEW o, Schema!MakeKey(o) \notin Schema!Keys(other.creates \union other.drops)
  PROVE  o \in Schema!Outcome(other) <=> o \in catalog
<1>1. o \notin other.creates /\ Schema!MakeKey(o) \notin Schema!Keys(other.drops \union other.creates)
  BY DEF Schema!Keys
<1> QED
  BY <1>1 DEF Schema!Outcome

\* What a statement of an untouched migration creates is there as a whole once it
\* has run.
LEMMA ItsOwnIsThere ==
  ASSUME Schema!ConstantsAssumed, Schema!IndInv, altered = 0,
         NEW m \in Schema!Migrations, Schema!Untouched(m), NEW st \in Schema!Listed(m)
  PROVE  st.creates \subseteq Schema!Outcome(st)
<1>1. CASE st.drops # {} \/ Schema!Keys(st.creates) \intersect Schema!Keys(catalog) = {}
  BY <1>1 DEF Schema!Outcome
<1>2. CASE st.drops = {} /\ Schema!Keys(st.creates) \intersect Schema!Keys(catalog) # {}
  <2>1. PICK o \in st.creates, l \in catalog : Schema!MakeKey(o) = Schema!MakeKey(l)
    BY <1>2 DEF Schema!Keys
  <2>2. PICK n \in Schema!Migrations : \E other \in Scripts[n] : l \in other.creates
    BY DEF Schema!IndInv, Schema!WholeMigrations
  <2>3. PICK other \in Scripts[n] : l \in other.creates
    BY <2>2
  <2>4. Schema!MakeKey(o) \in Schema!Keys(other.creates \union other.drops)
    BY <2>1, <2>3 DEF Schema!Keys
  <2>5. n = m /\ other = st
    BY <2>4, StatementsKeepApart
  <2>6. l = o
    BY <2>1, <2>3, <2>5 DEF Schema!Untouched
  <2>7. st.creates \subseteq catalog
    BY <2>6 DEF Schema!IndInv, Schema!WholeMigrations
  <2> QED
    BY <1>2, <2>7 DEF Schema!Outcome
<1> QED
  BY <1>1, <1>2

\* The empty schema satisfies the invariant.
LEMMA SchemaStarts == Schema!Init => Schema!IndInv
<1> SUFFICES ASSUME Schema!Init PROVE Schema!IndInv
  OBVIOUS
<1>1. Schema!WholeMigrations
  BY DEF Schema!Init, Schema!WholeMigrations
<1> QED
  BY <1>1 DEF Schema!Init, Schema!IndInv

\* Opening a migration keeps the invariant.
LEMMA BeginKeeps ==
  ASSUME Schema!IndInv, NEW m \in Schema!Migrations, Schema!Begin(m)
  PROVE  Schema!IndInv'
<1>1. /\ altered' = altered /\ catalog' = catalog /\ recorded' = recorded
      /\ open' = open \union {m} /\ pending' = [pending EXCEPT ![m] = Scripts[m]]
  BY DEF Schema!Begin
<1>2. ASSUME altered = 0, NEW n \in Schema!Migrations, Schema!Untouched(n), NEW st \in Schema!Listed(n)
      PROVE  \/ st.creates \subseteq catalog
             \/ /\ st.creates \intersect catalog = {}
                /\ n \notin recorded /\ (n \in open' => st \in pending'[n])
  <2>1. \/ st.creates \subseteq catalog
        \/ /\ st.creates \intersect catalog = {}
           /\ n \notin recorded /\ (n \in open => st \in pending[n])
    BY <1>2 DEF Schema!IndInv, Schema!WholeMigrations
  <2>2. n = m => pending'[n] = Scripts[n]
    BY <1>1 DEF Schema!IndInv
  <2>3. n # m => pending'[n] = pending[n] /\ (n \in open' => n \in open)
    BY <1>1 DEF Schema!IndInv
  <2>4. st \in Scripts[n]
    BY DEF Schema!Listed
  <2> QED
    BY <2>1, <2>2, <2>3, <2>4
<1>3. Schema!WholeMigrations'
  BY <1>1, <1>2 DEF Schema!IndInv, Schema!WholeMigrations, Schema!Migrations, Schema!Untouched,
     Schema!Reaches, Schema!Listed, Schema!Manifest, Schema!AllObjects
<1>4. pending' \in [Schema!Migrations -> SUBSET UNION {Scripts[n] : n \in Schema!Migrations}]
  BY <1>1 DEF Schema!IndInv
<1> QED
  BY <1>1, <1>3, <1>4 DEF Schema!IndInv, Schema!IsObject, Schema!Migrations

\* Running a statement keeps it.
LEMMA RunKeeps ==
  ASSUME Schema!IndInv, NEW m \in Schema!Migrations, NEW st \in Scripts[m], Schema!Run(m, st)
  PROVE  Schema!IndInv'
<1>0. Schema!ConstantsAssumed
  BY SchemaConstants
<1>1. /\ altered' = altered /\ catalog' = Schema!Outcome(st) /\ recorded' = recorded
      /\ open' = open /\ pending' = [pending EXCEPT ![m] = pending[m] \ {st}] /\ m \in open
  BY DEF Schema!Run
<1>2. Schema!Outcome(st) \subseteq catalog \union st.creates
  BY DEF Schema!Outcome
<1>3. ASSUME NEW n \in Schema!Migrations, Schema!Untouched(n), NEW s \in Schema!Listed(n),
             n # m \/ s # st, NEW o \in s.creates
      PROVE  o \in catalog' <=> o \in catalog
  <2>1. Schema!MakeKey(o) \notin Schema!Keys(st.creates \union st.drops)
    BY <1>0, <1>3, StatementsKeepApart
  <2> QED
    BY <1>1, <2>1, OthersLeaveIt
<1>4. ASSUME altered = 0, NEW n \in Schema!Migrations, Schema!Untouched(n), NEW s \in Schema!Listed(n)
      PROVE  \/ s.creates \subseteq catalog'
             \/ /\ s.creates \intersect catalog' = {}
                /\ n \notin recorded' /\ (n \in open' => s \in pending'[n])
  <2>1. CASE n = m /\ s = st
    BY <1>0, <1>1, <1>4, <2>1, ItsOwnIsThere
  <2>2. CASE n # m \/ s # st
    <3>1. \A o \in s.creates : o \in catalog' <=> o \in catalog
      BY <1>3, <1>4, <2>2
    <3>2. s \in pending[n] => s \in pending'[n]
      BY <1>1, <2>2 DEF Schema!IndInv
    <3>3. \/ s.creates \subseteq catalog
          \/ /\ s.creates \intersect catalog = {}
             /\ n \notin recorded /\ (n \in open => s \in pending[n])
      BY <1>4 DEF Schema!IndInv, Schema!WholeMigrations
    <3> QED
      BY <1>1, <3>1, <3>2, <3>3
  <2> QED
    BY <2>1, <2>2
<1>5. ASSUME altered = 0, NEW n \in Schema!Migrations, Schema!Untouched(n)
      PROVE  \/ n \in open'
             \/ Schema!Manifest(n) \subseteq catalog'
             \/ Schema!Manifest(n) \intersect catalog' = {}
  <2> SUFFICES ASSUME n \notin open
               PROVE  \/ Schema!Manifest(n) \subseteq catalog'
                      \/ Schema!Manifest(n) \intersect catalog' = {}
    BY <1>1
  <2>1. n # m
    BY <1>1
  <2>2. \A o \in Schema!Manifest(n) : o \in catalog' <=> o \in catalog
    BY <1>3, <1>5, <2>1 DEF Schema!Manifest
  <2>3. Schema!Manifest(n) \subseteq catalog \/ Schema!Manifest(n) \intersect catalog = {}
    BY <1>5 DEF Schema!IndInv, Schema!WholeMigrations
  <2> QED
    BY <2>2, <2>3
<1>6. altered = 0 =>
        \A o \in catalog' : \E n \in Schema!Migrations : \E s \in Scripts[n] : o \in s.creates
  BY <1>1, <1>2 DEF Schema!IndInv, Schema!WholeMigrations
<1>7. Schema!WholeMigrations'
  BY <1>1, <1>4, <1>5, <1>6 DEF Schema!WholeMigrations, Schema!Migrations, Schema!Untouched,
     Schema!Reaches, Schema!Listed, Schema!Manifest, Schema!AllObjects
<1>8. \A l \in catalog' : Schema!IsObject(l)
  BY <1>0, <1>1, <1>2 DEF Schema!IndInv, Schema!ConstantsAssumed
<1>9. pending' \in [Schema!Migrations -> SUBSET UNION {Scripts[n] : n \in Schema!Migrations}]
  BY <1>1 DEF Schema!IndInv
<1> QED
  BY <1>1, <1>7, <1>8, <1>9 DEF Schema!IndInv, Schema!IsObject, Schema!Migrations

\* Ending a migration, recorded or not, keeps it.
LEMMA EndKeeps ==
  ASSUME Schema!IndInv, NEW m \in Schema!Migrations, Schema!End(m)
  PROVE  Schema!IndInv'
<1>1. /\ altered' = altered /\ catalog' = catalog /\ open' = open \ {m} /\ pending' = pending
      /\ m \in open /\ pending[m] = {}
      /\ recorded' = recorded \/ recorded' = recorded \union {m}
  BY DEF Schema!End
<1>2. ASSUME altered = 0, Schema!Untouched(m), NEW st \in Schema!Listed(m)
      PROVE  st.creates \subseteq catalog
  BY <1>1, <1>2 DEF Schema!IndInv, Schema!WholeMigrations
<1>3. ASSUME altered = 0, Schema!Untouched(m) PROVE Schema!Manifest(m) \subseteq catalog
  BY <1>2, <1>3 DEF Schema!Manifest
<1>4. ASSUME altered = 0, NEW n \in Schema!Migrations, Schema!Untouched(n)
      PROVE  /\ \A st \in Schema!Listed(n) :
                   \/ st.creates \subseteq catalog'
                   \/ /\ st.creates \intersect catalog' = {}
                      /\ n \notin recorded' /\ (n \in open' => st \in pending'[n])
             /\ \/ n \in open'
                \/ Schema!Manifest(n) \subseteq catalog'
                \/ Schema!Manifest(n) \intersect catalog' = {}
  <2>1. CASE n = m
    BY <1>1, <1>2, <1>3, <1>4, <2>1
  <2>2. CASE n # m
    BY <1>1, <1>4, <2>2 DEF Schema!IndInv, Schema!WholeMigrations
  <2> QED
    BY <2>1, <2>2
<1>5. Schema!WholeMigrations'
  BY <1>1, <1>4 DEF Schema!IndInv, Schema!WholeMigrations, Schema!Migrations, Schema!Untouched,
     Schema!Reaches, Schema!Listed, Schema!Manifest, Schema!AllObjects
<1> QED
  BY <1>1, <1>5 DEF Schema!IndInv, Schema!IsObject, Schema!Migrations

\* An alteration by hand keeps it.
LEMMA AlterKeeps ==
  ASSUME Schema!IndInv, Schema!Alter
  PROVE  Schema!IndInv'
<1>1. /\ altered' \in Nat /\ altered' # 0 /\ recorded' = recorded /\ open' = open
      /\ pending' = pending
  BY DEF Schema!Alter, Schema!IndInv
<1>2. ASSUME NEW o \in catalog, NEW d
      PROVE  Schema!IsObject([o EXCEPT !.definition = d])
  <2>1. Schema!IsObject(o)
    BY DEF Schema!IndInv
  <2>2. [o EXCEPT !.definition = d] =
          [type |-> o.type, name |-> o.name, parent |-> o.parent, definition |-> d]
    BY <2>1 DEF Schema!IsObject
  <2> QED
    BY <2>2 DEF Schema!IsObject
<1>3. \A o \in Extras : Schema!IsObject(o)
  BY SchemaConstants DEF Schema!ConstantsAssumed
<1>4. \A l \in catalog' : Schema!IsObject(l)
  <2>1. CASE \E o \in catalog :
                catalog' = {l \in catalog \ {o} :
                                o.type = "table" => Schema!GetTableScopeName(l) # o.name}
    BY <2>1 DEF Schema!IndInv
  <2>2. CASE \E o \in catalog, d \in {{"other"}, None} :
                catalog' = (catalog \ {o}) \union {[o EXCEPT !.definition = d]}
    BY <1>2, <2>2 DEF Schema!IndInv
  <2>3. CASE \E o \in Extras : catalog' = catalog \union {o}
    BY <1>3, <2>3 DEF Schema!IndInv
  <2> QED
    BY <2>1, <2>2, <2>3 DEF Schema!Alter
<1>5. Schema!WholeMigrations'
  BY <1>1 DEF Schema!WholeMigrations
<1> QED
  BY <1>1, <1>4, <1>5 DEF Schema!IndInv, Schema!IsObject, Schema!Migrations

\* Every step keeps it.
LEMMA SchemaStays == Schema!IndInv /\ [Schema!Next]_Schema!vars => Schema!IndInv'
<1> SUFFICES ASSUME Schema!IndInv, [Schema!Next]_Schema!vars PROVE Schema!IndInv'
  OBVIOUS
<1>1. CASE Schema!Next
  BY <1>1, BeginKeeps, RunKeeps, EndKeeps, AlterKeeps DEF Schema!Next
<1>2. CASE UNCHANGED Schema!vars
  BY <1>2 DEF Schema!vars, Schema!IndInv, Schema!WholeMigrations, Schema!AllObjects,
     Schema!IsObject, Schema!Migrations, Schema!Untouched, Schema!Reaches, Schema!Listed,
     Schema!Manifest
<1> QED
  BY <1>1, <1>2

\* Until a hand alters it, a migration that is not open and that no other reaches into
\* is in the schema as a whole or not at all, and only a whole one is recorded.
THEOREM SchemaInvariantHolds == Schema!Spec => []Schema!IndInv
BY SchemaStarts, SchemaStays, PTL DEF Schema!Spec

\* The tables of an untouched migration that is there are read with its columns.
LEMMA TablesAreRead ==
  ASSUME Schema!IndInv, altered = 0, NEW m \in Schema!Migrations, Schema!Untouched(m),
         Schema!Manifest(m) \subseteq catalog, NEW o \in Schema!Manifest(m)
  PROVE  Schema!AsRead(o) = o
<1>0. Schema!ConstantsAssumed /\ Schema!IsObject(o)
  BY SchemaConstants DEF Schema!IndInv
<1>1. CASE o.type # "table"
  BY <1>1 DEF Schema!AsRead
<1>2. CASE o.type = "table"
  <2>1. o.definition = Schema!ColumnsOf(Schema!Manifest(m), o.name) /\ o.definition # {}
    BY <1>0, <1>2 DEF Schema!ConstantsAssumed
  <2>2. ASSUME NEW p \in catalog, p.type = "column", p.parent = o.name
        PROVE  p \in Schema!Manifest(m)
    <3>1. PICK n \in Schema!Migrations : \E st \in Scripts[n] : p \in st.creates
      BY DEF Schema!IndInv, Schema!WholeMigrations
    <3>2. PICK st \in Scripts[n] : p \in st.creates
      BY <3>1
    <3>3. Schema!Reaches(st, m)
      BY <1>2, <2>2, <3>2 DEF Schema!Reaches
    <3>4. n = m /\ st.listed
      BY <3>3 DEF Schema!Untouched
    <3> QED
      BY <3>2, <3>4 DEF Schema!Manifest, Schema!Listed
  <2>3. {x \in catalog : x.type = "column" /\ x.parent = o.name}
          = {x \in Schema!Manifest(m) : x.type = "column" /\ x.parent = o.name}
    BY <2>2
  <2>4. Schema!ColumnsOf(catalog, o.name) = o.definition
    BY <2>1, <2>3 DEF Schema!ColumnsOf
  <2>5. Schema!AsRead(o) = [o EXCEPT !.definition = o.definition]
    BY <1>2, <2>1, <2>4 DEF Schema!AsRead
  <2>6. [o EXCEPT !.definition = o.definition] = o
    BY <1>0 DEF Schema!IsObject
  <2> QED
    BY <2>5, <2>6
<1> QED
  BY <1>1, <1>2

\* Only complete migrations: the report says applied, or not applied.
LEMMA CleanIsReported ==
  ASSUME Schema!IndInv, altered = 0, open = {}, NEW m \in Schema!Migrations, Schema!Untouched(m)
  PROVE  Schema!ReconcileMigration(m, Schema!AllObjects) =
             IF m \in recorded THEN "ALREADY_APPLIED_AND_RECORDED"
             ELSE IF Schema!Manifest(m) \subseteq Schema!Inventory
                  THEN "ALREADY_APPLIED_NOT_RECORDED"
             ELSE "NOT_APPLIED"
<1>0. Schema!ConstantsAssumed /\ \A o \in catalog : Schema!IsObject(o)
  BY SchemaConstants DEF Schema!IndInv
<1>1. Schema!Manifest(m) \subseteq catalog \/ Schema!Manifest(m) \intersect catalog = {}
  BY DEF Schema!IndInv, Schema!WholeMigrations
<1>2. Schema!ExtraScoped(m, Schema!AllObjects) = {}
  <2> SUFFICES ASSUME NEW l \in Schema!Inventory,
                      Schema!MakeKey(l) \notin Schema!Keys(Schema!AllObjects),
                      Schema!GetTableScopeName(l)
                          \in Schema!CollectCanonicalTables(Schema!Manifest(m))
               PROVE  FALSE
    BY DEF Schema!ExtraScoped, Schema!IsWithinCanonicalScope
  <2>1. PICK p \in catalog : l = Schema!AsRead(p)
    BY DEF Schema!Inventory
  <2>2. Schema!MakeKey(p) = Schema!MakeKey(l)
        /\ Schema!GetTableScopeName(p) = Schema!GetTableScopeName(l)
    BY <1>0, <2>1, ReadingKeepsKeys
  <2>3. PICK n \in Schema!Migrations : \E st \in Scripts[n] : p \in st.creates
    BY DEF Schema!IndInv, Schema!WholeMigrations
  <2>4. PICK st \in Scripts[n] : p \in st.creates
    BY <2>3
  <2>5. Schema!Reaches(st, m)
    BY <2>2, <2>4 DEF Schema!Reaches
  <2>6. n = m /\ st.listed
    BY <2>5 DEF Schema!Untouched
  <2>7. p \in Schema!AllObjects
    BY <2>4, <2>6 DEF Schema!AllObjects, Schema!Manifest, Schema!Listed
  <2> QED
    BY <2>2, <2>7 DEF Schema!Keys
<1>3. CASE Schema!Manifest(m) \subseteq catalog
  <2>1. Schema!Manifest(m) \subseteq Schema!Inventory
    BY <1>3, TablesAreRead DEF Schema!Inventory
  <2>2. \A o \in Schema!Manifest(m) : Schema!CompareObjects(o, o) = "EXACT"
    BY <1>0 DEF Schema!CompareObjects, Schema!ConstantsAssumed
  <2>3. Schema!Found(m, "EXACT") = Schema!Manifest(m)
    BY <2>1, <2>2 DEF Schema!Found
  <2> QED
    BY <1>2, <2>1, <2>3, ReportFollows
<1>4. CASE ~(Schema!Manifest(m) \subseteq catalog)
  <2>1. Schema!Manifest(m) \intersect catalog = {} /\ Schema!Manifest(m) # {}
    BY <1>1, <1>4
  <2>2. ASSUME NEW st \in Schema!Listed(m), NEW o \in st.creates
        PROVE  Schema!MakeKey(o) \notin Schema!Keys(catalog) /\ m \notin recorded
    <3>0. o \in Schema!Manifest(m)
      BY DEF Schema!Manifest
    <3>1. ASSUME NEW l \in catalog, Schema!MakeKey(l) = Schema!MakeKey(o)
          PROVE  FALSE
      <4>1. PICK n \in Schema!Migrations : \E s \in Scripts[n] : l \in s.creates
        BY DEF Schema!IndInv, Schema!WholeMigrations
      <4>2. PICK s \in Scripts[n] : l \in s.creates
        BY <4>1
      <4>3. Schema!MakeKey(o) \in Schema!Keys(s.creates \union s.drops)
        BY <3>1, <4>2 DEF Schema!Keys
      <4>4. n = m /\ s = st
        BY <1>0, <4>3, StatementsKeepApart
      <4>5. l = o
        BY <3>1, <4>2, <4>4 DEF Schema!Untouched
      <4> QED
        BY <2>1, <3>0, <4>5
    <3>2. m \notin recorded
      BY <2>1, <3>0 DEF Schema!IndInv, Schema!WholeMigrations
    <3> QED
      BY <3>1, <3>2 DEF Schema!Keys
  <2>3. \A o \in Schema!Manifest(m) : Schema!MakeKey(o) \notin Schema!Keys(Schema!Inventory)
    BY <1>0, <2>2, ReadKeys DEF Schema!Manifest
  <2>4. m \notin recorded
    BY <2>1, <2>2 DEF Schema!Manifest
  <2>5. Schema!Missing(m) = Schema!Manifest(m) /\ Schema!Missing(m) # {}
    BY <2>1, <2>3 DEF Schema!Missing
  <2>6. Schema!Found(m, "UNKNOWN") = {} /\ Schema!Found(m, "EXACT") # Schema!Manifest(m)
    BY <2>5, FoundIsThere
  <2>7. ~(Schema!Manifest(m) \subseteq Schema!Inventory)
    BY <2>1, <2>3 DEF Schema!Keys
  <2> QED
    BY <1>2, <2>4, <2>5, <2>6, <2>7, ReportFollows
<1> QED
  BY <1>3, <1>4

\* The invariant gives both halves of the reconciliation's soundness.
LEMMA SchemaInvariantSuffices == Schema!IndInv => Schema!ReportIsSafe /\ Schema!CleanHistoryIsClean
<1> SUFFICES ASSUME Schema!IndInv PROVE Schema!ReportIsSafe /\ Schema!CleanHistoryIsClean
  OBVIOUS
<1>1. Schema!ReportIsSafe
  BY ReportIsSafeAnywhere, SchemaConstants DEF Schema!IndInv
<1>2. Schema!CleanHistoryIsClean
  BY CleanIsReported DEF Schema!CleanHistoryIsClean
<1> QED
  BY <1>1, <1>2

\* The report reconcileMigration gives is safe to act on in every state, and of a
\* history nobody altered it says exactly what ran, of the migrations no other reaches
\* into.
THEOREM ReconciliationSound == Schema!Spec => []Schema!ReconciliationIsSound
<1>1. Schema!IndInv => Schema!ReconciliationIsSound
  BY SchemaInvariantSuffices DEF Schema!ReconciliationIsSound
<1> QED
  BY <1>1, SchemaInvariantHolds, PTL

-----------------------------------------------------------------------------
\* The three kinds of verdict are sound: of the receptionist's runs, calls and
\* simulations; of the policy on a claim whose evidence comes and goes and that
\* expires or is revoked; of the reconciliation of migrations with a schema that
\* is changed by hand.
THEOREM DecisionsSound ==
  Decisions!Spec /\ Policies!Spec /\ Schema!Spec => []DecisionsAreSound
BY DecisionsInvariantHolds, DecisionsInvariantSuffices, PolicySound, ReconciliationSound, PTL
   DEF DecisionsAreSound
=============================================================================
