---------------------------- MODULE MCTelephony ----------------------------
(* The channels for TLC: telephony, and the card's request form and chat.    *)
(* A behaviour exercises one part, the one that "part" names, and leaves the *)
(* state of the others as it began.                                          *)
EXTENDS Telephony, Sequences, TLC

CONSTANTS
    Parts,                              \* the parts a run exercises
    e1, e2, s1, s2, v1, d1,
    t1, t2, c1, a1, n1, n2, k1, k2, r1, r2, i1, h1, h2, p1

VARIABLE part

telephonyVars == <<vars, planeVars, gateVars>>

SomeBodies == {[providerEventId |-> "p1", kind |-> "call"], [providerEventId |-> "p2", kind |-> "unsupported"]}

\* What is deployed is one variable away from mock calls without an approval or from
\* everything live calls need.
Bases == INSTANCE TelephonyGates WITH
    Requests <- {}, Calls <- {}, Routes <- {}, Environments <- {}
SomeEnvironments ==
    Bases!EnvironmentsAround(Bases!MockCalls) \cup Bases!EnvironmentsAround(Bases!Live)

Message(valid, unsafe) ==
    [type |-> "qualify_lead", valid |-> valid, consent |-> TRUE, email |-> TRUE, phone |-> "none",
     long |-> FALSE, unsafe |-> unsafe, unsafeName |-> FALSE, urgent |-> FALSE,
     valuable |-> FALSE, company |-> FALSE]

SomeMessages == {Message(TRUE, FALSE), Message(FALSE, FALSE), Message(TRUE, TRUE)}

Plain(message) == message.valid /\ ~message.unsafe

InitOfPart ==
    /\ part \in Parts
    /\ Init
    /\ part # "webhooks" \/ config.mode # "sandbox" => config.replays /\ config.strong
    /\ part # "operations" => config.remembers
    /\ part \in {"webhooks", "operations"} \/ config.mode = "disabled"
    /\ Plane!Init
    /\ Gates!Init
    /\ Intake!Init
    /\ part # "retries" => ~cardDatabase

\* A signed message as it was sent or split anew, with one header or the body
\* missing or altered at most.
Split(sent, f, g) ==
    [contentType |-> "json", eventId |-> [id |-> sent.eventId, fractions |-> f],
     timestamp |-> [at |-> sent.timestamp, fractions |-> g], body |-> sent.body,
     signature |-> sent]
Splits == {Split(sent, fg[1], fg[2]) : sent \in signed, fg \in {<<0, 1>>, <<1, 0>>, <<1, 1>>}}
SomeDeliveries ==
    Splits \cup UNION {
        {[m EXCEPT !.contentType = "other"], [m EXCEPT !.signature = None],
         [m EXCEPT !.signature = Forged]}
        \cup {[m EXCEPT !.eventId = h] : h \in EventIdHeaders \cup {None}}
        \cup {[m EXCEPT !.timestamp = h] : h \in TimestampHeaders \cup {None}}
        \cup {[m EXCEPT !.body = body] : body \in Bodies} : m \in Splits}

\* Two webhook ids and two bodies, a restart, and a clock past the tolerance; or
\* one signed message that is split anew or meets no replay store.
Webhooks ==
    /\ \/ \E eventId \in EventIds, body \in Bodies : Sign(eventId, body)
       \/ \E m \in SomeDeliveries : VerifyWebhook(m) \/ NormalizeVerify(m)
       \/ \E v \in verified : NormalizeParse(v)
       \/ Tick
       \/ Restart
    /\ \/ config.mode = "sandbox" /\ config.strong /\ config.replays
          /\ \A h \in replayStore' : h.fractions = 0
       \/ Cardinality(signed') <= 1 /\ Cardinality(normalized') <= 2 /\ Cardinality(verified') <= 2

\* Operations of two tenants on one session, with a restart: two of any kind, or
\* three of the same.
OperationRequests ==
    /\ (\E op \in Operations : RequestOperation(op)) \/ Restart
    /\ Cardinality(answers') = 3 => Cardinality({a.op.capability : a \in answers'}) = 1

\* Two tasks that request a call of two tenants, and a callback or an appointment.
CallRequests ==
    /\ Plane!Next
    /\ sessions'[s2] = None /\ accepted' = {}
    /\ callbacks'[c1] # None => appointments'[a1] = None

\* Commands with two keys, with a store and without one.
Commands == Plane!Commands

\* Outbound requests across deployments, inbound calls ...
OutboundCalls == Gates!Deployments \/ Gates!CallSteps

\* ... readiness stored under one environment and shown under another ...
Readiness == Gates!Deployments \/ Gates!ReadinessSteps

\* ... and lists of two rules: of one tenant, for one of his cards or for all of
\* them, and of anyone, of the same type, an emergency or for every call.
Routing ==
    /\ Gates!RuleSteps
    /\ \A i \in DOMAIN rules' :
          rules'[i].type \in {"language", "overflow"} \/ rules'[i].condition = None
    /\ rules'[1].tenant = n1 /\ rules'[1].card # h2
    /\ Len(rules') = 2 =>
          /\ rules'[2].enabled
          /\ rules'[2].type \in {rules'[1].type, "emergency", "priority"}
          /\ rules'[2].action # rules'[1].action

\* One visitor who asks by the form and again by the chat, or the other way round ...
Retries ==
    /\ Intake!Next
    /\ Len(jobs') <= 2 /\ cardNow' = 0
    /\ Len(jobs') = 2 => jobs'[1].surface # jobs'[2].surface
    /\ \A j \in DOMAIN jobs' :
          jobs'[j].surface \in {"form", "chat"} /\ Plain(jobs'[j].message)

\* ... and clients of the routes at the rate limit while time passes, one of whom
\* may send a body that is refused or blocked.
Routes ==
    /\ Intake!Next
    /\ \A v \in Visitors : ~form'[v].started
    /\ Cardinality({j \in DOMAIN jobs' : ~Plain(jobs'[j].message)}) <= 1
    /\ \A j \in DOMAIN jobs' : jobs'[j].surface \in {"calendar", "callback"}

NextOfPart ==
    /\ UNCHANGED part
    /\ \/ part = "webhooks" /\ Webhooks /\ UNCHANGED <<planeVars, gateVars, cardVars>>
       \/ part = "operations" /\ OperationRequests /\ UNCHANGED <<planeVars, gateVars, cardVars>>
       \/ part = "requests" /\ CallRequests /\ UNCHANGED <<vars, gateVars, cardVars>>
       \/ part = "commands" /\ Commands /\ UNCHANGED <<vars, gateVars, cardVars>>
       \/ part = "gates" /\ OutboundCalls /\ UNCHANGED <<vars, planeVars, cardVars>>
       \/ part = "readiness" /\ Readiness /\ UNCHANGED <<vars, planeVars, cardVars>>
       \/ part = "routing" /\ Routing /\ UNCHANGED <<vars, planeVars, cardVars>>
       \/ part = "retries" /\ Retries /\ UNCHANGED telephonyVars
       \/ part = "routes" /\ Routes /\ UNCHANGED telephonyVars

SpecOfPart == InitOfPart /\ [][NextOfPart]_<<part, telephonyVars, cardVars>>

\* docs/TELEPHONY_STATE_MACHINES.md: "Terminal states do not transition back to
\* active states" (requestCallSession saves over a session that ended).
TerminalStatesStay == Plane!TerminalStatesStay
=============================================================================
