------------------------- MODULE SandboxProvider -------------------------
(* The sandbox telephony provider: the webhooks it verifies and normalizes  *)
(* and the call operations it answers idempotently.                         *)
(*   services/telephony/src/sandbox-provider-adapter.ts                      *)
(*   services/telephony/src/provider-interface.ts                            *)
(* The provider signs timestamp, event id and body, joined by dots, with a   *)
(* shared secret. The network may duplicate, delay, reorder or alter a       *)
(* delivery. The replay store and the operation store are optional and live  *)
(* in the process: a restart empties them while the clock, and what the      *)
(* provider signed, go on.                                                   *)
EXTENDS Naturals, FiniteSets

CONSTANTS
  EventIds,      \* values of the event id header
  Bodies,        \* request bodies: [providerEventId, kind]
  Sessions,      \* call session ids an operation may name
  Tenants,       \* tenants an operation may come from
  Payloads,      \* destinations and messages of an operation
  Tolerance,     \* timestampToleranceMs, in clock ticks
  MaxTime,       \* bound: last instant of the clock
  MaxLives,      \* bound: number of process lives
  MaxSigned,     \* bound: number of messages the provider signs
  MaxAnswers,    \* bound: number of different answers to operations
  None,          \* a header or a session id that is missing
  Forged         \* a well formed digest of nothing the provider signed

ASSUME SandboxAssumption ==
  /\ Tolerance \in Nat /\ MaxTime \in Nat /\ MaxLives \in Nat \ {0}
  /\ None \notin EventIds /\ None \notin 0..MaxTime /\ None \notin Sessions

VARIABLES
  config,        \* [mode, strong, replays, remembers]: provider mode, is the
                 \* signing secret strong, is there a replay and an operation store
  now,           \* the clock read by now()
  life,          \* how many times the process was started
  signed,        \* what the provider signed: [eventId, timestamp, body]
  replayStore,   \* event id headers remembered by this life
  verified,      \* deliveries normalizeWebhook verified and has not parsed yet
  normalized,    \* the audit events normalizeWebhook returned
  operationStore,\* idempotency key -> [payloadHash, result], of this life
  answers        \* results of operations: [life, op, result]

webhookVars == <<signed, replayStore, verified, normalized>>
operationVars == <<operationStore, answers>>
vars == <<config, now, life, webhookVars, operationVars>>

Modes == {"disabled", "mock", "sandbox", "production"}

Timestamps == 0..MaxTime

Configurations == [mode: Modes, strong: BOOLEAN, replays: BOOLEAN, remembers: BOOLEAN]

Signatures == [eventId: EventIds, timestamp: Timestamps, body: Bodies]

(* An ISO timestamp has a dot before its fraction ("000Z"), so the joined    *)
(* text can be split there as well: the fraction then leads the event id, and *)
(* what is left of the timestamp still names the instant (on a host in UTC). *)
(* A split at a dot of the id or of the body leaves no body that parses.     *)
TimestampHeaders == [at: Timestamps, fractions: {0, 1}]
EventIdHeaders == [id: EventIds, fractions: {0, 1}]

(* createSandboxSignedPayload: where the fraction stood is lost in the join. *)
SignedPayload(timestamp, eventId, body) ==
  [at |-> timestamp.at, fractions |-> timestamp.fractions + eventId.fractions,
   id |-> eventId.id, body |-> body]

(* The provider sends whole timestamps and bare event ids. *)
PayloadOf(signature) ==
  SignedPayload([at |-> signature.timestamp, fractions |-> 1],
                [id |-> signature.eventId, fractions |-> 0], signature.body)

(* What arrives: the signature header is missing or malformed (None), well   *)
(* formed but of no message the provider signed (Forged), or the digest of a *)
(* signed message, with or without that message around it.                   *)
Deliveries ==
  [contentType: {"json", "other"}, eventId: EventIdHeaders \union {None},
   timestamp: TimestampHeaders \union {None}, body: Bodies,
   signature: {None, Forged} \union signed]

Capabilities == {"hangup", "inbound-answer", "outbound-dial", "transfer", "message"}

(* Transfers and messages carry a destination or a text, which may be blank. *)
Operations ==
  [capability: {"hangup", "inbound-answer", "outbound-dial"}, tenantId: Tenants,
   sessionId: Sessions \union {None}, payload: {None}]
  \union
  [capability: {"transfer", "message"}, tenantId: Tenants,
   sessionId: Sessions \union {None}, payload: Payloads \union {None}]

(* The key names the capability and the session only. *)
IdempotencyKey(op) == <<op.capability, op.sessionId>>

PayloadHash(op) == op

-----------------------------------------------------------------------------
(* verifyWebhook *)

ValidTimestamp(m) ==
  /\ m.timestamp # None
  /\ m.timestamp.at + Tolerance >= now
  /\ m.timestamp.at <= now + Tolerance

SignatureMatches(m) ==
  /\ m.signature \in signed
  /\ PayloadOf(m.signature) = SignedPayload(m.timestamp, m.eventId, m.body)

(* The checks before the replay store is asked, in their order. *)
WebhookChecks(m) ==
  /\ config.mode = "sandbox"
  /\ config.strong
  /\ m.body.kind # "oversized"
  /\ m.contentType = "json"
  /\ m.eventId # None
  /\ ValidTimestamp(m)
  /\ SignatureMatches(m)

MutSkipReplayCheck(m) == WebhookChecks(m)

Valid(m) == WebhookChecks(m) /\ (config.replays => m.eventId \notin replayStore)

(* The replay store, where there is one, after m was found valid.            *)
Remembering(m) ==
  IF config.replays THEN replayStore \union {m.eventId} ELSE replayStore

(* A caller verifies a delivery and does nothing else with it. *)
VerifyWebhook(m) ==
  /\ replayStore' = IF Valid(m) THEN Remembering(m) ELSE replayStore
  /\ UNCHANGED <<config, now, life, signed, verified, normalized, operationVars>>

(* normalizeWebhook up to its await: the verification. A delivery that is    *)
(* refused ends there with no audit event.                                   *)
NormalizeVerify(m) ==
  /\ Valid(m)
  /\ replayStore' = Remembering(m)
  /\ verified' = verified \union {[m |-> m, at |-> now]}
  /\ UNCHANGED <<config, now, life, signed, normalized, operationVars>>

Supported(body) == body.kind = "call"

AuditEvent(v) ==
  [eventId |-> v.m.body.providerEventId, header |-> v.m.eventId,
   body |-> v.m.body, timestamp |-> v.m.timestamp.at,
   verifiedAt |-> v.at, occurredAt |-> now, life |-> life]

(* normalizeWebhook after its await: an unparseable body or an event type    *)
(* outside the supported set gives no audit event, though its id is spent.   *)
NormalizeParse(v) ==
  /\ v \in verified
  /\ verified' = verified \ {v}
  /\ normalized' = IF Supported(v.m.body) THEN normalized \union {AuditEvent(v)}
                                          ELSE normalized
  /\ UNCHANGED <<config, now, life, signed, replayStore, operationVars>>

-----------------------------------------------------------------------------
(* executeSandboxOperation and the five call and message operations *)

Refused == [accepted |-> FALSE, providerReference |-> None]

AcceptedResult(op) ==
  [accepted |-> TRUE, providerReference |-> <<op.capability, op.sessionId>>]

Answer(op, result) ==
  answers' = answers \union {[life |-> life, op |-> op, result |-> result]}

Blank(op) == op.capability \in {"transfer", "message"} /\ op.payload = None

(* What an operation with a key is answered, from the store; without a store *)
(* none of the keys is ever found.                                           *)
ExecuteSandboxOperation(op) ==
  LET key == IdempotencyKey(op)
  IN  IF key \notin DOMAIN operationStore THEN AcceptedResult(op)
      ELSE IF operationStore[key].payloadHash = PayloadHash(op)
           THEN operationStore[key].result
           ELSE Refused

(* remember is reached only when the key is new. *)
Remember(op, result) ==
  IF ~config.remembers THEN operationStore ELSE
  [key \in DOMAIN operationStore \union {IdempotencyKey(op)} |->
    IF key \in DOMAIN operationStore THEN operationStore[key]
    ELSE [payloadHash |-> PayloadHash(op), result |-> result]]

(* An operation that is answered without a look at the store. *)
RefusedAtOnce(op) == Blank(op) \/ config.mode # "sandbox" \/ op.sessionId = None

RequestOperation(op) ==
  LET result == IF RefusedAtOnce(op) THEN Refused ELSE ExecuteSandboxOperation(op)
  IN  /\ Cardinality(answers) < MaxAnswers
      /\ Answer(op, result)
      /\ operationStore' = IF RefusedAtOnce(op) THEN operationStore ELSE Remember(op, result)
      /\ UNCHANGED <<config, now, life, webhookVars>>

-----------------------------------------------------------------------------
(* The provider, the clock and the process *)

Sign(eventId, body) ==
  /\ Cardinality(signed) < MaxSigned
  /\ signed' = signed \union {[eventId |-> eventId, timestamp |-> now, body |-> body]}
  /\ UNCHANGED <<config, now, life, replayStore, verified, normalized, operationVars>>

Tick ==
  /\ now < MaxTime
  /\ now' = now + 1
  /\ UNCHANGED <<config, life, webhookVars, operationVars>>

Restart ==
  /\ life < MaxLives
  /\ life' = life + 1
  /\ replayStore' = {}
  /\ verified' = {}
  /\ operationStore' = <<>>
  /\ UNCHANGED <<config, now, signed, normalized, answers>>

Init ==
  /\ config \in Configurations
  /\ now = 0
  /\ life = 1
  /\ signed = {}
  /\ replayStore = {}
  /\ verified = {}
  /\ normalized = {}
  /\ operationStore = <<>>
  /\ answers = {}

Next ==
  \/ \E eventId \in EventIds, body \in Bodies: Sign(eventId, body)
  \/ \E m \in Deliveries: VerifyWebhook(m) \/ NormalizeVerify(m)
  \/ \E v \in verified: NormalizeParse(v)
  \/ \E op \in Operations: RequestOperation(op)
  \/ Tick
  \/ Restart

Spec == Init /\ [][Next]_vars

-----------------------------------------------------------------------------
(* The stores hold what this life remembered; an audit event comes from a    *)
(* delivery that was verified at or before it was parsed.                    *)
TypeOK ==
  /\ config \in Configurations
  /\ now \in Timestamps /\ life \in 1..MaxLives
  /\ signed \subseteq Signatures
  /\ replayStore \subseteq EventIdHeaders
  /\ \A v \in verified: v.at <= now /\ (config.replays => v.m.eventId \in replayStore)
  /\ \A e \in normalized: e.verifiedAt <= e.occurredAt /\ e.life <= life
  /\ \A key \in DOMAIN operationStore: key[1] \in Capabilities /\ key[2] \in Sessions
  /\ \A a \in answers: a.op \in Operations /\ a.life <= life

(* Whatever the network did to the deliveries, every audit event carries an  *)
(* event id, a timestamp and a body that the provider signed together.       *)
OnlySignedNormalized ==
  \A e \in normalized:
    [eventId |-> e.header.id, timestamp |-> e.timestamp, body |-> e.body] \in signed

(* Where there is a replay store, an event id header is normalized at most   *)
(* once within one process life, however often and however concurrently it   *)
(* is delivered: a signed message once as it was sent, and once more at most *)
(* with its fraction moved to the event id.                                  *)
NormalizedOncePerLife ==
  config.replays =>
    \A e, f \in normalized: e.life = f.life /\ e.header = f.header => e = f

(* A restart forgets the replay store, there may be none, and a message may  *)
(* come split anew, but the timestamp bounds the harm: all acceptances of one *)
(* signed message lie within twice the tolerance.                            *)
ReplayWindow ==
  \A e, f \in normalized:
    /\ e.header.id = f.header.id /\ e.timestamp = f.timestamp /\ e.body = f.body
    => e.verifiedAt <= f.verifiedAt + 2 * Tolerance

(* Within one life a repeated operation gets the answer it got before,       *)
(* whatever other operations and other tenants asked in between.             *)
AnswersAreStable ==
  \A a, b \in answers: a.life = b.life /\ a.op = b.op => a = b

(* Where there is an operation store, within one life one idempotency key    *)
(* stands for one accepted payload: a changed retry never makes a second     *)
(* provider action.                                                          *)
OneActionPerKey ==
  config.remembers =>
    \A a, b \in answers:
      /\ a.life = b.life /\ a.result.accepted /\ b.result.accepted
      /\ IdempotencyKey(a.op) = IdempotencyKey(b.op)
      => a.op = b.op

(* The sandbox provider is sound: nothing unsigned is normalized, no message is *)
(* outside the replay window, with the stores no header is normalized and no    *)
(* key acted on twice, and a repeated operation gets one answer                 *)
(* (verifyWebhook, normalizeWebhook, executeSandboxOperation).                  *)
SandboxIsSound ==
  TypeOK /\ OnlySignedNormalized /\ NormalizedOncePerLife /\ ReplayWindow
  /\ AnswersAreStable /\ OneActionPerKey

-----------------------------------------------------------------------------
(* The inductive invariant. A verified delivery that was not parsed yet is a  *)
(* signed message, still within the tolerance when it was verified, and with  *)
(* a replay store its header is this life's only claim to an audit event.     *)
VerifiedIsSigned ==
  \A v \in verified:
    /\ config.replays => v.m.eventId \in replayStore
    /\ v.m.timestamp.at \in Timestamps /\ v.at \in 0..now
    /\ [eventId |-> v.m.eventId.id, timestamp |-> v.m.timestamp.at, body |-> v.m.body]
         \in signed
    /\ v.at <= v.m.timestamp.at + Tolerance /\ v.m.timestamp.at <= v.at + Tolerance

NormalizedIsDated ==
  \A e \in normalized:
    /\ e.verifiedAt \in Timestamps /\ e.timestamp \in Timestamps /\ e.occurredAt \in Timestamps
    /\ e.life \in 1..life
    /\ e.verifiedAt <= e.timestamp + Tolerance /\ e.timestamp <= e.verifiedAt + Tolerance

IdIsSpentOnce ==
  config.replays =>
  /\ \A v, w \in verified: v.m.eventId = w.m.eventId => v = w
  /\ \A e \in normalized:
      e.life = life => e.header \in replayStore /\ \A v \in verified: v.m.eventId # e.header

(* What the store keeps under a key is the payload it was first asked with,  *)
(* and every answer of this life is the one the store still gives.           *)
StoreKeepsFirst ==
  /\ ~config.remembers => DOMAIN operationStore = {}
  /\ \A key \in DOMAIN operationStore:
       LET first == operationStore[key].payloadHash
       IN  /\ first \in Operations /\ first.sessionId \in Sessions
           /\ IdempotencyKey(first) = key
           /\ operationStore[key].result = AcceptedResult(first)

AnswersFollowStore ==
  \A a \in answers:
    /\ a = [life |-> a.life, op |-> a.op, result |-> a.result]
    /\ a.op \in Operations /\ a.life \in 1..life
    /\ a.life = life =>
        IF RefusedAtOnce(a.op) THEN a.result = Refused
        ELSE /\ config.remembers => IdempotencyKey(a.op) \in DOMAIN operationStore
             /\ a.result = ExecuteSandboxOperation(a.op)

IndInv ==
  /\ TypeOK /\ OnlySignedNormalized /\ NormalizedOncePerLife
  /\ VerifiedIsSigned /\ NormalizedIsDated /\ IdIsSpentOnce
  /\ StoreKeepsFirst /\ AnswersFollowStore
  /\ AnswersAreStable /\ OneActionPerKey
=============================================================================
