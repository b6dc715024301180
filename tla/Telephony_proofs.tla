-------------------------- MODULE Telephony_proofs --------------------------
(***************************************************************************)
(* Proofs about Telephony: whatever the network does with deliveries and   *)
(* callers with operations, across restarts, the provider is sound;        *)
(* however the tasks of the control plane interleave, its records agree;   *)
(* whatever is deployed in between, no call passes the gates unapproved;   *)
(* and whatever fails on the way of a visitor's request, what he is told   *)
(* and what is stored hang together.                                       *)
(***************************************************************************)
EXTENDS Telephony, Sequences, FiniteSetTheorems, NaturalsInduction, WellFoundedInduction, TLAPS

\* What the webhook half of the invariant rests on, and what the other half does.
WebhookInv ==
  /\ OnlySignedNormalized /\ NormalizedOncePerLife
  /\ VerifiedIsSigned /\ NormalizedIsDated /\ IdIsSpentOnce

OperationInv ==
  StoreKeepsFirst /\ AnswersFollowStore /\ AnswersAreStable /\ OneActionPerKey

LEMMA Halves == IndInv <=> TypeOK /\ WebhookInv /\ OperationInv
BY DEF IndInv, WebhookInv, OperationInv

-----------------------------------------------------------------------------
(***************************************************************************)
(* The parts of the type invariant that follow from the other half         *)
(***************************************************************************)

\* The remembered keys name a capability and a session.
LEMMA KeyType ==
  ASSUME NEW op \in Operations, op.sessionId # None
  PROVE  /\ op.sessionId \in Sessions
         /\ IdempotencyKey(op)[1] \in Capabilities /\ IdempotencyKey(op)[2] \in Sessions
BY DEF Operations, IdempotencyKey, Capabilities

\* The answers of one life follow from one store, so they agree.
AnswersOfLifeAgree ==
  \A a, b \in answers :
    (a.life = life /\ b.life = life) =>
      /\ a.op = b.op => a = b
      /\ (/\ config.remembers /\ a.result.accepted /\ b.result.accepted
          /\ IdempotencyKey(a.op) = IdempotencyKey(b.op)) => a.op = b.op

LEMMA AnswersAgree == AnswersFollowStore => AnswersOfLifeAgree
<1> SUFFICES ASSUME AnswersFollowStore, NEW a \in answers, NEW b \in answers,
                    a.life = life, b.life = life
             PROVE  /\ a.op = b.op => a = b
                    /\ (/\ config.remembers /\ a.result.accepted /\ b.result.accepted
                        /\ IdempotencyKey(a.op) = IdempotencyKey(b.op)) => a.op = b.op
  BY DEF AnswersOfLifeAgree
<1>1. /\ a = [life |-> a.life, op |-> a.op, result |-> a.result]
      /\ b = [life |-> b.life, op |-> b.op, result |-> b.result]
      /\ IF RefusedAtOnce(a.op) THEN a.result = Refused
         ELSE /\ config.remembers => IdempotencyKey(a.op) \in DOMAIN operationStore
              /\ a.result = ExecuteSandboxOperation(a.op)
      /\ IF RefusedAtOnce(b.op) THEN b.result = Refused
         ELSE /\ config.remembers => IdempotencyKey(b.op) \in DOMAIN operationStore
              /\ b.result = ExecuteSandboxOperation(b.op)
  BY DEF AnswersFollowStore
<1>2. a.op = b.op => a = b
  <2> SUFFICES ASSUME a.op = b.op PROVE a = b
    OBVIOUS
  <2>1. a.result = b.result
    BY <1>1
  <2> QED
    BY <1>1, <2>1
<1>3. ~Refused.accepted
  BY DEF Refused
<1>4. ASSUME NEW x \in answers, x.life = life, x.result.accepted, config.remembers
      PROVE  operationStore[IdempotencyKey(x.op)].payloadHash = x.op
  <2>1. /\ IdempotencyKey(x.op) \in DOMAIN operationStore
        /\ x.result = ExecuteSandboxOperation(x.op)
    BY <1>3, <1>4 DEF AnswersFollowStore
  <2> QED
    BY <1>3, <1>4, <2>1 DEF ExecuteSandboxOperation, PayloadHash
<1> QED
  BY <1>2, <1>4

LEMMA InitInv == Init => IndInv
<1> SUFFICES ASSUME Init PROVE IndInv
  OBVIOUS
<1>1. DOMAIN operationStore = {}
  BY DEF Init
<1>2. WebhookInv
  BY DEF Init, WebhookInv, OnlySignedNormalized, NormalizedOncePerLife, VerifiedIsSigned,
         NormalizedIsDated, IdIsSpentOnce
<1>3. OperationInv
  BY <1>1 DEF Init, OperationInv, StoreKeepsFirst, AnswersFollowStore, AnswersAreStable,
              OneActionPerKey
<1>4. TypeOK
  BY <1>1, SandboxAssumption DEF Init, TypeOK, Timestamps
<1> QED
  BY <1>2, <1>3, <1>4, Halves

-----------------------------------------------------------------------------
(***************************************************************************)
(* Steps that leave one half alone                                         *)
(***************************************************************************)

\* The operations' half depends on the configuration, the life and its own
\* variables only.
LEMMA OperationsUntouched ==
  ASSUME OperationInv, UNCHANGED <<config, life, operationVars>>
  PROVE  OperationInv'
<1>1. /\ operationStore' = operationStore /\ answers' = answers /\ life' = life /\ config' = config
  BY DEF operationVars
<1>2. \A op : /\ RefusedAtOnce(op)' = RefusedAtOnce(op)
              /\ ExecuteSandboxOperation(op)' = ExecuteSandboxOperation(op)
  BY <1>1 DEF RefusedAtOnce, ExecuteSandboxOperation, Blank, IdempotencyKey, AcceptedResult,
              PayloadHash, Refused
<1>3. StoreKeepsFirst'
  BY <1>1 DEF OperationInv, StoreKeepsFirst, IdempotencyKey, AcceptedResult
<1>4. AnswersFollowStore'
  BY <1>1 DEF OperationInv, AnswersFollowStore, RefusedAtOnce, ExecuteSandboxOperation, Blank,
              IdempotencyKey, AcceptedResult, PayloadHash, Refused
<1> QED
  BY <1>1, <1>3, <1>4 DEF OperationInv, AnswersAreStable, OneActionPerKey, IdempotencyKey

\* The webhooks' half depends on the configuration, the life, the clock and its own variables only,
\* and a later clock does it no harm.
LEMMA WebhooksUntouched ==
  ASSUME WebhookInv, UNCHANGED <<config, life, webhookVars>>, now \in Nat, now' \in Nat, now' >= now
  PROVE  WebhookInv'
BY DEF WebhookInv, webhookVars, OnlySignedNormalized, NormalizedOncePerLife, VerifiedIsSigned,
       NormalizedIsDated, IdIsSpentOnce

-----------------------------------------------------------------------------
(***************************************************************************)
(* Webhooks                                                                *)
(***************************************************************************)

\* A delivery that passes the checks is a signed message around its own
\* signature, within the tolerance of the clock.
LEMMA ValidIsSigned ==
  ASSUME TypeOK, NEW m \in Deliveries, Valid(m)
  PROVE  /\ m.eventId \in EventIdHeaders /\ (config.replays => m.eventId \notin replayStore)
         /\ m.timestamp.at \in Timestamps
         /\ [eventId |-> m.eventId.id, timestamp |-> m.timestamp.at, body |-> m.body] \in signed
         /\ now <= m.timestamp.at + Tolerance /\ m.timestamp.at <= now + Tolerance
<1>1. m.eventId \in EventIdHeaders \union {None} /\ m.timestamp \in TimestampHeaders \union {None}
  BY DEF Deliveries
<1>2. m.eventId \in EventIdHeaders /\ m.timestamp \in TimestampHeaders
  BY <1>1 DEF Valid, WebhookChecks, ValidTimestamp
<1>3. m.timestamp.at \in Timestamps
  BY <1>2 DEF TimestampHeaders
<1>4. m.signature \in signed /\ m.signature \in Signatures
  BY DEF Valid, WebhookChecks, SignatureMatches, TypeOK
<1>5. PayloadOf(m.signature) = SignedPayload(m.timestamp, m.eventId, m.body)
  BY DEF Valid, WebhookChecks, SignatureMatches
<1>6. /\ m.signature.eventId = m.eventId.id /\ m.signature.timestamp = m.timestamp.at
      /\ m.signature.body = m.body
  BY <1>5 DEF PayloadOf, SignedPayload
<1>7. m.signature = [eventId |-> m.eventId.id, timestamp |-> m.timestamp.at, body |-> m.body]
  BY <1>4, <1>6 DEF Signatures
<1>8. now <= m.timestamp.at + Tolerance /\ m.timestamp.at <= now + Tolerance
  BY <1>3, SandboxAssumption DEF Valid, WebhookChecks, ValidTimestamp, TypeOK, Timestamps
<1> QED
  BY <1>2, <1>3, <1>4, <1>7, <1>8 DEF Valid

LEMMA SignInv ==
  ASSUME IndInv, NEW eventId \in EventIds, NEW body \in Bodies, Sign(eventId, body)
  PROVE  IndInv'
<1>1. OperationInv'
  BY OperationsUntouched, Halves DEF Sign
<1>2. signed \subseteq signed' /\ signed' \subseteq Signatures
  BY DEF Sign, IndInv, TypeOK, Signatures
<1>3. WebhookInv'
  BY <1>2 DEF Sign, IndInv, WebhookInv, OnlySignedNormalized, NormalizedOncePerLife,
              VerifiedIsSigned, NormalizedIsDated, IdIsSpentOnce
<1>4. TypeOK'
  BY <1>2 DEF Sign, IndInv, TypeOK, operationVars
<1> QED
  BY <1>1, <1>3, <1>4, Halves DEF IndInv, WebhookInv, OperationInv

LEMMA VerifyWebhookInv ==
  ASSUME IndInv, NEW m \in Deliveries, VerifyWebhook(m)
  PROVE  IndInv'
<1>1. OperationInv'
  BY OperationsUntouched, Halves DEF VerifyWebhook
<1>2. replayStore \subseteq replayStore' /\ replayStore' \subseteq EventIdHeaders
  BY ValidIsSigned DEF VerifyWebhook, Remembering, IndInv, TypeOK
<1>3. WebhookInv'
  BY <1>2 DEF VerifyWebhook, IndInv, WebhookInv, OnlySignedNormalized, NormalizedOncePerLife,
              VerifiedIsSigned, NormalizedIsDated, IdIsSpentOnce
<1>4. TypeOK'
  BY <1>2 DEF VerifyWebhook, IndInv, TypeOK, operationVars
<1> QED
  BY <1>1, <1>3, <1>4 DEF IndInv, WebhookInv, OperationInv

\* The id is remembered in the step that verifies: no other delivery of it is
\* verified or normalized in this life.
LEMMA NormalizeVerifyInv ==
  ASSUME IndInv, NEW m \in Deliveries, NormalizeVerify(m)
  PROVE  IndInv'
<1>1. OperationInv'
  BY OperationsUntouched, Halves DEF NormalizeVerify
<1> DEFINE v == [m |-> m, at |-> now]
<1>2. /\ m.eventId \in EventIdHeaders /\ (config.replays => m.eventId \notin replayStore)
      /\ m.timestamp.at \in Timestamps
      /\ [eventId |-> m.eventId.id, timestamp |-> m.timestamp.at, body |-> m.body] \in signed
      /\ now <= m.timestamp.at + Tolerance /\ m.timestamp.at <= now + Tolerance
  BY ValidIsSigned DEF NormalizeVerify, IndInv
<1>3. /\ replayStore \subseteq replayStore' /\ replayStore' \subseteq replayStore \union {m.eventId}
      /\ config.replays => m.eventId \in replayStore'
      /\ verified' = verified \union {v}
      /\ UNCHANGED <<config, now, life, signed, normalized>>
  BY DEF NormalizeVerify, Remembering
<1>4. now \in Nat
  BY SandboxAssumption DEF IndInv, TypeOK, Timestamps
<1>5. v.m = m /\ v.at = now
  OBVIOUS
<1> HIDE DEF v
<1>6. VerifiedIsSigned'
  <2> SUFFICES ASSUME NEW u \in verified'
               PROVE  /\ config'.replays => u.m.eventId \in replayStore'
                      /\ u.m.timestamp.at \in Timestamps
                      /\ u.at \in 0..now'
                      /\ [eventId |-> u.m.eventId.id, timestamp |-> u.m.timestamp.at,
                          body |-> u.m.body] \in signed'
                      /\ u.at <= u.m.timestamp.at + Tolerance /\ u.m.timestamp.at <= u.at + Tolerance
    BY DEF VerifiedIsSigned, Timestamps
  <2>1. CASE u \in verified
    BY <1>3, <2>1 DEF IndInv, VerifiedIsSigned
  <2>2. CASE u = v
    BY <1>2, <1>3, <1>4, <1>5, <2>2
  <2> QED
    BY <1>3, <2>1, <2>2
<1>7. IdIsSpentOnce'
  BY <1>2, <1>3, <1>5 DEF IndInv, IdIsSpentOnce, VerifiedIsSigned
<1>8. OnlySignedNormalized' /\ NormalizedOncePerLife' /\ NormalizedIsDated'
  BY <1>3 DEF IndInv, OnlySignedNormalized, NormalizedOncePerLife, NormalizedIsDated
<1>9. TypeOK'
  BY <1>2, <1>3, <1>4, <1>5 DEF IndInv, TypeOK, NormalizeVerify, operationVars
<1> QED
  BY <1>1, <1>6, <1>7, <1>8, <1>9 DEF IndInv, OperationInv

\* The parse makes the only audit event of its id.
LEMMA NormalizeParseInv ==
  ASSUME IndInv, NEW v \in verified, NormalizeParse(v)
  PROVE  IndInv'
<1>1. OperationInv'
  BY OperationsUntouched, Halves DEF NormalizeParse
<1> DEFINE e == AuditEvent(v)
<1>2. /\ verified' = verified \ {v}
      /\ normalized' \subseteq normalized \union {e}
      /\ UNCHANGED <<config, now, life, signed, replayStore>>
  BY DEF NormalizeParse
<1>3. /\ e.header = v.m.eventId /\ e.body = v.m.body /\ e.timestamp = v.m.timestamp.at
      /\ e.verifiedAt = v.at /\ e.occurredAt = now /\ e.life = life
  BY DEF AuditEvent
<1>4. /\ config.replays => v.m.eventId \in replayStore
      /\ v.m.timestamp.at \in Timestamps /\ v.at \in 0..now
      /\ [eventId |-> v.m.eventId.id, timestamp |-> v.m.timestamp.at, body |-> v.m.body] \in signed
      /\ v.at <= v.m.timestamp.at + Tolerance /\ v.m.timestamp.at <= v.at + Tolerance
  BY DEF IndInv, VerifiedIsSigned
<1>5. now \in Timestamps /\ life \in 1..MaxLives /\ now \in Nat /\ life \in Nat
  BY SandboxAssumption DEF IndInv, TypeOK, Timestamps
<1>6. v.at \in Timestamps /\ v.at <= now
  BY <1>4, <1>5, SandboxAssumption DEF Timestamps
<1> HIDE DEF e
<1>7. OnlySignedNormalized'
  BY <1>2, <1>3, <1>4 DEF IndInv, OnlySignedNormalized
<1>8. NormalizedOncePerLife'
  BY <1>2, <1>3 DEF IndInv, NormalizedOncePerLife, IdIsSpentOnce
<1>9. VerifiedIsSigned'
  BY <1>2 DEF IndInv, VerifiedIsSigned
<1>10. NormalizedIsDated'
  BY <1>2, <1>3, <1>4, <1>5, <1>6 DEF IndInv, NormalizedIsDated
<1>11. IdIsSpentOnce'
  BY <1>2, <1>3, <1>4 DEF IndInv, IdIsSpentOnce
<1>12. TypeOK'
  BY <1>2, <1>3, <1>5, <1>6 DEF IndInv, TypeOK, NormalizeParse, operationVars
<1> QED
  BY <1>1, <1>7, <1>8, <1>9, <1>10, <1>11, <1>12 DEF IndInv, OperationInv

-----------------------------------------------------------------------------
(***************************************************************************)
(* Operations                                                              *)
(***************************************************************************)

\* What is remembered is the first payload of its key, and nothing else moves.
LEMMA RememberKeeps ==
  ASSUME IndInv, NEW op \in Operations, ~RefusedAtOnce(op)
  PROVE  LET key == IdempotencyKey(op)
             store == Remember(op, ExecuteSandboxOperation(op))
         IN  /\ DOMAIN store = IF config.remembers THEN DOMAIN operationStore \union {key}
                               ELSE DOMAIN operationStore
             /\ \A k \in DOMAIN operationStore : store[k] = operationStore[k]
             /\ config.remembers /\ key \notin DOMAIN operationStore =>
                  store[key] = [payloadHash |-> op, result |-> AcceptedResult(op)]
BY DEF Remember, ExecuteSandboxOperation, PayloadHash

\* Every answer the store has given so far it gives again, and it has one for
\* the operation that was asked.
LEMMA RequestOperationInv ==
  ASSUME IndInv, NEW op \in Operations, RequestOperation(op)
  PROVE  IndInv'
<1> DEFINE result == IF RefusedAtOnce(op) THEN Refused ELSE ExecuteSandboxOperation(op)
           answer == [life |-> life, op |-> op, result |-> result]
           key == IdempotencyKey(op)
<1>1. /\ answers' = answers \union {answer}
      /\ operationStore' = IF RefusedAtOnce(op) THEN operationStore ELSE Remember(op, result)
      /\ UNCHANGED <<config, now, life, webhookVars>>
  BY DEF RequestOperation, Answer
<1>2. /\ DOMAIN operationStore \subseteq DOMAIN operationStore'
      /\ \A k \in DOMAIN operationStore : operationStore'[k] = operationStore[k]
      /\ ~RefusedAtOnce(op) /\ config.remembers =>
           /\ DOMAIN operationStore' = DOMAIN operationStore \union {key}
           /\ key \notin DOMAIN operationStore =>
                operationStore'[key] = [payloadHash |-> op, result |-> AcceptedResult(op)]
      /\ RefusedAtOnce(op) \/ ~config.remembers => operationStore' = operationStore
  BY <1>1, RememberKeeps DEF Remember
<1>3. answer.life = life /\ answer.op = op /\ answer.result = result
  OBVIOUS
<1>4. now \in Nat /\ life \in 1..life
  BY SandboxAssumption DEF IndInv, TypeOK, Timestamps
<1>5. WebhookInv'
  BY <1>1, <1>4, WebhooksUntouched, Halves
<1>6. ~RefusedAtOnce(op) => op.sessionId \in Sessions
  BY KeyType DEF RefusedAtOnce
<1>7. StoreKeepsFirst'
  <2> SUFFICES ASSUME NEW k \in DOMAIN operationStore'
               PROVE  LET first == operationStore'[k].payloadHash
                      IN  /\ first \in Operations /\ first.sessionId \in Sessions
                          /\ IdempotencyKey(first) = k
                          /\ operationStore'[k].result = AcceptedResult(first)
    BY <1>1, <1>2 DEF StoreKeepsFirst, IdempotencyKey, AcceptedResult, IndInv
  <2>1. CASE k \in DOMAIN operationStore
    BY <1>2, <2>1 DEF IndInv, StoreKeepsFirst
  <2>2. CASE k \notin DOMAIN operationStore
    <3>1. ~RefusedAtOnce(op) /\ k = key /\ operationStore'[k].payloadHash = op
          /\ operationStore'[k].result = AcceptedResult(op)
      BY <1>2, <2>2
    <3> QED
      BY <1>6, <3>1
  <2> QED
    BY <2>1, <2>2
<1>8. \A o : RefusedAtOnce(o)' = RefusedAtOnce(o)
  BY <1>1 DEF RefusedAtOnce, Blank
<1>9. \A o : IdempotencyKey(o) \in DOMAIN operationStore \/ ~config.remembers =>
                ExecuteSandboxOperation(o)' = ExecuteSandboxOperation(o)
  BY <1>2 DEF ExecuteSandboxOperation, IdempotencyKey, PayloadHash, AcceptedResult, Refused
<1>10. ~RefusedAtOnce(op) => /\ config.remembers => key \in DOMAIN operationStore'
                             /\ result = ExecuteSandboxOperation(op)'
  <2>1. CASE key \in DOMAIN operationStore \/ ~config.remembers
    BY <1>2, <1>9, <2>1
  <2>2. CASE ~RefusedAtOnce(op) /\ key \notin DOMAIN operationStore /\ config.remembers
    <3>1. result = AcceptedResult(op)
      BY <2>2 DEF ExecuteSandboxOperation
    <3>2. /\ key \in DOMAIN operationStore' /\ operationStore'[key].payloadHash = op
          /\ operationStore'[key].result = AcceptedResult(op)
      BY <1>2, <2>2
    <3>3. ExecuteSandboxOperation(op)' = AcceptedResult(op)
      BY <3>2 DEF ExecuteSandboxOperation, PayloadHash, IdempotencyKey
    <3> QED
      BY <3>1, <3>2, <3>3
  <2> QED
    BY <2>1, <2>2
<1> HIDE DEF result, answer
<1>11. AnswersFollowStore'
  <2> SUFFICES ASSUME NEW a \in answers'
               PROVE  /\ a = [life |-> a.life, op |-> a.op, result |-> a.result]
                      /\ a.op \in Operations /\ a.life \in 1..life'
                      /\ a.life = life' =>
                          IF RefusedAtOnce(a.op)' THEN a.result = Refused
                          ELSE /\ config'.remembers => IdempotencyKey(a.op) \in DOMAIN operationStore'
                               /\ a.result = ExecuteSandboxOperation(a.op)'
    BY DEF AnswersFollowStore, IdempotencyKey, Refused, RefusedAtOnce, Blank,
           ExecuteSandboxOperation, PayloadHash, AcceptedResult
  <2>1. CASE a \in answers
    <3>1. /\ a = [life |-> a.life, op |-> a.op, result |-> a.result]
          /\ a.op \in Operations /\ a.life \in 1..life
          /\ a.life = life =>
              IF RefusedAtOnce(a.op) THEN a.result = Refused
              ELSE /\ config.remembers => IdempotencyKey(a.op) \in DOMAIN operationStore
                   /\ a.result = ExecuteSandboxOperation(a.op)
      BY <2>1 DEF IndInv, AnswersFollowStore
    <3> QED
      BY <1>1, <1>2, <1>8, <1>9, <3>1
  <2>2. CASE a = answer
    <3>1. RefusedAtOnce(op) => result = Refused
      BY DEF result
    <3>2. a = [life |-> a.life, op |-> a.op, result |-> a.result]
      BY <2>2 DEF answer
    <3> QED
      BY <1>1, <1>3, <1>4, <1>8, <1>10, <2>2, <3>1, <3>2
  <2> QED
    BY <1>1, <2>1, <2>2
<1>12. AnswersOfLifeAgree'
  BY <1>11, AnswersAgree, PTL
<1>13. \A a \in answers' : a.life # life => a \in answers
  BY <1>1, <1>3
<1>14. AnswersAreStable'
  BY <1>1, <1>12, <1>13 DEF AnswersOfLifeAgree, AnswersAreStable, IndInv
<1>15. OneActionPerKey'
  BY <1>1, <1>12, <1>13 DEF AnswersOfLifeAgree, OneActionPerKey, IdempotencyKey, IndInv
<1>16. TypeOK'
  <2>1. \A k \in DOMAIN operationStore' : k[1] \in Capabilities /\ k[2] \in Sessions
    <3> SUFFICES ASSUME NEW k \in DOMAIN operationStore'
                 PROVE  k[1] \in Capabilities /\ k[2] \in Sessions
      OBVIOUS
    <3>1. CASE k \in DOMAIN operationStore
      BY <3>1 DEF IndInv, TypeOK
    <3>2. CASE ~RefusedAtOnce(op) /\ k = key
      BY <3>2, KeyType DEF RefusedAtOnce
    <3> QED
      BY <1>2, <3>1, <3>2
  <2>2. \A a \in answers' : a.op \in Operations /\ a.life <= life'
    BY <1>1, <1>3, <1>4 DEF IndInv, TypeOK
  <2> QED
    BY <1>1, <2>1, <2>2 DEF IndInv, TypeOK, webhookVars
<1> QED
  BY <1>5, <1>7, <1>11, <1>14, <1>15, <1>16 DEF IndInv, WebhookInv

-----------------------------------------------------------------------------
(***************************************************************************)
(* The clock and the process                                               *)
(***************************************************************************)

LEMMA TickInv ==
  ASSUME IndInv, Tick
  PROVE  IndInv'
<1>1. now \in Nat /\ now' \in Timestamps /\ now' = now + 1
  BY SandboxAssumption DEF IndInv, TypeOK, Timestamps, Tick
<1>2. WebhookInv'
  BY <1>1, WebhooksUntouched, Halves DEF Tick
<1>3. OperationInv'
  BY OperationsUntouched, Halves DEF Tick
<1>4. \A v \in verified : v.at <= now'
  <2> SUFFICES ASSUME NEW v \in verified PROVE v.at <= now'
    OBVIOUS
  <2>1. v.at \in 0..now
    BY DEF IndInv, VerifiedIsSigned
  <2> QED
    BY <1>1, <2>1
<1>5. TypeOK'
  BY <1>1, <1>4 DEF IndInv, TypeOK, Tick, webhookVars, operationVars
<1> QED
  BY <1>2, <1>3, <1>5 DEF IndInv, WebhookInv, OperationInv

\* The new life starts with empty stores, and what came before is of earlier ones.
LEMMA RestartInv ==
  ASSUME IndInv, Restart
  PROVE  IndInv'
<1>1. /\ life' = life + 1 /\ life' \in 1..MaxLives /\ life \in Nat
      /\ replayStore' = {} /\ verified' = {} /\ DOMAIN operationStore' = {}
      /\ UNCHANGED <<config, now, signed, normalized, answers>>
  BY SandboxAssumption DEF IndInv, TypeOK, Restart
<1>2. \A e \in normalized : e.life \in 1..life' /\ e.life # life'
  BY <1>1 DEF IndInv, NormalizedIsDated
<1>3. \A a \in answers : a.life \in 1..life' /\ a.life # life'
  BY <1>1 DEF IndInv, AnswersFollowStore
<1>4. OnlySignedNormalized' /\ NormalizedOncePerLife' /\ VerifiedIsSigned'
  BY <1>1 DEF IndInv, OnlySignedNormalized, NormalizedOncePerLife, VerifiedIsSigned
<1>5. NormalizedIsDated' /\ IdIsSpentOnce'
  BY <1>1, <1>2 DEF IndInv, NormalizedIsDated, IdIsSpentOnce
<1>6. StoreKeepsFirst' /\ AnswersFollowStore'
  BY <1>1, <1>3 DEF IndInv, StoreKeepsFirst, AnswersFollowStore
<1>7. AnswersAreStable' /\ OneActionPerKey'
  BY <1>1 DEF IndInv, AnswersAreStable, OneActionPerKey, IdempotencyKey
<1>8. TypeOK'
  BY <1>1, <1>2, <1>3 DEF IndInv, TypeOK
<1> QED
  BY <1>4, <1>5, <1>6, <1>7, <1>8 DEF IndInv

LEMMA NextInv ==
  ASSUME IndInv, [Next]_vars
  PROVE  IndInv'
<1>1. CASE UNCHANGED vars
  <2>1. now \in Nat
    BY SandboxAssumption DEF IndInv, TypeOK, Timestamps
  <2>2. WebhookInv' /\ OperationInv'
    BY <1>1, <2>1, WebhooksUntouched, OperationsUntouched, Halves DEF vars
  <2>3. TypeOK'
    BY <1>1 DEF vars, webhookVars, operationVars, IndInv, TypeOK
  <2> QED
    BY <2>2, <2>3 DEF IndInv, WebhookInv, OperationInv
<1>2. CASE Next
  BY <1>2, SignInv, VerifyWebhookInv, NormalizeVerifyInv, NormalizeParseInv,
     RequestOperationInv, TickInv, RestartInv DEF Next
<1> QED
  BY <1>1, <1>2

\* The invariant holds across deliveries, operations and restarts.
THEOREM InvariantHolds == Spec => []IndInv
<1>1. Init => IndInv
  BY InitInv
<1>2. IndInv /\ [Next]_vars => IndInv'
  BY NextInv
<1> QED
  BY <1>1, <1>2, PTL DEF Spec

\* Two acceptances of one timestamp are both within the tolerance of it.
LEMMA WindowFollows == IndInv => ReplayWindow
<1> SUFFICES ASSUME IndInv, NEW e \in normalized, NEW f \in normalized,
                    e.timestamp = f.timestamp
             PROVE  e.verifiedAt <= f.verifiedAt + 2 * Tolerance
  BY DEF ReplayWindow
<1>1. /\ e.verifiedAt \in Nat /\ f.verifiedAt \in Nat /\ e.timestamp \in Nat
      /\ e.verifiedAt <= e.timestamp + Tolerance
      /\ f.timestamp <= f.verifiedAt + Tolerance
  BY SandboxAssumption DEF IndInv, NormalizedIsDated, Timestamps
<1> QED
  BY <1>1, SandboxAssumption

\* The sandbox provider is sound (verifyWebhook, normalizeWebhook,
\* executeSandboxOperation), for any tolerance and any number of event ids,
\* sessions, tenants, restarts and deliveries.
THEOREM ProviderIsSound == Spec => []SandboxIsSound
<1>1. IndInv => SandboxIsSound
  BY WindowFollows DEF IndInv, SandboxIsSound
<1> QED
  BY <1>1, InvariantHolds, PTL

-----------------------------------------------------------------------------
(* Plane: the steps of a task.                                                *)

(* The fields each kind of step has.                                          *)
LEMMA StepForms ==
  ASSUME NEW x \in Plane!Steps
  PROVE  /\ x = Plane!Idle <=> x.at = "idle"
         /\ x.at \in {"audit", "usage"} => x.session \in SessionIds
         /\ x.at = "followUpAudit" => x.id \in CallbackIds \cup AppointmentIds
<1>1. CASE x = Plane!Idle
  BY <1>1 DEF Plane!Idle
<1>2. CASE x \in [at: {"audit", "usage"}, session: SessionIds]
  BY <1>2 DEF Plane!Idle
<1>3. CASE x \in [at: {"followUpAudit"}, id: CallbackIds \cup AppointmentIds]
  BY <1>3 DEF Plane!Idle
<1> QED
  BY <1>1, <1>2, <1>3 DEF Plane!Steps

(* A session built from its fields has them.                                  *)
LEMMA SessionFields ==
  ASSUME NEW n \in Tenants, NEW q \in Plane!CallStates
  PROVE  Plane!Session(n, q) \in Plane!SessionRecord
BY DEF Plane!Session, Plane!SessionRecord

LEMMA NoneIsNoRecord == None \notin Plane!SessionRecord
BY PlaneConstants DEF Plane!ConstantsAssumed, Plane!SessionRecord

(* The state the requests name is a state of a call.                          *)
LEMMA StatesNamed == "requested" \in Plane!CallStates
BY DEF Plane!CallStates, Plane!CallTransitions

(* What Goto does to the steps.                                               *)
LEMMA GotoGoes ==
  ASSUME task \in [Tasks -> Plane!Steps], NEW t \in Tasks, NEW step \in Plane!Steps,
         Plane!Goto(t, step)
  PROVE  /\ task' \in [Tasks -> Plane!Steps]
         /\ task'[t] = step
         /\ \A u \in Tasks: u # t => task'[u] = task[u]
BY DEF Plane!Goto

-----------------------------------------------------------------------------
(* The frames: what a step of one task leaves of each part of the invariant.  *)

(* Writes only add: every step keeps what it rests on.                        *)
LEMMA StepsKeepTheirWrites ==
  ASSUME Plane!StepsFollowWrites, task \in [Tasks -> Plane!Steps],
         NEW t \in Tasks, NEW step \in Plane!Steps, Plane!Goto(t, step),
         \A s \in SessionIds: sessions[s] # None => sessions'[s] # None,
         \A c \in CallbackIds: callbacks[c] # None => callbacks'[c] # None,
         \A a \in AppointmentIds: appointments[a] # None => appointments'[a] # None,
         auditEvents \subseteq auditEvents',
         Plane!FollowsWrites(step)'
  PROVE  Plane!StepsFollowWrites'
<1>1. task'[t] = step /\ \A u \in Tasks: u # t => task'[u] = task[u]
  BY GotoGoes
<1>2. ASSUME NEW u \in Tasks, u # t
      PROVE  Plane!FollowsWrites(task[u])'
  <2>1. Plane!FollowsWrites(task[u]) /\ task[u] \in Plane!Steps /\ task'[u] = task[u]
    BY <1>1, <1>2 DEF Plane!StepsFollowWrites
  <2> DEFINE x == task[u]
  <2>2. x \in Plane!Steps /\ Plane!FollowsWrites(x) /\ task'[u] = x
    BY <2>1
  <2> HIDE DEF x
  <2>3. /\ x.at \in {"audit", "usage"} => x.session \in SessionIds
        /\ x.at = "followUpAudit" => x.id \in CallbackIds \cup AppointmentIds
    BY <2>2, StepForms
  <2>4. Plane!FollowsWrites(task[u])'
    BY <2>2, <2>3 DEF Plane!FollowsWrites
  <2> QED
    BY <2>4
<1>3. \A u \in Tasks: Plane!FollowsWrites(task[u])'
  <2> TAKE u \in Tasks
  <2>1. CASE u = t
    BY <1>1, <2>1 DEF Plane!FollowsWrites
  <2>2. CASE u # t
    BY <1>2, <2>2
  <2> QED
    BY <2>1, <2>2
<1> QED
  BY <1>3 DEF Plane!StepsFollowWrites

(* Where nothing is accepted, what was accepted stays marked.                 *)
LEMMA AcceptancesKept ==
  ASSUME Plane!AcceptancesAreMarked, Plane!AcceptedOncePerId, Plane!AcceptedOncePerKey,
         UNCHANGED <<commandKeys, accepted, outcomes>>,
         usageEntries \subseteq usageEntries', auditEvents \subseteq auditEvents'
  PROVE  Plane!AcceptancesAreMarked' /\ Plane!AcceptedOncePerId' /\ Plane!AcceptedOncePerKey'
<1>1. Plane!AcceptedOncePerId' /\ Plane!AcceptedOncePerKey'
  BY DEF Plane!AcceptedOncePerId, Plane!AcceptedOncePerKey
<1>2. Plane!AcceptancesAreMarked'
  BY DEF Plane!AcceptancesAreMarked
<1> QED
  BY <1>1, <1>2

-----------------------------------------------------------------------------
(* Plane: the inductive invariant, one action at a time.                      *)

LEMMA PlaneInit == Plane!Init => Plane!IndInv
<1> SUFFICES ASSUME Plane!Init PROVE Plane!IndInv
  OBVIOUS
<1>1. Plane!Idle \in Plane!Steps
  BY DEF Plane!Steps
<1>2. Plane!RecordsAreWhole
  BY <1>1 DEF Plane!Init, Plane!RecordsAreWhole
<1>3. Plane!StepsFollowWrites /\ Plane!LedgerFollowsAudit /\ Plane!AcceptancesAreMarked
      /\ Plane!AcceptedOncePerId /\ Plane!AcceptedOncePerKey
  BY DEF Plane!Init, Plane!StepsFollowWrites, Plane!FollowsWrites, Plane!Idle,
     Plane!LedgerFollowsAudit, Plane!AcceptancesAreMarked,
         Plane!AcceptedOncePerId, Plane!AcceptedOncePerKey
<1> QED
  BY <1>2, <1>3 DEF Plane!IndInv

LEMMA SaveRequestedSessionStep ==
  ASSUME Plane!IndInv, NEW t \in Tasks, NEW tenant \in Tenants, NEW s \in SessionIds,
         Plane!SaveRequestedSession(t, tenant, s)
  PROVE  Plane!IndInv'
<1> DEFINE row == Plane!Session(tenant, "requested")
           step == [at |-> "audit", session |-> s]
<1>1. row \in Plane!SessionRecord /\ row # None
  BY SessionFields, StatesNamed, NoneIsNoRecord
<1>2. /\ step \in Plane!Steps /\ step # Plane!Idle /\ step.at = "audit" /\ step.session = s
  BY DEF Plane!Steps, Plane!Idle
<1>3. /\ sessions' = [sessions EXCEPT ![s] = row]
      /\ task[t] = Plane!Idle /\ Plane!Goto(t, step)
      /\ UNCHANGED <<callbacks, appointments, auditEvents, usageEntries, commandKeys, accepted,
         outcomes>>
  BY DEF Plane!SaveRequestedSession
<1>4. Plane!RecordsAreWhole
  BY DEF Plane!IndInv
<1> HIDE DEF row, step
<1>5. sessions'[s] = row /\ \A r \in SessionIds: r # s => sessions'[r] = sessions[r]
  BY <1>3, <1>4 DEF Plane!RecordsAreWhole
<1>6. task' \in [Tasks -> Plane!Steps]
  BY <1>2, <1>3, <1>4, GotoGoes DEF Plane!RecordsAreWhole
<1>7. Plane!RecordsAreWhole'
  BY <1>1, <1>3, <1>4, <1>6 DEF Plane!RecordsAreWhole
<1>8. Plane!StepsFollowWrites'
  <2>1. Plane!FollowsWrites(step)'
    BY <1>1, <1>2, <1>5 DEF Plane!FollowsWrites
  <2> QED
    BY <1>1, <1>2, <1>3, <1>4, <1>5, <2>1, StepsKeepTheirWrites DEF Plane!IndInv,
       Plane!RecordsAreWhole
<1>9. Plane!LedgerFollowsAudit'
  BY <1>1, <1>3, <1>5 DEF Plane!IndInv, Plane!LedgerFollowsAudit
<1>10. Plane!AcceptancesAreMarked' /\ Plane!AcceptedOncePerId' /\ Plane!AcceptedOncePerKey'
  BY <1>3, AcceptancesKept DEF Plane!IndInv
<1> QED
  BY <1>7, <1>8, <1>9, <1>10 DEF Plane!IndInv

(* A step that writes no session keeps the depths, and moves one task.        *)
LEMMA AppendRequestedEventStep ==
  ASSUME Plane!IndInv, NEW t \in Tasks, Plane!AppendRequestedEvent(t)
  PROVE  Plane!IndInv'
<1>1. /\ task[t].at = "audit" /\ auditEvents' = auditEvents \cup {task[t].session}
      /\ Plane!Goto(t, IF task[t].session \in auditEvents THEN Plane!Idle
                 ELSE [at |-> "usage", session |-> task[t].session])
      /\ UNCHANGED <<sessions, callbacks, appointments, usageEntries, commandKeys, accepted,
         outcomes>>
  BY DEF Plane!AppendRequestedEvent
<1>2. Plane!RecordsAreWhole
  BY DEF Plane!IndInv
<1>3. task[t] \in Plane!Steps /\ task[t] # Plane!Idle /\ task[t].session \in SessionIds
  BY <1>1, <1>2, StepForms DEF Plane!RecordsAreWhole, Plane!Idle
<1>s. PICK s \in SessionIds: s = task[t].session
  BY <1>3
<1>4. sessions[s] # None
  BY <1>1, <1>3, <1>s DEF Plane!IndInv, Plane!StepsFollowWrites, Plane!FollowsWrites
<1>5. PICK step \in Plane!Steps:
         /\ Plane!Goto(t, step) /\ auditEvents' = auditEvents \cup {s}
         /\ step.at \in {"idle", "usage"}
         /\ step.at = "usage" => step.session = s
  <2>1. Plane!Idle \in Plane!Steps /\ Plane!Idle.at = "idle"
    BY DEF Plane!Steps, Plane!Idle
  <2>2. [at |-> "usage", session |-> s] \in Plane!Steps
    BY DEF Plane!Steps
  <2>3. CASE s \in auditEvents
    BY <1>1, <1>s, <2>1, <2>3
  <2>4. CASE s \notin auditEvents
    BY <1>1, <1>s, <2>2, <2>4
  <2> QED
    BY <2>3, <2>4
<1>6. task' \in [Tasks -> Plane!Steps]
  BY <1>1, <1>2, <1>5, GotoGoes DEF Plane!RecordsAreWhole
<1>7. Plane!RecordsAreWhole'
  BY <1>1, <1>2, <1>3, <1>6 DEF Plane!RecordsAreWhole
<1>8. Plane!StepsFollowWrites'
  <2>1. Plane!FollowsWrites(step)'
    BY <1>1, <1>4, <1>5 DEF Plane!FollowsWrites
  <2> QED
    BY <1>1, <1>2, <1>5, <2>1, StepsKeepTheirWrites DEF Plane!IndInv, Plane!RecordsAreWhole
<1>9. Plane!LedgerFollowsAudit'
  BY <1>1, <1>4, <1>5, PlaneConstants DEF Plane!IndInv, Plane!LedgerFollowsAudit,
     Plane!ConstantsAssumed
<1>10. Plane!AcceptancesAreMarked' /\ Plane!AcceptedOncePerId' /\ Plane!AcceptedOncePerKey'
  BY <1>1, AcceptancesKept DEF Plane!IndInv
<1> QED
  BY <1>7, <1>8, <1>9, <1>10 DEF Plane!IndInv

LEMMA AppendRequestedUsageStep ==
  ASSUME Plane!IndInv, NEW t \in Tasks, Plane!AppendRequestedUsage(t)
  PROVE  Plane!IndInv'
<1> DEFINE s == task[t].session
<1>1. /\ task[t].at = "usage" /\ usageEntries' = usageEntries \cup {s} /\ Plane!Goto(t, Plane!Idle)
      /\ outcomes' = IF s \in usageEntries THEN outcomes ELSE outcomes \cup {<<t, s>>}
      /\ UNCHANGED <<sessions, callbacks, appointments, auditEvents, commandKeys, accepted>>
  BY DEF Plane!AppendRequestedUsage
<1>2. Plane!RecordsAreWhole
  BY DEF Plane!IndInv
<1>3. task[t] \in Plane!Steps /\ task[t] # Plane!Idle /\ s \in SessionIds
  BY <1>1, <1>2, StepForms DEF Plane!RecordsAreWhole, Plane!Idle
<1>4. s \in auditEvents
  BY <1>1, <1>3 DEF Plane!IndInv, Plane!StepsFollowWrites, Plane!FollowsWrites
<1> HIDE DEF s
<1>5. Plane!Idle \in Plane!Steps /\ Plane!Idle.at = "idle"
  BY DEF Plane!Steps, Plane!Idle
<1>6. task' \in [Tasks -> Plane!Steps]
  BY <1>1, <1>2, <1>5, GotoGoes DEF Plane!RecordsAreWhole
<1>7. Plane!RecordsAreWhole'
  BY <1>1, <1>2, <1>3, <1>6 DEF Plane!RecordsAreWhole
<1>8. Plane!StepsFollowWrites'
  <2>1. Plane!FollowsWrites(Plane!Idle)'
    BY <1>5 DEF Plane!FollowsWrites
  <2> QED
    BY <1>1, <1>2, <1>5, <2>1, StepsKeepTheirWrites DEF Plane!IndInv, Plane!RecordsAreWhole
<1>9. Plane!LedgerFollowsAudit'
  BY <1>1, <1>3, <1>4 DEF Plane!IndInv, Plane!LedgerFollowsAudit
<1>10. Plane!AcceptancesAreMarked'
  <2>1. outcomes' \subseteq Tasks \X (SessionIds \cup CallbackIds \cup AppointmentIds)
    BY <1>1, <1>3 DEF Plane!IndInv, Plane!AcceptancesAreMarked
  <2>2. \A o \in outcomes': IF o[2] \in SessionIds THEN o[2] \in usageEntries' ELSE o[2] \in auditEvents'
    BY <1>1, <1>3 DEF Plane!IndInv, Plane!AcceptancesAreMarked
  <2> QED
    BY <1>1, <2>1, <2>2 DEF Plane!IndInv, Plane!AcceptancesAreMarked
<1>11. Plane!AcceptedOncePerId'
  <2>1. CASE s \in usageEntries
    BY <1>1, <2>1 DEF Plane!IndInv, Plane!AcceptedOncePerId
  <2>2. CASE s \notin usageEntries
    <3>1. \A o \in outcomes: o[2] # s
      BY <1>3, <2>2 DEF Plane!IndInv, Plane!AcceptancesAreMarked
    <3> QED
      BY <1>1, <2>2, <3>1 DEF Plane!IndInv, Plane!AcceptedOncePerId
  <2> QED
    BY <2>1, <2>2
<1>12. Plane!AcceptedOncePerKey'
  BY <1>1 DEF Plane!IndInv, Plane!AcceptedOncePerKey
<1> QED
  BY <1>7, <1>8, <1>9, <1>10, <1>11, <1>12 DEF Plane!IndInv

(* A follow-up is saved as requested, and its audit event is next.            *)
LEMMA SaveFollowUpStep ==
  ASSUME Plane!IndInv, NEW t \in Tasks, NEW id,
         \/ id \in CallbackIds /\ Plane!SaveCallbackRequest(t, id)
         \/ id \in AppointmentIds /\ Plane!SaveAppointmentRequest(t, id)
  PROVE  Plane!IndInv'
<1> DEFINE step == [at |-> "followUpAudit", id |-> id]
<1>1. /\ task[t] = Plane!Idle /\ Plane!Goto(t, step)
      /\ UNCHANGED <<sessions, auditEvents, usageEntries, commandKeys, accepted, outcomes>>
  BY DEF Plane!SaveCallbackRequest, Plane!SaveAppointmentRequest
<1>2. Plane!RecordsAreWhole
  BY DEF Plane!IndInv
<1>3. /\ id \in CallbackIds \cup AppointmentIds
      /\ step \in Plane!Steps /\ step # Plane!Idle /\ step.at = "followUpAudit" /\ step.id = id
  BY DEF Plane!Steps, Plane!Idle
<1> HIDE DEF step
<1>4. /\ callbacks' \in [CallbackIds -> {None} \cup DOMAIN Plane!CallbackTransitions]
      /\ appointments' \in [AppointmentIds -> {None} \cup DOMAIN Plane!AppointmentTransitions]
      /\ \A c \in CallbackIds: callbacks[c] # None => callbacks'[c] # None
      /\ \A a \in AppointmentIds: appointments[a] # None => appointments'[a] # None
      /\ id \in CallbackIds => callbacks'[id] # None
      /\ id \in AppointmentIds => appointments'[id] # None
  <2>1. /\ "requested" \in DOMAIN Plane!CallbackTransitions
           /\ "requested" \in DOMAIN Plane!AppointmentTransitions
        /\ "requested" # None
    BY PlaneConstants DEF Plane!ConstantsAssumed, Plane!CallbackTransitions,
       Plane!AppointmentTransitions
  <2>2. CASE id \in CallbackIds /\ Plane!SaveCallbackRequest(t, id)
    <3>1. callbacks' = [callbacks EXCEPT ![id] = "requested"] /\ appointments' = appointments
      BY <2>2 DEF Plane!SaveCallbackRequest
    <3>2. id \notin AppointmentIds
      BY <2>2, PlaneConstants DEF Plane!ConstantsAssumed
    <3> QED
      BY <1>2, <2>1, <2>2, <3>1, <3>2 DEF Plane!RecordsAreWhole
  <2>3. CASE id \in AppointmentIds /\ Plane!SaveAppointmentRequest(t, id)
    <3>1. appointments' = [appointments EXCEPT ![id] = "requested"] /\ callbacks' = callbacks
      BY <2>3 DEF Plane!SaveAppointmentRequest
    <3>2. id \notin CallbackIds
      BY <2>3, PlaneConstants DEF Plane!ConstantsAssumed
    <3> QED
      BY <1>2, <2>1, <2>3, <3>1, <3>2 DEF Plane!RecordsAreWhole
  <2> QED
    BY <2>2, <2>3
<1>5. task' \in [Tasks -> Plane!Steps]
  BY <1>1, <1>2, <1>3, GotoGoes DEF Plane!RecordsAreWhole
<1>6. Plane!RecordsAreWhole'
  BY <1>1, <1>2, <1>4, <1>5 DEF Plane!RecordsAreWhole
<1>7. Plane!StepsFollowWrites'
  <2>1. Plane!FollowsWrites(step)'
    BY <1>3, <1>4 DEF Plane!FollowsWrites
  <2> QED
    BY <1>1, <1>2, <1>3, <1>4, <2>1, StepsKeepTheirWrites DEF Plane!IndInv, Plane!RecordsAreWhole
<1>8. Plane!LedgerFollowsAudit'
  BY <1>1, <1>4 DEF Plane!IndInv, Plane!LedgerFollowsAudit
<1>9. Plane!AcceptancesAreMarked' /\ Plane!AcceptedOncePerId' /\ Plane!AcceptedOncePerKey'
  BY <1>1, AcceptancesKept DEF Plane!IndInv
<1> QED
  BY <1>6, <1>7, <1>8, <1>9 DEF Plane!IndInv

LEMMA AppendFollowUpEventStep ==
  ASSUME Plane!IndInv, NEW t \in Tasks, Plane!AppendFollowUpEvent(t)
  PROVE  Plane!IndInv'
<1> DEFINE id == task[t].id
<1>1. /\ task[t].at = "followUpAudit" /\ auditEvents' = auditEvents \cup {id}
         /\ Plane!Goto(t, Plane!Idle)
      /\ outcomes' = IF id \in auditEvents THEN outcomes ELSE outcomes \cup {<<t, id>>}
      /\ UNCHANGED <<sessions, callbacks, appointments, usageEntries, commandKeys, accepted>>
  BY DEF Plane!AppendFollowUpEvent
<1>2. Plane!RecordsAreWhole
  BY DEF Plane!IndInv
<1>3. /\ task[t] \in Plane!Steps /\ task[t] # Plane!Idle
      /\ id \in CallbackIds \cup AppointmentIds /\ id \notin SessionIds
  <2>1. task[t] \in Plane!Steps /\ task[t] # Plane!Idle /\ id \in CallbackIds \cup AppointmentIds
    BY <1>1, <1>2, StepForms DEF Plane!RecordsAreWhole, Plane!Idle
  <2> QED
    BY <2>1, PlaneConstants DEF Plane!ConstantsAssumed
<1>4. /\ id \in CallbackIds => callbacks[id] # None
      /\ id \in AppointmentIds => appointments[id] # None
  BY <1>1, <1>3 DEF Plane!IndInv, Plane!StepsFollowWrites, Plane!FollowsWrites
<1> HIDE DEF id
<1>5. Plane!Idle \in Plane!Steps /\ Plane!Idle.at = "idle"
  BY DEF Plane!Steps, Plane!Idle
<1>6. task' \in [Tasks -> Plane!Steps]
  BY <1>1, <1>2, <1>5, GotoGoes DEF Plane!RecordsAreWhole
<1>7. Plane!RecordsAreWhole'
  BY <1>1, <1>2, <1>3, <1>6 DEF Plane!RecordsAreWhole
<1>8. Plane!StepsFollowWrites'
  <2>1. Plane!FollowsWrites(Plane!Idle)'
    BY <1>5 DEF Plane!FollowsWrites
  <2> QED
    BY <1>1, <1>2, <1>5, <2>1, StepsKeepTheirWrites DEF Plane!IndInv, Plane!RecordsAreWhole
<1>9. Plane!LedgerFollowsAudit'
  BY <1>1, <1>3, <1>4 DEF Plane!IndInv, Plane!LedgerFollowsAudit
<1>10. Plane!AcceptancesAreMarked'
  <2>1. outcomes' \subseteq Tasks \X (SessionIds \cup CallbackIds \cup AppointmentIds)
    BY <1>1, <1>3 DEF Plane!IndInv, Plane!AcceptancesAreMarked
  <2>2. \A o \in outcomes': IF o[2] \in SessionIds THEN o[2] \in usageEntries' ELSE o[2] \in auditEvents'
    BY <1>1, <1>3 DEF Plane!IndInv, Plane!AcceptancesAreMarked
  <2> QED
    BY <1>1, <2>1, <2>2 DEF Plane!IndInv, Plane!AcceptancesAreMarked
<1>11. Plane!AcceptedOncePerId'
  <2>1. CASE id \in auditEvents
    BY <1>1, <2>1 DEF Plane!IndInv, Plane!AcceptedOncePerId
  <2>2. CASE id \notin auditEvents
    <3>1. \A o \in outcomes: o[2] # id
      BY <1>3, <2>2 DEF Plane!IndInv, Plane!AcceptancesAreMarked
    <3> QED
      BY <1>1, <2>2, <3>1 DEF Plane!IndInv, Plane!AcceptedOncePerId
  <2> QED
    BY <2>1, <2>2
<1>12. Plane!AcceptedOncePerKey'
  BY <1>1 DEF Plane!IndInv, Plane!AcceptedOncePerKey
<1> QED
  BY <1>7, <1>8, <1>9, <1>10, <1>11, <1>12 DEF Plane!IndInv

LEMMA MoveFollowUpStep ==
  ASSUME Plane!IndInv, NEW id, NEW to, Plane!MoveFollowUp(id, to)
  PROVE  Plane!IndInv'
<1>1. UNCHANGED <<sessions, auditEvents, usageEntries, commandKeys, task, accepted, outcomes>>
  BY DEF Plane!MoveFollowUp
<1>2. Plane!RecordsAreWhole
  BY DEF Plane!IndInv
<1>3. /\ callbacks' \in [CallbackIds -> {None} \cup DOMAIN Plane!CallbackTransitions]
      /\ appointments' \in [AppointmentIds -> {None} \cup DOMAIN Plane!AppointmentTransitions]
      /\ \A c \in CallbackIds: callbacks[c] # None => callbacks'[c] # None
      /\ \A a \in AppointmentIds: appointments[a] # None => appointments'[a] # None
  <2>1. CASE /\ id \in CallbackIds /\ callbacks[id] # None
             /\ Plane!CanTransition(Plane!CallbackTransitions, callbacks[id], to)
             /\ callbacks' = [callbacks EXCEPT ![id] = to] /\ UNCHANGED appointments
    <3>1. to \in DOMAIN Plane!CallbackTransitions
      BY <2>1 DEF Plane!CanTransition, Plane!CallbackTransitions
    <3>2. to # None
      BY <3>1, PlaneConstants DEF Plane!ConstantsAssumed
    <3> QED
      BY <1>2, <2>1, <3>1, <3>2 DEF Plane!RecordsAreWhole
  <2>2. CASE /\ id \in AppointmentIds /\ appointments[id] # None
             /\ Plane!CanTransition(Plane!AppointmentTransitions, appointments[id], to)
             /\ appointments' = [appointments EXCEPT ![id] = to] /\ UNCHANGED callbacks
    <3>1. to \in DOMAIN Plane!AppointmentTransitions
      BY <2>2 DEF Plane!CanTransition, Plane!AppointmentTransitions
    <3>2. to # None
      BY <3>1, PlaneConstants DEF Plane!ConstantsAssumed
    <3> QED
      BY <1>2, <2>2, <3>1, <3>2 DEF Plane!RecordsAreWhole
  <2> QED
    BY <2>1, <2>2, Zenon DEF Plane!MoveFollowUp
<1>4. Plane!RecordsAreWhole'
  BY <1>1, <1>2, <1>3 DEF Plane!RecordsAreWhole
<1>5. Plane!StepsFollowWrites'
  <2> SUFFICES ASSUME NEW u \in Tasks PROVE Plane!FollowsWrites(task[u])'
    BY DEF Plane!StepsFollowWrites
  <2>1. task[u] \in Plane!Steps /\ Plane!FollowsWrites(task[u]) /\ task'[u] = task[u]
    BY <1>1, <1>2 DEF Plane!IndInv, Plane!RecordsAreWhole, Plane!StepsFollowWrites
  <2>2. PICK x \in Plane!Steps: x = task[u]
    BY <2>1
  <2>3. x.at = "followUpAudit" => x.id \in CallbackIds \cup AppointmentIds
    BY StepForms
  <2> QED
    BY <1>1, <1>3, <2>1, <2>2, <2>3 DEF Plane!FollowsWrites
<1>6. Plane!LedgerFollowsAudit'
  BY <1>1, <1>3 DEF Plane!IndInv, Plane!LedgerFollowsAudit
<1>7. Plane!AcceptancesAreMarked' /\ Plane!AcceptedOncePerId' /\ Plane!AcceptedOncePerKey'
  BY <1>1, AcceptancesKept DEF Plane!IndInv
<1> QED
  BY <1>4, <1>5, <1>6, <1>7 DEF Plane!IndInv

(* A step that moves one task and writes nothing.                             *)
LEMMA TaskMovesStep ==
  ASSUME Plane!IndInv, NEW t \in Tasks, NEW step \in Plane!Steps, Plane!Goto(t, step),
         UNCHANGED <<Plane!repository, commandKeys, accepted, outcomes>>,
         Plane!FollowsWrites(step)
  PROVE  Plane!IndInv'
<1>1. UNCHANGED <<sessions, callbacks, appointments, auditEvents, usageEntries, commandKeys,
      accepted, outcomes>>
  BY DEF Plane!repository
<1>2. Plane!RecordsAreWhole
  BY DEF Plane!IndInv
<1>3. task' \in [Tasks -> Plane!Steps]
  BY <1>2, GotoGoes DEF Plane!RecordsAreWhole
<1>4. Plane!RecordsAreWhole'
  BY <1>1, <1>2, <1>3 DEF Plane!RecordsAreWhole
<1>5. Plane!StepsFollowWrites'
  <2>1. Plane!FollowsWrites(step)'
    BY <1>1 DEF Plane!FollowsWrites
  <2> QED
    BY <1>1, <1>2, <2>1, StepsKeepTheirWrites DEF Plane!IndInv, Plane!RecordsAreWhole
<1>6. Plane!LedgerFollowsAudit'
  BY <1>1 DEF Plane!IndInv, Plane!LedgerFollowsAudit
<1>7. Plane!AcceptancesAreMarked' /\ Plane!AcceptedOncePerId' /\ Plane!AcceptedOncePerKey'
  BY <1>1, AcceptancesKept DEF Plane!IndInv
<1> QED
  BY <1>4, <1>5, <1>6, <1>7 DEF Plane!IndInv

LEMMA NothingChangesPlane ==
  ASSUME Plane!IndInv, UNCHANGED Plane!vars
  PROVE  Plane!IndInv'
<1>1. UNCHANGED <<sessions, callbacks, appointments, auditEvents, usageEntries, commandKeys, task,
      accepted,
                  outcomes>>
  BY DEF Plane!vars, Plane!repository
<1>2. Plane!RecordsAreWhole' /\ Plane!StepsFollowWrites' /\ Plane!LedgerFollowsAudit'
      /\ Plane!AcceptancesAreMarked'
  BY <1>1 DEF Plane!IndInv, Plane!RecordsAreWhole, Plane!StepsFollowWrites, Plane!FollowsWrites,
     Plane!LedgerFollowsAudit, Plane!AcceptancesAreMarked
<1>3. Plane!AcceptedOncePerId' /\ Plane!AcceptedOncePerKey'
  BY <1>1 DEF Plane!IndInv, Plane!AcceptedOncePerId, Plane!AcceptedOncePerKey
<1> QED
  BY <1>2, <1>3 DEF Plane!IndInv

LEMMA AbandonStep ==
  ASSUME Plane!IndInv, NEW t \in Tasks, Plane!Abandon(t)
  PROVE  Plane!IndInv'
<1>1. Plane!Idle \in Plane!Steps /\ Plane!FollowsWrites(Plane!Idle)
  BY DEF Plane!Steps, Plane!Idle, Plane!FollowsWrites
<1>2. /\ task[t] # Plane!Idle /\ Plane!Goto(t, Plane!Idle)
      /\ UNCHANGED <<Plane!repository, commandKeys, accepted, outcomes>>
  BY DEF Plane!Abandon
<1> QED
  BY <1>1, <1>2, TaskMovesStep

(* A call keeps its record when it moves.                                     *)
LEMMA MoveCallStep ==
  ASSUME Plane!IndInv, NEW s \in SessionIds, NEW to \in Plane!CallStates, Plane!MoveCall(s, to)
  PROVE  Plane!IndInv'
<1> DEFINE row == Plane!Session(sessions[s].tenantId, to)
<1>1. /\ sessions[s] # None /\ sessions' = [sessions EXCEPT ![s] = row]
      /\ UNCHANGED <<callbacks, appointments, auditEvents, usageEntries, commandKeys, task,
         accepted, outcomes>>
  BY DEF Plane!MoveCall
<1>2. Plane!RecordsAreWhole
  BY DEF Plane!IndInv
<1>3. row \in Plane!SessionRecord /\ row # None
  <2>1. sessions[s] \in Plane!SessionRecord
    BY <1>1, <1>2 DEF Plane!RecordsAreWhole
  <2>2. sessions[s].tenantId \in Tenants
    BY <2>1 DEF Plane!SessionRecord
  <2> QED
    BY <2>2, SessionFields, NoneIsNoRecord
<1> HIDE DEF row
<1>4. sessions'[s] = row /\ \A r \in SessionIds: r # s => sessions'[r] = sessions[r]
  BY <1>1, <1>2 DEF Plane!RecordsAreWhole
<1>5. Plane!RecordsAreWhole'
  BY <1>1, <1>2, <1>3 DEF Plane!RecordsAreWhole
<1>6. Plane!StepsFollowWrites'
  <2> SUFFICES ASSUME NEW u \in Tasks PROVE Plane!FollowsWrites(task[u])'
    BY DEF Plane!StepsFollowWrites
  <2>1. task[u] \in Plane!Steps /\ Plane!FollowsWrites(task[u]) /\ task'[u] = task[u]
    BY <1>1, <1>2 DEF Plane!IndInv, Plane!RecordsAreWhole, Plane!StepsFollowWrites
  <2>2. PICK x \in Plane!Steps: x = task[u]
    BY <2>1
  <2>3. x.at \in {"audit", "usage"} => x.session \in SessionIds
    BY StepForms
  <2> QED
    BY <1>1, <1>3, <1>4, <2>1, <2>2, <2>3 DEF Plane!FollowsWrites
<1>7. Plane!LedgerFollowsAudit'
  BY <1>1, <1>3, <1>4 DEF Plane!IndInv, Plane!LedgerFollowsAudit
<1>8. Plane!AcceptancesAreMarked' /\ Plane!AcceptedOncePerId' /\ Plane!AcceptedOncePerKey'
  BY <1>1, AcceptancesKept DEF Plane!IndInv
<1> QED
  BY <1>5, <1>6, <1>7, <1>8 DEF Plane!IndInv

(* A key that is stored was not there before.                                 *)
LEMMA DecideCommandStep ==
  ASSUME Plane!IndInv, NEW key \in CommandKeys, NEW stored \in BOOLEAN, NEW expected,
         NEW current, NEW permitted \in BOOLEAN,
         Plane!DecideCommand(key, stored, expected, current, permitted)
  PROVE  Plane!IndInv'
<1> DEFINE new == [number |-> Plane!Cardinality(accepted), key |-> key, stored |-> stored]
<1>1. /\ stored => key \notin commandKeys
      /\ commandKeys' = IF stored THEN commandKeys \cup {key} ELSE commandKeys
      /\ accepted' = accepted \cup {new}
      /\ UNCHANGED <<sessions, callbacks, appointments, auditEvents, usageEntries, task, outcomes>>
  BY DEF Plane!DecideCommand, Plane!CommandAccepted, Plane!repository
<1>2. new.key = key /\ new.stored = stored
  OBVIOUS
<1> HIDE DEF new
<1>3. Plane!RecordsAreWhole' /\ Plane!LedgerFollowsAudit'
  BY <1>1 DEF Plane!IndInv, Plane!RecordsAreWhole, Plane!LedgerFollowsAudit
<1>4. Plane!StepsFollowWrites'
  BY <1>1 DEF Plane!IndInv, Plane!StepsFollowWrites, Plane!FollowsWrites
<1>5. Plane!AcceptancesAreMarked'
  BY <1>1, <1>2 DEF Plane!IndInv, Plane!AcceptancesAreMarked
<1>6. Plane!AcceptedOncePerId'
  BY <1>1 DEF Plane!IndInv, Plane!AcceptedOncePerId
<1>7. Plane!AcceptedOncePerKey'
  <2>1. \A a \in accepted: a.stored /\ stored => a.key # key
    BY <1>1 DEF Plane!IndInv, Plane!AcceptancesAreMarked
  <2> QED
    BY <1>1, <1>2, <2>1 DEF Plane!IndInv, Plane!AcceptedOncePerKey
<1> QED
  BY <1>3, <1>4, <1>5, <1>6, <1>7 DEF Plane!IndInv

LEMMA PlaneNext == Plane!IndInv /\ [Plane!Next]_Plane!vars => Plane!IndInv'
<1> SUFFICES ASSUME Plane!IndInv, [Plane!Next]_Plane!vars PROVE Plane!IndInv'
  OBVIOUS
<1>1. ASSUME NEW t \in Tasks, Plane!Requests(t)
      PROVE  Plane!IndInv'
  BY <1>1, SaveRequestedSessionStep, AppendRequestedEventStep, AppendRequestedUsageStep,
     SaveFollowUpStep,
     AppendFollowUpEventStep DEF Plane!Requests
<1>2. ASSUME Plane!Commands
      PROVE  Plane!IndInv'
  BY <1>2, DecideCommandStep DEF Plane!Commands
<1>6. ASSUME NEW s \in SessionIds, NEW to \in Plane!CallStates, Plane!MoveCall(s, to)
      PROVE  Plane!IndInv'
  BY <1>6, MoveCallStep
<1>3. ASSUME NEW t \in Tasks, Plane!Abandon(t)
      PROVE  Plane!IndInv'
  BY <1>3, AbandonStep
<1>4. ASSUME Plane!FollowUps
      PROVE  Plane!IndInv'
  BY <1>4, MoveFollowUpStep DEF Plane!FollowUps
<1>5. CASE UNCHANGED Plane!vars
  BY <1>5, NothingChangesPlane
<1> QED
  BY <1>1, <1>2, <1>3, <1>4, <1>5, <1>6 DEF Plane!Next

\* Every step a task has before it rests on the writes it made, and every
\* acceptance left its mark (telephony-control-plane.ts).
THEOREM PlaneInvariantHolds == Plane!Spec => []Plane!IndInv
BY PlaneInit, PlaneNext, PTL DEF Plane!Spec

LEMMA PlaneInvariantSuffices == Plane!IndInv => Plane!ControlPlaneIsSound
<1> SUFFICES ASSUME Plane!IndInv PROVE Plane!ControlPlaneIsSound
  OBVIOUS
<1>1. Plane!TypeOK
  <2>1. \A s \in SessionIds:
           sessions[s] = None \/ sessions[s] \in [tenantId: Tenants, state: Plane!CallStates]
    BY DEF Plane!IndInv, Plane!RecordsAreWhole, Plane!SessionRecord
  <2>2. /\ \A c \in CallbackIds: callbacks[c] \in {None} \cup DOMAIN Plane!CallbackTransitions
        /\ \A a \in AppointmentIds: appointments[a] \in {None} \cup DOMAIN Plane!AppointmentTransitions
        /\ usageEntries \subseteq SessionIds /\ commandKeys \subseteq CommandKeys
           /\ DOMAIN task = Tasks
    BY DEF Plane!IndInv, Plane!RecordsAreWhole
  <2> QED
    BY <2>1, <2>2 DEF Plane!TypeOK
<1> QED
  BY <1>1 DEF Plane!IndInv, Plane!ControlPlaneIsSound

\* For any tasks, tenants, calls and keys: a usage entry follows its audit event,
\* which follows its stored record; an id is accepted once, and so is a key by
\* callers that pass the store of keys (requestCallSession,
\* queueTelephonyCallbackRequest, evaluateTelephonyCommandSafety).
THEOREM ControlPlaneSound == Plane!Spec => []ControlPlaneIsSound
BY PlaneInvariantHolds, PlaneInvariantSuffices, PTL DEF ControlPlaneIsSound

-----------------------------------------------------------------------------
(* The card's requests. *)

\* What a step may never take back.
Grows ==
  /\ \A w \in Visitors : form[w].started => form'[w].started
  /\ Intake!Ids \subseteq Intake!Ids'
  /\ \A i \in Intake!Ids : (jobs[i].success => jobs'[i].success) /\ rows[i] \subseteq rows'[i]

\* The server works on a request: what was posted of it stays.
KeepsPosts ==
  /\ Intake!Ids' = Intake!Ids
  /\ \A i \in Intake!Ids :
        /\ jobs'[i].surface = jobs[i].surface
        /\ jobs'[i].visitor = jobs[i].visitor
        /\ jobs'[i].seen = jobs[i].seen
        /\ jobs[i].success => jobs'[i].success

Holds(i) == Intake!StoredSoFar(i) /\ Intake!NoGap(i) /\ Intake!Confirmed(i)

LEMMA IntakeCounts ==
  ASSUME NEW z
  PROVE  Intake!Cardinality(z) = Cardinality(z) /\ Intake!IsFiniteSet(z) = IsFiniteSet(z)
BY DEF Intake!Cardinality, Cardinality, Intake!IsFiniteSet, IsFiniteSet

LEMMA EntryReplaced ==
  ASSUME NEW S, NEW s \in Seq(S), NEW i \in 1 .. Len(s), NEW x \in S
  PROVE  /\ [s EXCEPT ![i] = x] \in Seq(S) /\ Len([s EXCEPT ![i] = x]) = Len(s)
         /\ [s EXCEPT ![i] = x][i] = x
         /\ \A k \in 1 .. Len(s) : k # i => [s EXCEPT ![i] = x][k] = s[k]
OBVIOUS

LEMMA EntryAppended ==
  ASSUME NEW S, NEW s \in Seq(S), NEW x \in S
  PROVE  /\ Append(s, x) \in Seq(S) /\ Len(Append(s, x)) = Len(s) + 1
         /\ Append(s, x)[Len(s) + 1] = x
         /\ \A k \in 1 .. Len(s) : Append(s, x)[k] = s[k]
OBVIOUS

LEMMA SameRequest ==
  ASSUME NEW i, Holds(i), jobs'[i] = jobs[i], rows'[i] = rows[i], cardDatabase' = cardDatabase,
         ledger \subseteq ledger'
  PROVE  Holds(i)'
<1>1. Intake!StoredSoFar(i)'
  BY DEF Holds, Intake!StoredSoFar, Intake!Storing, Intake!ServerEvent
<1>2. Intake!NoGap(i)'
  BY DEF Holds, Intake!NoGap
<1>3. Intake!Confirmed(i)'
  BY DEF Holds, Intake!Confirmed, Intake!ServerEvent
<1> QED
  BY <1>1, <1>2, <1>3 DEF Holds

LEMMA SameBuckets ==
  ASSUME Intake!BucketsFollow, Intake!LimitHolds, UNCHANGED <<buckets, admitted, cardNow>>
  PROVE  Intake!BucketsFollow' /\ Intake!LimitHolds'
BY DEF Intake!BucketsFollow, Intake!LimitHolds

LEMMA BeaconKept ==
  ASSUME Grows, NEW b, Intake!BeaconFollows(b)
  PROVE  Intake!BeaconFollows(b)'
BY DEF Grows, Intake!BeaconFollows

LEMMA EventKept ==
  ASSUME Grows, NEW e, Intake!EventFollows(e),
         e.by = "card" /\ e.type = "receptionist_request_started"
         => Intake!StartOf(e.visitor) \notin beacons'
  PROVE  Intake!EventFollows(e)'
<1>1. e.by = "server" => e.job \in Intake!Ids' /\ "steps" \in rows'[e.job]
  BY DEF Grows, Intake!EventFollows
<1>2. e.by = "card" /\ e.type \in Intake!Submitted => e.job \in Intake!Ids' /\ jobs'[e.job].success
  BY DEF Grows, Intake!EventFollows
<1>3. e.by = "card" /\ e.type = "receptionist_request_started" =>
        e.job = 0 /\ form'[e.visitor].started /\ Intake!StartOf(e.visitor) \notin beacons'
  BY DEF Grows, Intake!EventFollows
<1> QED
  BY <1>1, <1>2, <1>3 DEF Intake!EventFollows

\* No event is added.
LEMMA SameEvents ==
  ASSUME Intake!EventsFollow, Grows, beacons' \subseteq beacons, ledger' = ledger
  PROVE  Intake!EventsFollow'
<1>1. \A b \in beacons' : Intake!BeaconFollows(b)'
  BY BeaconKept DEF Intake!EventsFollow
<1>2. \A e \in ledger : Intake!EventFollows(e)'
  <2> TAKE e \in ledger
  <2>1. Intake!EventFollows(e)
    BY DEF Intake!EventsFollow
  <2>2. e.by = "card" /\ e.type = "receptionist_request_started"
        => Intake!StartOf(e.visitor) \notin beacons'
    BY <2>1 DEF Intake!EventFollows
  <2> QED
    BY <2>1, <2>2, EventKept
<1> QED
  BY <1>1, <1>2 DEF Intake!EventsFollow

\* The card emits events: a start once, and a submission that succeeded.
LEMMA EmittedEvents ==
  ASSUME Intake!EventsFollow, Grows, ledger' = ledger,
         NEW v \in Visitors, NEW j, NEW types, beacons' = Intake!Emit(v, j, types),
         "receptionist_request_started" \in types =>
             j = 0 /\ ~form[v].started /\ form'[v].started,
         \A t \in types \cap Intake!Submitted : j \in Intake!Ids' /\ jobs'[j].success
  PROVE  Intake!EventsFollow'
<1>1. ASSUME NEW b \in beacons'
      PROVE  Intake!BeaconFollows(b)'
  <2>1. CASE b \in beacons
    BY <2>1, BeaconKept DEF Intake!EventsFollow
  <2>2. CASE b \notin beacons
    <3>1. PICK t \in types : b = [visitor |-> v, job |-> j, type |-> t]
      BY <2>2, <1>1 DEF Intake!Emit
    <3>2. b.visitor = v /\ b.job = j /\ b.type = t
      BY <3>1
    <3>3. t = "receptionist_request_started" => j = 0 /\ form'[v].started
      BY <3>1
    <3>4. t \in Intake!Submitted => j \in Intake!Ids' /\ jobs'[j].success
      BY <3>1
    <3> QED
      BY <3>1, <3>2, <3>3, <3>4 DEF Intake!BeaconFollows
  <2> QED
    BY <2>1, <2>2
<1>2. ASSUME NEW e \in ledger
      PROVE  Intake!EventFollows(e)'
  <2>1. Intake!EventFollows(e)
    BY DEF Intake!EventsFollow
  <2>2. ASSUME e.by = "card", e.type = "receptionist_request_started",
               Intake!StartOf(e.visitor) \in beacons'
        PROVE  FALSE
    <3>1. form[e.visitor].started /\ Intake!StartOf(e.visitor) \notin beacons
      BY <2>1, <2>2 DEF Intake!EventFollows
    <3>2. PICK t \in types : Intake!StartOf(e.visitor) = [visitor |-> v, job |-> j, type |-> t]
      BY <2>2, <3>1 DEF Intake!Emit
    <3>3. e.visitor = v /\ t = "receptionist_request_started"
      BY <3>2 DEF Intake!StartOf
    <3> QED
      BY <3>1, <3>2, <3>3
  <2> QED
    BY <2>1, <2>2, EventKept
<1> QED
  BY <1>1, <1>2 DEF Intake!EventsFollow

LEMMA SamePages ==
  ASSUME Intake!PagesFollow, Intake!RequestsAreWhole, KeepsPosts, form' = form
  PROVE  Intake!PagesFollow'
<1>1. \A j \in Intake!Ids' : jobs'[j].surface \in Intake!Pages /\ ~jobs'[j].seen =>
        form'[jobs'[j].visitor].status = "submitting" /\ form'[jobs'[j].visitor].job = j
  BY DEF Intake!PagesFollow, KeepsPosts
<1>2. ASSUME NEW v \in Visitors
      PROVE  /\ form[v].status \in {"submitting", "success"} => form[v].job \in Intake!Ids'
             /\ form[v].status = "submitting" =>
                 /\ jobs'[form[v].job].surface \in Intake!Pages /\ jobs'[form[v].job].visitor = v
                 /\ ~jobs'[form[v].job].seen
             /\ form[v].status = "success" => jobs'[form[v].job].success
  BY DEF Intake!PagesFollow, KeepsPosts
<1> QED
  BY <1>1, <1>2 DEF Intake!PagesFollow

\* A request is replaced in the list of those posted.
LEMMA JobReplaced ==
  ASSUME Intake!RequestsAreWhole, NEW j \in Intake!Ids, NEW x \in Intake!JobRows,
         jobs' = [jobs EXCEPT ![j] = x]
  PROVE  /\ jobs' \in Seq(Intake!JobRows) /\ Len(jobs') = Len(jobs) /\ Intake!Ids' = Intake!Ids
         /\ jobs'[j] = x /\ \A i \in Intake!Ids : i # j => jobs'[i] = jobs[i]
BY EntryReplaced DEF Intake!RequestsAreWhole, Intake!Ids

LEMMA JobTyped ==
  ASSUME Intake!RequestsAreWhole, NEW j \in Intake!Ids
  PROVE  jobs[j] \in Intake!JobRows
         /\ rows[j] \in SUBSET (Intake!RowStatements \union {"someSteps"})
BY DEF Intake!RequestsAreWhole, Intake!Ids

\* An answer changes how far a request is, and what is known of its success.
LEMMA AnswerOf ==
  ASSUME Intake!RequestsAreWhole, NEW j \in Intake!Ids, NEW success \in BOOLEAN,
         NEW status \in Intake!ReplyStatuses,
         jobs' = Intake!Answered(j, success, status), jobs[j].success => success
  PROVE  /\ jobs' \in Seq(Intake!JobRows) /\ Len(jobs') = Len(jobs) /\ KeepsPosts
         /\ jobs'[j].pc = "answered" /\ jobs'[j].success = success
         /\ jobs'[j].providerStatus = status /\ jobs'[j].message = jobs[j].message
         /\ jobs'[j].visitor = jobs[j].visitor
         /\ \A i \in Intake!Ids : i # j => jobs'[i] = jobs[i]
<1>1. PICK y \in Intake!JobRows : y = jobs[j]
  BY JobTyped
<1> DEFINE x == [y EXCEPT !.pc = "answered", !.success = success, !.providerStatus = status]
<1>2. x \in Intake!JobRows /\ x.pc = "answered" /\ x.success = success /\ x.providerStatus = status
      /\ x.message = y.message /\ x.visitor = y.visitor /\ x.surface = y.surface /\ x.seen = y.seen
  BY DEF Intake!JobRows, Intake!Steps
<1>3. jobs' = [jobs EXCEPT ![j] = x]
  BY <1>1 DEF Intake!Answered
<1> HIDE DEF x
<1>4. /\ jobs' \in Seq(Intake!JobRows) /\ Len(jobs') = Len(jobs) /\ Intake!Ids' = Intake!Ids
      /\ jobs'[j] = x /\ \A i \in Intake!Ids : i # j => jobs'[i] = jobs[i]
  BY <1>2, <1>3, JobReplaced
<1> QED
  BY <1>1, <1>2, <1>4 DEF KeepsPosts

\* So does a move to another statement.
LEMMA MoveOf ==
  ASSUME Intake!RequestsAreWhole, NEW j \in Intake!Ids, NEW pc \in Intake!Steps,
         NEW status \in Intake!ReplyStatuses,
         jobs' = [jobs EXCEPT ![j].pc = pc, ![j].providerStatus = status]
  PROVE  /\ jobs' \in Seq(Intake!JobRows) /\ Len(jobs') = Len(jobs) /\ KeepsPosts
         /\ jobs'[j].pc = pc /\ jobs'[j].success = jobs[j].success
         /\ jobs'[j].providerStatus = status /\ jobs'[j].message = jobs[j].message
         /\ jobs'[j].visitor = jobs[j].visitor
         /\ \A i \in Intake!Ids : i # j => jobs'[i] = jobs[i]
<1>1. PICK y \in Intake!JobRows : y = jobs[j]
  BY JobTyped
<1> DEFINE x == [y EXCEPT !.pc = pc, !.providerStatus = status]
<1>2. x \in Intake!JobRows /\ x.pc = pc /\ x.success = y.success /\ x.providerStatus = status
      /\ x.message = y.message /\ x.visitor = y.visitor /\ x.surface = y.surface /\ x.seen = y.seen
  BY DEF Intake!JobRows
<1>3. jobs' = [jobs EXCEPT ![j] = x]
  BY <1>1
<1> HIDE DEF x
<1>4. /\ jobs' \in Seq(Intake!JobRows) /\ Len(jobs') = Len(jobs) /\ Intake!Ids' = Intake!Ids
      /\ jobs'[j] = x /\ \A i \in Intake!Ids : i # j => jobs'[i] = jobs[i]
  BY <1>2, <1>3, JobReplaced
<1> QED
  BY <1>1, <1>2, <1>4 DEF KeepsPosts

LEMMA IndInvHolds ==
  ASSUME Intake!IndInv
  PROVE  \A i \in Intake!Ids : Holds(i)
BY DEF Intake!IndInv, Holds

\* A request the server is at work on has not succeeded yet.
LEMMA WorkSucceedsLater ==
  ASSUME Intake!IndInv, NEW j \in Intake!Ids, jobs[j].pc # "answered"
  PROVE  ~jobs[j].success
BY DEF Intake!IndInv, Intake!StoredSoFar

\* A step of the server on one request, which it does not show to anyone.
LEMMA ServerStep ==
  ASSUME Intake!IndInv, NEW j \in Intake!Ids, jobs' \in Seq(Intake!JobRows),
         Len(jobs') = Len(jobs), KeepsPosts,
         \A i \in Intake!Ids : i # j => jobs'[i] = jobs[i],
         rows' \in Seq(SUBSET (Intake!RowStatements \union {"someSteps"})), Len(rows') = Len(rows),
         \A i \in Intake!Ids : i # j => rows'[i] = rows[i],
         rows[j] \subseteq rows'[j], ledger \subseteq ledger', Holds(j)',
         UNCHANGED <<cardDatabase, form, beacons, cardNow>>
  PROVE  /\ Intake!RequestsAreWhole' /\ Intake!PagesFollow' /\ Grows
         /\ \A i \in Intake!Ids' : Intake!StoredSoFar(i)' /\ Intake!NoGap(i)'
            /\ Intake!Confirmed(i)'
<1>1. Intake!RequestsAreWhole'
  BY DEF Intake!IndInv, Intake!RequestsAreWhole
<1>2. Intake!PagesFollow'
  BY SamePages DEF Intake!IndInv
<1>3. Grows
  BY DEF KeepsPosts, Grows
<1>4. \A i \in Intake!Ids' : Holds(i)'
  <2>1. \A i \in Intake!Ids : i # j => Holds(i)'
    BY IndInvHolds, SameRequest
  <2> QED
    BY <2>1 DEF KeepsPosts
<1> QED
  BY <1>1, <1>2, <1>3, <1>4 DEF Holds

LEMMA NothingStoredYet ==
  ASSUME NEW j, Holds(j), jobs[j].pc = "posted"
  PROVE  rows[j] = {}
BY DEF Holds, Intake!StoredSoFar

LEMMA RejectStep ==
  ASSUME Intake!IndInv, NEW j \in Intake!Ids, Intake!Reject(j)
  PROVE  Intake!IndInv'
<1>0. Intake!RequestsAreWhole /\ Holds(j) /\ rows[j] = {} /\ jobs[j].pc = "posted"
      /\ ~jobs[j].success
  BY IndInvHolds, NothingStoredYet, WorkSucceedsLater DEF Intake!IndInv, Intake!Reject
<1>1. /\ jobs' \in Seq(Intake!JobRows) /\ Len(jobs') = Len(jobs) /\ KeepsPosts
      /\ jobs'[j].pc = "answered" /\ jobs'[j].success = FALSE
      /\ \A i \in Intake!Ids : i # j => jobs'[i] = jobs[i]
  <2>1. jobs' = Intake!Answered(j, FALSE, "invalid")
    BY DEF Intake!Reject
  <2>2. FALSE \in BOOLEAN /\ "invalid" \in Intake!ReplyStatuses /\ (jobs[j].success => FALSE)
    BY <1>0 DEF Intake!ReplyStatuses
  <2> QED
    BY <1>0, <2>1, <2>2, AnswerOf, Zenon
<1>2. Holds(j)'
  BY <1>0, <1>1 DEF Holds, Intake!StoredSoFar, Intake!NoGap, Intake!Confirmed, Intake!Storing,
     Intake!RowStatements, Intake!RowAfter, Intake!Reject
<1>3. UNCHANGED <<cardDatabase, form, rows, beacons, ledger, buckets, admitted, cardNow>>
  BY DEF Intake!Reject
<1>4. /\ Intake!RequestsAreWhole' /\ Intake!PagesFollow' /\ Grows
      /\ \A i \in Intake!Ids' : Intake!StoredSoFar(i)' /\ Intake!NoGap(i)' /\ Intake!Confirmed(i)'
  BY <1>0, <1>1, <1>2, <1>3, ServerStep DEF Intake!RequestsAreWhole
<1>5. Intake!EventsFollow'
  BY <1>3, <1>4, SameEvents DEF Intake!IndInv
<1> QED
  BY <1>3, <1>4, <1>5, SameBuckets DEF Intake!IndInv

-----------------------------------------------------------------------------
(* The rate limit. *)

LEMMA TickStep ==
  ASSUME Intake!IndInv, Intake!Tick
  PROVE  Intake!IndInv'
<1>1. /\ cardNow' = cardNow + 1
      /\ UNCHANGED <<cardDatabase, form, jobs, rows, beacons, ledger, buckets, admitted>>
  BY DEF Intake!Tick
<1>2. Intake!RequestsAreWhole' /\ Intake!PagesFollow' /\ cardNow \in Nat
  BY <1>1 DEF Intake!IndInv, Intake!RequestsAreWhole, Intake!PagesFollow, Intake!Ids
<1>3. \A i \in Intake!Ids' : Intake!StoredSoFar(i)' /\ Intake!NoGap(i)' /\ Intake!Confirmed(i)'
  <2>1. \A i \in Intake!Ids : Holds(i)'
    BY <1>1, IndInvHolds, SameRequest
  <2> QED
    BY <1>1, <2>1 DEF Holds, Intake!Ids
<1>4. Intake!EventsFollow'
  <2>1. Grows
    BY <1>1 DEF Grows, Intake!Ids
  <2> QED
    BY <1>1, <2>1, SameEvents DEF Intake!IndInv
<1>5. Intake!BucketsFollow'
  <2>1. ASSUME NEW k \in Intake!Keys
        PROVE  /\ Intake!IsFiniteSet(admitted[k]) /\ buckets[k] \subseteq admitted[k]
               /\ \A a \in admitted[k] :
                   /\ a[1] <= cardNow' /\ a[2] < Intake!Cardinality(admitted[k])
                   /\ cardNow' - a[1] < Window => a \in buckets[k]
    <3>1. \A a \in admitted[k] : a[1] \in Nat
      BY DEF Intake!IndInv, Intake!BucketsFollow
    <3> QED
      BY <1>1, <1>2, <3>1, IntakeConstants DEF Intake!IndInv, Intake!BucketsFollow,
         Intake!ConstantsAssumed
  <2> QED
    BY <1>1, <2>1 DEF Intake!IndInv, Intake!BucketsFollow
<1>6. Intake!LimitHolds'
  <2> SUFFICES ASSUME NEW k \in Intake!Keys, NEW t \in 0 .. cardNow + 1
               PROVE  Intake!Cardinality({a \in admitted[k] : a[1] \in t .. t + Window - 1}) <= Limit
    BY <1>1 DEF Intake!LimitHolds
  <2>1. CASE t \in 0 .. cardNow
    BY <2>1 DEF Intake!IndInv, Intake!LimitHolds
  <2>2. CASE t = cardNow + 1
    <3>1. {a \in admitted[k] : a[1] \in t .. t + Window - 1} = {}
      BY <1>2, <2>2, IntakeConstants DEF Intake!IndInv, Intake!BucketsFollow,
         Intake!ConstantsAssumed
    <3>2. Intake!Cardinality({}) = 0 /\ Limit \in Nat
      BY FS_EmptySet, IntakeCounts, IntakeConstants DEF Intake!ConstantsAssumed
    <3>3. Intake!Cardinality({a \in admitted[k] : a[1] \in t .. t + Window - 1}) = 0
      BY <3>1, <3>2
    <3> QED
      BY <3>2, <3>3
  <2> QED
    BY <1>2, <2>1, <2>2
<1> QED
  BY <1>2, <1>3, <1>4, <1>5, <1>6 DEF Intake!IndInv

\* The admissions of a window that holds the present are recent: one more keeps
\* within the limit if the recent ones did.
InWindow(S, t) == {a \in S : a[1] \in t .. t + Window - 1}
Fresh(B, n) == {a \in B : n - a[1] < Window}

LEMMA AdmittingKeepsLimit ==
  ASSUME NEW S, Intake!IsFiniteSet(S), S \subseteq Nat \X Nat, NEW B, NEW n \in Nat,
         \A a \in S : a[1] <= n /\ (n - a[1] < Window => a \in B), B \subseteq S,
         Intake!Cardinality(Fresh(B, n)) < Limit,
         \A u \in 0 .. n : Intake!Cardinality(InWindow(S, u)) <= Limit,
         NEW new, new = <<n, Intake!Cardinality(S)>>, NEW t \in 0 .. n
  PROVE  Intake!Cardinality(InWindow(S \union {new}, t)) <= Limit
<1> DEFINE A == {a \in S : a[1] \in t .. t + Window - 1}
           R == {a \in B : n - a[1] < Window}
<1>9. Intake!Cardinality(R) < Limit /\ Intake!Cardinality(A) <= Limit
  BY DEF InWindow, Fresh
<1>0. Limit \in Nat /\ Window \in Nat /\ n \in Nat /\ t \in Nat
  BY IntakeConstants DEF Intake!ConstantsAssumed
<1>1. CASE n \in t .. t + Window - 1
  <2>1. A \subseteq R
    <3> SUFFICES ASSUME NEW a \in S, a[1] \in t .. t + Window - 1
                 PROVE  a \in B /\ n - a[1] < Window
      OBVIOUS
    <3>1. a[1] \in Nat
      OBVIOUS
    <3>2. n - a[1] < Window
      BY <1>0, <1>1, <3>1
    <3> QED
      BY <3>2
  <2>2. Intake!IsFiniteSet(A) /\ Intake!IsFiniteSet(R)
    <3>1. A \subseteq S /\ R \subseteq S
      OBVIOUS
    <3> QED
      BY <3>1, FS_Subset, IntakeCounts
  <2>3. Intake!Cardinality(A) <= Intake!Cardinality(R) /\ Intake!Cardinality(A) \in Nat
        /\ Intake!Cardinality(R) \in Nat
    BY <2>1, <2>2, FS_Subset, IntakeCounts, FS_CardinalityType
  <2>4. {a \in S \union {new} : a[1] \in t .. t + Window - 1} \subseteq A \union {new}
    OBVIOUS
  <2>5. Intake!IsFiniteSet(A \union {new})
        /\ Intake!Cardinality(A \union {new}) <= Intake!Cardinality(A) + 1
        /\ Intake!Cardinality(A \union {new}) \in Nat
    <3>1. CASE new \in A
      <4>1. A \union {new} = A
        BY <3>1
      <4> HIDE DEF A
      <4>2. Intake!IsFiniteSet(A \union {new})
            /\ Intake!Cardinality(A \union {new}) = Intake!Cardinality(A)
        BY <2>2, <4>1, Zenon
      <4> QED
        BY <2>3, <4>2
    <3>2. CASE new \notin A
      <4>1. Intake!IsFiniteSet(A \union {new})
            /\ Intake!Cardinality(A \union {new}) = Intake!Cardinality(A) + 1
        <5> HIDE DEF A
        <5>1. Intake!IsFiniteSet(A)
          BY <2>2
        <5> QED
          BY <3>2, <5>1, FS_AddElement, IntakeCounts
      <4> QED
        BY <2>3, <4>1
    <3> QED
      BY <3>1, <3>2
  <2>6. /\ Intake!Cardinality({a \in S \union {new} : a[1] \in t .. t + Window - 1}) <= Intake!Cardinality(A \union {new})
        /\ Intake!Cardinality({a \in S \union {new} : a[1] \in t .. t + Window - 1}) \in Nat
    BY <2>4, <2>5, FS_Subset, IntakeCounts, FS_CardinalityType
  <2> QED
    BY <1>0, <1>9, <2>3, <2>5, <2>6 DEF InWindow
<1>2. CASE n \notin t .. t + Window - 1
  <2>1. {a \in S \union {new} : a[1] \in t .. t + Window - 1} = A
    BY <1>2
  <2> QED
    BY <1>9, <2>1 DEF InWindow
<1> QED
  BY <1>1, <1>2

LEMMA LimitStep ==
  ASSUME Intake!BucketsFollow, Intake!LimitHolds, cardNow \in Nat, cardNow' = cardNow,
         NEW k \in Intake!Keys,
         Intake!EvaluateReceptionistRateLimit(k)
  PROVE  Intake!BucketsFollow' /\ Intake!LimitHolds'
<1>0. /\ buckets \in [Intake!Keys -> SUBSET (Nat \X Nat)]
         /\ admitted \in [Intake!Keys -> SUBSET (Nat \X Nat)]
      /\ Intake!IsFiniteSet(admitted[k]) /\ buckets[k] \subseteq admitted[k]
      /\ \A a \in admitted[k] :
            /\ a[1] <= cardNow /\ a[2] < Intake!Cardinality(admitted[k])
            /\ cardNow - a[1] < Window => a \in buckets[k]
  BY DEF Intake!BucketsFollow
<1>1. Intake!Recent(k) \subseteq buckets[k] /\ \A a \in admitted[k] : cardNow - a[1] < Window
      => a \in Intake!Recent(k)
  BY <1>0 DEF Intake!Recent
<1>2. ASSUME NEW h \in Intake!Keys, h # k, buckets'[h] = buckets[h], admitted'[h] = admitted[h]
      PROVE  /\ Intake!IsFiniteSet(admitted'[h]) /\ buckets'[h] \subseteq admitted'[h]
             /\ \A a \in admitted'[h] :
                   /\ a[1] <= cardNow' /\ a[2] < Intake!Cardinality(admitted'[h])
                   /\ cardNow' - a[1] < Window => a \in buckets'[h]
  BY <1>2 DEF Intake!BucketsFollow
<1>3. CASE ~Intake!WithinLimit(k)
  <2>1. buckets' = [buckets EXCEPT ![k] = Intake!Recent(k)] /\ admitted' = admitted
    BY <1>3 DEF Intake!EvaluateReceptionistRateLimit
  <2>2. Intake!BucketsFollow'
    <3>1. buckets' \in [Intake!Keys -> SUBSET (Nat \X Nat)]
          /\ admitted' \in [Intake!Keys -> SUBSET (Nat \X Nat)]
      BY <1>0, <1>1, <2>1
    <3>2. buckets'[k] = Intake!Recent(k) /\ \A h \in Intake!Keys : h # k => buckets'[h] = buckets[h]
      BY <1>0, <2>1
    <3>3. /\ Intake!IsFiniteSet(admitted'[k]) /\ buckets'[k] \subseteq admitted'[k]
          /\ \A a \in admitted'[k] :
                /\ a[1] <= cardNow' /\ a[2] < Intake!Cardinality(admitted'[k])
                /\ cardNow' - a[1] < Window => a \in buckets'[k]
      BY <1>0, <1>1, <2>1, <3>2
    <3> QED
      BY <1>2, <2>1, <3>1, <3>2, <3>3 DEF Intake!BucketsFollow
  <2>3. Intake!LimitHolds'
    BY <2>1 DEF Intake!LimitHolds
  <2> QED
    BY <2>2, <2>3
<1>4. CASE Intake!WithinLimit(k)
  <2>1. PICK new : new = <<cardNow, Intake!Cardinality(admitted[k])>>
    OBVIOUS
  <2>2. /\ buckets' = [buckets EXCEPT ![k] = Intake!Recent(k) \union {new}]
        /\ admitted' = [admitted EXCEPT ![k] = admitted[k] \union {new}]
    BY <1>4, <2>1 DEF Intake!EvaluateReceptionistRateLimit
  <2>3. Intake!Cardinality(admitted[k]) \in Nat /\ new \in Nat \X Nat
    BY <1>0, <2>1, FS_CardinalityType, IntakeCounts
  <2>4. new \notin admitted[k]
    BY <1>0, <2>1, <2>3
  <2>5. /\ Intake!IsFiniteSet(admitted[k] \union {new})
        /\ Intake!Cardinality(admitted[k] \union {new}) = Intake!Cardinality(admitted[k]) + 1
    BY <1>0, <2>4, FS_AddElement, IntakeCounts
  <2>6. /\ buckets'[k] = Intake!Recent(k) \union {new} /\ admitted'[k] = admitted[k] \union {new}
        /\ \A h \in Intake!Keys : h # k => buckets'[h] = buckets[h] /\ admitted'[h] = admitted[h]
    BY <1>0, <2>2
  <2>7. Intake!BucketsFollow'
    <3>1. buckets' \in [Intake!Keys -> SUBSET (Nat \X Nat)]
          /\ admitted' \in [Intake!Keys -> SUBSET (Nat \X Nat)]
      <4>1. Intake!Recent(k) \union {new} \in SUBSET (Nat \X Nat)
            /\ admitted[k] \union {new} \in SUBSET (Nat \X Nat)
        BY <1>0, <1>1, <2>3
      <4> QED
        BY <1>0, <2>2, <4>1
    <3>2. ASSUME NEW a \in admitted'[k]
          PROVE  /\ a[1] <= cardNow' /\ a[2] < Intake!Cardinality(admitted'[k])
                 /\ cardNow' - a[1] < Window => a \in buckets'[k]
      <4>1. CASE a = new
        BY <2>1, <2>3, <2>5, <2>6, <4>1
      <4>2. CASE a \in admitted[k]
        <5>1. a[1] \in Nat /\ a[2] \in Nat
          BY <1>0, <4>2
        <5> QED
          BY <1>0, <1>1, <2>3, <2>5, <2>6, <4>2, <5>1
      <4> QED
        BY <2>6, <4>1, <4>2
    <3>3. Intake!IsFiniteSet(admitted'[k]) /\ buckets'[k] \subseteq admitted'[k]
      BY <1>0, <1>1, <2>5, <2>6
    <3> QED
      BY <1>2, <2>6, <3>1, <3>2, <3>3 DEF Intake!BucketsFollow
  <2>8. Intake!LimitHolds'
    <3> SUFFICES ASSUME NEW h \in Intake!Keys, NEW t \in 0 .. cardNow
                 PROVE  Intake!Cardinality({a \in admitted'[h] : a[1] \in t .. t + Window - 1}) <= Limit
      BY DEF Intake!LimitHolds
    <3>1. CASE h # k
      BY <2>6, <3>1 DEF Intake!LimitHolds
    <3>2. CASE h = k
      <4>1. PICK S : S = admitted[k]
        OBVIOUS
      <4>2. PICK B : B = buckets[k]
        OBVIOUS
      <4>3. PICK n \in Nat : n = cardNow
        OBVIOUS
      <4>4. /\ Intake!IsFiniteSet(S) /\ S \subseteq Nat \X Nat /\ B \subseteq S
            /\ \A a \in S : a[1] <= n /\ (n - a[1] < Window => a \in B)
        BY <1>0, <4>1, <4>2, <4>3
      <4>5. Intake!Cardinality(Fresh(B, n)) < Limit
        BY <1>4, <4>2, <4>3 DEF Intake!WithinLimit, Intake!Recent, Fresh
      <4>6. \A u \in 0 .. n : Intake!Cardinality(InWindow(S, u)) <= Limit
        BY <4>1, <4>3 DEF Intake!LimitHolds, InWindow
      <4>7. new = <<n, Intake!Cardinality(S)>> /\ t \in 0 .. n
        BY <2>1, <4>1, <4>3
      <4>8. Intake!Cardinality(InWindow(S \union {new}, t)) <= Limit
        BY <4>4, <4>5, <4>6, <4>7, AdmittingKeepsLimit
      <4> QED
        BY <2>6, <3>2, <4>1, <4>8 DEF InWindow
    <3> QED
      BY <3>1, <3>2
  <2> QED
    BY <2>7, <2>8
<1> QED
  BY <1>3, <1>4

-----------------------------------------------------------------------------
(* The server. *)

\* A run that is not blocked is of a request within the limit, with no reason to
\* block it.
LEMMA RunIsChecked ==
  ASSUME NEW r, NEW within,
         NEW status, status = Intake!W!RunReceptionistWorkflow(r, within,
         Intake!W!NoProviders).providerStatus
  PROVE  /\ status \in {"blocked_by_policy", "provider_unconfigured"}
         /\ status # "blocked_by_policy" => Intake!W!EvaluateReceptionistSafety(r) = {}
<1> DEFINE reasons == (IF within THEN {} ELSE {"rate_limit_exceeded"}) \union Intake!W!EvaluateReceptionistSafety(r)
<1>1. status = IF reasons # {} THEN "blocked_by_policy"
               ELSE Intake!W!StatusForCommandSubmission(Intake!W!NoProviders,
               Intake!W!RequiresHumanReview(r))
  BY DEF Intake!W!RunReceptionistWorkflow
<1>2. Intake!W!StatusForCommandSubmission(Intake!W!NoProviders,
      Intake!W!RequiresHumanReview(r)) = "provider_unconfigured"
  BY DEF Intake!W!StatusForCommandSubmission, Intake!W!NoProviders
<1> QED
  BY <1>1, <1>2

\* The answer to a request that is not stored.
LEMMA AnsweredHolds ==
  ASSUME Intake!IndInv, NEW j \in Intake!Ids, ~jobs[j].success, NEW success \in BOOLEAN,
         NEW status \in Intake!ReplyStatuses,
         jobs' = Intake!Answered(j, success, status), success => status = "event_store_unavailable",
         cardDatabase' = cardDatabase, rows[j] \subseteq rows'[j], Intake!NoGap(j)',
         rows'[j] # {} => rows[j] # {} \/ Intake!Storing(j)
  PROVE  /\ jobs' \in Seq(Intake!JobRows) /\ Len(jobs') = Len(jobs) /\ KeepsPosts
         /\ \A i \in Intake!Ids : i # j => jobs'[i] = jobs[i]
         /\ Holds(j)'
<1>0. Intake!RequestsAreWhole /\ Holds(j)
  BY IndInvHolds DEF Intake!IndInv
<1>1. /\ jobs' \in Seq(Intake!JobRows) /\ Len(jobs') = Len(jobs) /\ KeepsPosts
      /\ jobs'[j].pc = "answered" /\ jobs'[j].success = success
      /\ jobs'[j].providerStatus = status /\ jobs'[j].message = jobs[j].message
      /\ \A i \in Intake!Ids : i # j => jobs'[i] = jobs[i]
  BY <1>0, AnswerOf, Zenon
<1>2. Intake!StoredSoFar(j)'
  BY <1>0, <1>1 DEF Holds, Intake!StoredSoFar, Intake!Storing, Intake!RowStatements
<1>3. Intake!Confirmed(j)'
  BY <1>1 DEF Intake!Confirmed
<1> QED
  BY <1>1, <1>2, <1>3 DEF Holds

LEMMA HandleStep ==
  ASSUME Intake!IndInv, NEW j \in Intake!Ids, Intake!Handle(j)
  PROVE  Intake!IndInv'
<1>0. /\ Intake!RequestsAreWhole /\ Holds(j) /\ rows[j] = {} /\ jobs[j].pc = "posted"
         /\ ~jobs[j].success
      /\ cardDatabase \in BOOLEAN
  BY IndInvHolds, NothingStoredYet, WorkSucceedsLater DEF Intake!IndInv, Intake!Handle,
     Intake!RequestsAreWhole
<1>1. PICK status : status = Intake!W!RunReceptionistWorkflow(jobs[j].message,
                    Intake!WithinLimit(Intake!KeyOf(j)), Intake!W!NoProviders).providerStatus
  OBVIOUS
<1>2. /\ jobs[j].message.valid
      /\ Intake!EvaluateReceptionistRateLimit(Intake!KeyOf(j))
      /\ jobs' = IF status = "blocked_by_policy"
                 THEN Intake!Answered(j, FALSE, "blocked_by_policy")
                 ELSE IF ~cardDatabase THEN Intake!Answered(j, TRUE, "event_store_unavailable")
                 ELSE [jobs EXCEPT ![j].pc = "interaction", ![j].providerStatus = status]
      /\ UNCHANGED <<cardDatabase, form, rows, beacons, ledger, cardNow>>
  BY <1>1 DEF Intake!Handle
<1>3. /\ status \in {"blocked_by_policy", "provider_unconfigured"}
      /\ status # "blocked_by_policy" => Intake!W!EvaluateReceptionistSafety(jobs[j].message) = {}
  <2>1. PICK r : r = jobs[j].message
    OBVIOUS
  <2>2. PICK within : within = Intake!WithinLimit(Intake!KeyOf(j))
    OBVIOUS
  <2> QED
    BY <1>1, <2>1, <2>2, RunIsChecked
<1>4. Intake!BucketsFollow' /\ Intake!LimitHolds'
  <2>1. PICK y \in Intake!JobRows : y = jobs[j]
    BY <1>0, JobTyped
  <2>2. y.visitor \in Visitors /\ y.surface \in Surfaces
    BY DEF Intake!JobRows
  <2>3. Intake!KeyOf(j) \in Intake!Keys
    BY <2>1, <2>2 DEF Intake!KeyOf, Intake!Keys
  <2>4. PICK k \in Intake!Keys : k = Intake!KeyOf(j)
    BY <2>3
  <2>5. Intake!EvaluateReceptionistRateLimit(k)
    BY <1>2, <2>4
  <2> QED
    BY <1>0, <1>2, <2>5, LimitStep DEF Intake!IndInv, Intake!RequestsAreWhole
<1>5. Intake!NoGap(j)'
  BY <1>0, <1>2 DEF Intake!NoGap, Intake!RowStatements, Intake!RowAfter
<1>6. /\ jobs' \in Seq(Intake!JobRows) /\ Len(jobs') = Len(jobs) /\ KeepsPosts
      /\ \A i \in Intake!Ids : i # j => jobs'[i] = jobs[i]
      /\ Holds(j)'
  <2>1. CASE status = "blocked_by_policy"
    <3>1. jobs' = Intake!Answered(j, FALSE, "blocked_by_policy")
      BY <1>2, <2>1
    <3>2. "blocked_by_policy" \in Intake!ReplyStatuses
      BY DEF Intake!ReplyStatuses
    <3> QED
      BY <1>0, <1>2, <1>5, <3>1, <3>2, AnsweredHolds, Zenon
  <2>2. CASE status # "blocked_by_policy" /\ ~cardDatabase
    <3>1. jobs' = Intake!Answered(j, TRUE, "event_store_unavailable")
      BY <1>2, <2>2
    <3>2. "event_store_unavailable" \in Intake!ReplyStatuses
      BY DEF Intake!ReplyStatuses
    <3> QED
      BY <1>0, <1>2, <1>5, <3>1, <3>2, AnsweredHolds, Zenon
  <2>3. CASE status # "blocked_by_policy" /\ cardDatabase
    <3>1. jobs' = [jobs EXCEPT ![j].pc = "interaction", ![j].providerStatus = status]
      BY <1>2, <2>3
    <3>2. "interaction" \in Intake!Steps /\ status \in Intake!ReplyStatuses
      BY <1>3 DEF Intake!Steps, Intake!RowStatements, Intake!ReplyStatuses
    <3>3. /\ jobs' \in Seq(Intake!JobRows) /\ Len(jobs') = Len(jobs) /\ KeepsPosts
          /\ jobs'[j].pc = "interaction" /\ jobs'[j].success = jobs[j].success
          /\ jobs'[j].message = jobs[j].message
          /\ \A i \in Intake!Ids : i # j => jobs'[i] = jobs[i]
      BY <1>0, <3>1, <3>2, MoveOf
    <3>4. Intake!StoredSoFar(j)'
      <4>1. /\ Intake!W!EvaluateReceptionistSafety(jobs'[j].message) = {}
            /\ jobs'[j].message.valid /\ rows'[j] = {} /\ cardDatabase'
        BY <1>0, <1>2, <1>3, <2>3, <3>3
      <4>2. "interaction" \in Intake!RowStatements /\ Intake!RowsBefore["interaction"] = {}
            /\ "interaction" # "posted"
        BY DEF Intake!RowStatements, Intake!RowsBefore
      <4> QED
        BY <1>0, <3>3, <4>1, <4>2 DEF Intake!StoredSoFar, Intake!Storing
    <3>5. Intake!Confirmed(j)'
      BY <3>3 DEF Intake!Confirmed
    <3> QED
      BY <1>5, <3>3, <3>4, <3>5 DEF Holds
  <2> QED
    BY <2>1, <2>2, <2>3
<1>7. /\ Intake!RequestsAreWhole' /\ Intake!PagesFollow' /\ Grows
      /\ \A i \in Intake!Ids' : Intake!StoredSoFar(i)' /\ Intake!NoGap(i)' /\ Intake!Confirmed(i)'
  BY <1>0, <1>2, <1>6, ServerStep DEF Intake!RequestsAreWhole
<1>8. Intake!EventsFollow'
  BY <1>2, <1>7, SameEvents DEF Intake!IndInv
<1> QED
  BY <1>4, <1>7, <1>8 DEF Intake!IndInv

LEMMA FailStoreStep ==
  ASSUME Intake!IndInv, NEW j \in Intake!Ids, Intake!FailStore(j)
  PROVE  Intake!IndInv'
<1>0. Intake!RequestsAreWhole /\ Holds(j) /\ Intake!Storing(j) /\ ~jobs[j].success
  BY IndInvHolds, WorkSucceedsLater DEF Intake!IndInv, Intake!FailStore, Intake!Storing
<1>1. PICK some \in BOOLEAN :
        rows' = IF jobs[j].pc = "steps" /\ some
                THEN [rows EXCEPT ![j] = @ \union {"someSteps"}] ELSE rows
  BY DEF Intake!FailStore
<1>2. /\ jobs' = Intake!Answered(j, TRUE, "event_store_unavailable")
      /\ UNCHANGED <<cardDatabase, form, beacons, ledger, buckets, admitted, cardNow>>
  BY DEF Intake!FailStore
<1>3. /\ rows' \in Seq(SUBSET (Intake!RowStatements \union {"someSteps"})) /\ Len(rows') = Len(rows)
      /\ \A i \in Intake!Ids : i # j => rows'[i] = rows[i]
      /\ \/ rows'[j] = rows[j]
         \/ jobs[j].pc = "steps" /\ rows'[j] = rows[j] \union {"someSteps"}
  <2>1. CASE rows' = rows
    BY <1>0, <2>1 DEF Intake!RequestsAreWhole
  <2>2. CASE jobs[j].pc = "steps" /\ rows' = [rows EXCEPT ![j] = rows[j] \union {"someSteps"}]
    <3>1. PICK x \in SUBSET (Intake!RowStatements \union {"someSteps"}) : x = rows[j] \union {"someSteps"}
      BY <1>0, JobTyped
    <3>2. rows' = [rows EXCEPT ![j] = x] /\ j \in 1 .. Len(rows) /\ Intake!Ids = 1 .. Len(rows)
      BY <1>0, <2>2, <3>1 DEF Intake!RequestsAreWhole, Intake!Ids
    <3> QED
      BY <1>0, <2>2, <3>1, <3>2, EntryReplaced DEF Intake!RequestsAreWhole
  <2> QED
    BY <1>1, <2>1, <2>2
<1>4. Intake!NoGap(j)'
  <2>1. CASE rows'[j] = rows[j]
    BY <1>0, <2>1 DEF Holds, Intake!NoGap
  <2>2. CASE jobs[j].pc = "steps" /\ rows'[j] = rows[j] \union {"someSteps"}
    <3>1. rows[j] = {"interaction", "turn", "task", "events"}
      BY <1>0, <2>2 DEF Holds, Intake!StoredSoFar, Intake!RowStatements, Intake!RowsBefore
    <3> QED
      BY <2>2, <3>1 DEF Intake!NoGap, Intake!RowStatements, Intake!RowAfter
  <2> QED
    BY <1>3, <2>1, <2>2
<1>5. /\ jobs' \in Seq(Intake!JobRows) /\ Len(jobs') = Len(jobs) /\ KeepsPosts
      /\ \A i \in Intake!Ids : i # j => jobs'[i] = jobs[i]
      /\ Holds(j)'
  <2>1. "event_store_unavailable" \in Intake!ReplyStatuses
    BY DEF Intake!ReplyStatuses
  <2>2. rows[j] \subseteq rows'[j]
    BY <1>3
  <2> QED
    BY <1>0, <1>2, <1>4, <2>1, <2>2, AnsweredHolds, Zenon
<1>6. /\ Intake!RequestsAreWhole' /\ Intake!PagesFollow' /\ Grows
      /\ \A i \in Intake!Ids' : Intake!StoredSoFar(i)' /\ Intake!NoGap(i)' /\ Intake!Confirmed(i)'
  BY <1>2, <1>3, <1>5, ServerStep
<1>7. Intake!EventsFollow'
  BY <1>2, <1>6, SameEvents DEF Intake!IndInv
<1> QED
  BY <1>2, <1>6, <1>7, SameBuckets DEF Intake!IndInv

LEMMA PcMoved ==
  ASSUME Intake!RequestsAreWhole, NEW j \in Intake!Ids, NEW pc \in Intake!Steps,
         jobs' = [jobs EXCEPT ![j].pc = pc]
  PROVE  /\ jobs' \in Seq(Intake!JobRows) /\ Len(jobs') = Len(jobs) /\ KeepsPosts
         /\ jobs'[j].pc = pc /\ jobs'[j].success = jobs[j].success
         /\ jobs'[j].message = jobs[j].message /\ jobs'[j].visitor = jobs[j].visitor
         /\ \A i \in Intake!Ids : i # j => jobs'[i] = jobs[i]
<1>1. PICK y \in Intake!JobRows : y = jobs[j]
  BY JobTyped
<1> DEFINE x == [y EXCEPT !.pc = pc]
<1>2. x \in Intake!JobRows /\ x.pc = pc /\ x.success = y.success /\ x.message = y.message
      /\ x.visitor = y.visitor /\ x.surface = y.surface /\ x.seen = y.seen
  BY DEF Intake!JobRows
<1>3. jobs' = [jobs EXCEPT ![j] = x]
  BY <1>1
<1> HIDE DEF x
<1>4. /\ jobs' \in Seq(Intake!JobRows) /\ Len(jobs') = Len(jobs) /\ Intake!Ids' = Intake!Ids
      /\ jobs'[j] = x /\ \A i \in Intake!Ids : i # j => jobs'[i] = jobs[i]
  BY <1>2, <1>3, JobReplaced
<1> QED
  BY <1>1, <1>2, <1>4 DEF KeepsPosts

LEMMA Kinds ==
  ASSUME NEW type
  PROVE  /\ \A x, y \in Intake!KindEvents(type) : x = y
         /\ Intake!KindEvents(type) \subseteq
                {"receptionist_meeting_requested", "receptionist_callback_requested",
                 "receptionist_lead_qualified"}
BY DEF Intake!KindEvents

\* A row is written: the next statement is a row's, or the first of the ledger.
LEMMA RowStored ==
  ASSUME Intake!IndInv, NEW j \in Intake!Ids, Intake!Store(j), jobs[j].pc \in Intake!RowStatements
  PROVE  Intake!IndInv'
<1>0. Intake!RequestsAreWhole /\ Holds(j) /\ Intake!Storing(j) /\ ~jobs[j].success
  BY IndInvHolds, WorkSucceedsLater DEF Intake!IndInv, Intake!Store, Intake!Storing
<1>1. PICK pc \in Intake!RowStatements : pc = jobs[j].pc
  OBVIOUS
<1>2. /\ rows' = [rows EXCEPT ![j] = rows[j] \union {pc}] /\ ledger' = ledger
      /\ UNCHANGED <<cardDatabase, form, beacons, buckets, admitted, cardNow>>
  BY <1>1 DEF Intake!Store
<1>3. PICK next : next = Intake!RowAfter[pc]
  OBVIOUS
<1>4. next # "answered" /\ next \in Intake!Steps
  BY <1>3 DEF Intake!RowAfter, Intake!RowStatements, Intake!Steps
<1>5. jobs' = [jobs EXCEPT ![j].pc = next]
  BY <1>1, <1>3, <1>4 DEF Intake!Store, Intake!Follows
<1>6. /\ jobs' \in Seq(Intake!JobRows) /\ Len(jobs') = Len(jobs) /\ KeepsPosts
      /\ jobs'[j].pc = next /\ jobs'[j].success = jobs[j].success
      /\ jobs'[j].message = jobs[j].message /\ jobs'[j].visitor = jobs[j].visitor
      /\ \A i \in Intake!Ids : i # j => jobs'[i] = jobs[i]
  BY <1>0, <1>4, <1>5, PcMoved
<1>7. /\ rows' \in Seq(SUBSET (Intake!RowStatements \union {"someSteps"})) /\ Len(rows') = Len(rows)
      /\ \A i \in Intake!Ids : i # j => rows'[i] = rows[i]
      /\ rows'[j] = rows[j] \union {pc}
  <2>1. PICK x \in SUBSET (Intake!RowStatements \union {"someSteps"}) : x = rows[j] \union {pc}
    BY <1>0, JobTyped
  <2>2. rows' = [rows EXCEPT ![j] = x] /\ j \in 1 .. Len(rows) /\ Intake!Ids = 1 .. Len(rows)
    BY <1>0, <1>2, <2>1 DEF Intake!RequestsAreWhole, Intake!Ids
  <2> QED
    BY <1>0, <2>1, <2>2, EntryReplaced DEF Intake!RequestsAreWhole
<1>8. rows[j] = Intake!RowsBefore[pc]
  BY <1>0, <1>1 DEF Holds, Intake!StoredSoFar
<1>9. /\ next \in Intake!RowStatements => rows'[j] = Intake!RowsBefore[next]
      /\ next \notin Intake!RowStatements => next = "receptionist_request_submitted"
         /\ rows'[j] = Intake!RowStatements
      /\ next # "posted"
  BY <1>3, <1>7, <1>8 DEF Intake!RowStatements, Intake!RowsBefore, Intake!RowAfter
<1>10. Intake!NoGap(j)'
  BY <1>7, <1>8 DEF Intake!NoGap, Intake!RowStatements, Intake!RowsBefore, Intake!RowAfter
<1>11. Intake!StoredSoFar(j)'
  <2>1. /\ Intake!W!EvaluateReceptionistSafety(jobs'[j].message) = {}
        /\ jobs'[j].message.valid /\ cardDatabase'
    BY <1>0, <1>2, <1>6 DEF Holds, Intake!StoredSoFar
  <2>2. "receptionist_request_submitted" \in Intake!LedgerStatements(jobs'[j].message.type)
    BY DEF Intake!LedgerStatements
  <2> QED
    BY <1>0, <1>6, <1>9, <2>1, <2>2 DEF Intake!StoredSoFar
<1>12. Intake!Confirmed(j)'
  BY <1>4, <1>6 DEF Intake!Confirmed
<1>13. /\ Intake!RequestsAreWhole' /\ Intake!PagesFollow' /\ Grows
       /\ \A i \in Intake!Ids' : Intake!StoredSoFar(i)' /\ Intake!NoGap(i)' /\ Intake!Confirmed(i)'
  <2>1. Holds(j)' /\ rows[j] \subseteq rows'[j]
    BY <1>7, <1>10, <1>11, <1>12 DEF Holds
  <2> QED
    BY <1>2, <1>6, <1>7, <2>1, ServerStep
<1>14. Intake!EventsFollow'
  BY <1>2, <1>13, SameEvents DEF Intake!IndInv
<1> QED
  BY <1>2, <1>13, <1>14, SameBuckets DEF Intake!IndInv

\* A ledger event is written: the next is the one of its kind, or the answer.
LEMMA EventStored ==
  ASSUME Intake!IndInv, NEW j \in Intake!Ids, Intake!Store(j),
         jobs[j].pc \notin Intake!RowStatements
  PROVE  Intake!IndInv'
<1>0. Intake!RequestsAreWhole /\ Holds(j) /\ Intake!Storing(j) /\ ~jobs[j].success
  BY IndInvHolds, WorkSucceedsLater DEF Intake!IndInv, Intake!Store, Intake!Storing
<1>1. PICK y \in Intake!JobRows : y = jobs[j]
  BY <1>0, JobTyped
<1>2. PICK type : type = y.message.type
  OBVIOUS
<1>3. PICK event : event = Intake!ServerEvent(j, y.pc)
  OBVIOUS
<1>4. /\ rows' = rows /\ ledger' = ledger \union {event}
      /\ UNCHANGED <<cardDatabase, form, beacons, buckets, admitted, cardNow>>
  BY <1>1, <1>3 DEF Intake!Store
<1>5. /\ y.pc \in Intake!LedgerStatements(type) /\ rows[j] = Intake!RowStatements
      /\ y.pc # "receptionist_request_submitted" =>
             Intake!ServerEvent(j, "receptionist_request_submitted") \in ledger
  BY <1>0, <1>1, <1>2 DEF Holds, Intake!StoredSoFar
<1>6. PICK next : /\ Intake!Follows(y.pc, type, next)
                  /\ jobs' = IF next = "answered" THEN Intake!Answered(j, TRUE, y.providerStatus)
                             ELSE [jobs EXCEPT ![j].pc = next]
  BY <1>1, <1>2 DEF Intake!Store
<1>7. \/ y.pc = "receptionist_request_submitted" /\ next \in Intake!KindEvents(type)
      \/ /\ next = "answered"
         /\ y.pc = "receptionist_request_submitted" => Intake!KindEvents(type) = {}
  BY <1>1, <1>6 DEF Intake!Follows
<1>8. Intake!NoGap(j)'
  BY <1>0, <1>4 DEF Holds, Intake!NoGap
<1>9. /\ jobs' \in Seq(Intake!JobRows) /\ Len(jobs') = Len(jobs) /\ KeepsPosts
      /\ \A i \in Intake!Ids : i # j => jobs'[i] = jobs[i]
      /\ jobs'[j].message = jobs[j].message /\ jobs'[j].visitor = jobs[j].visitor
      /\ Intake!StoredSoFar(j)' /\ Intake!Confirmed(j)'
  <2>1. CASE y.pc = "receptionist_request_submitted" /\ next \in Intake!KindEvents(type)
    <3>1. /\ next \in Intake!Steps /\ next # "answered" /\ next \notin Intake!RowStatements
             /\ next # "posted"
          /\ next # "gone" /\ next # "receptionist_request_submitted"
      BY <2>1, Kinds DEF Intake!Steps, Intake!RowStatements
    <3>2. jobs' = [jobs EXCEPT ![j].pc = next]
      BY <1>6, <3>1
    <3>3. /\ jobs' \in Seq(Intake!JobRows) /\ Len(jobs') = Len(jobs) /\ KeepsPosts
          /\ jobs'[j].pc = next /\ jobs'[j].success = jobs[j].success
          /\ jobs'[j].message = jobs[j].message /\ jobs'[j].visitor = jobs[j].visitor
          /\ \A i \in Intake!Ids : i # j => jobs'[i] = jobs[i]
      BY <1>0, <3>1, <3>2, PcMoved
    <3>4. Intake!StoredSoFar(j)'
      <4>1. /\ Intake!W!EvaluateReceptionistSafety(jobs'[j].message) = {}
            /\ jobs'[j].message.valid /\ cardDatabase'
        BY <1>0, <1>4, <3>3 DEF Holds, Intake!StoredSoFar
      <4>2. next \in Intake!LedgerStatements(jobs'[j].message.type)
        BY <1>1, <1>2, <2>1, <3>3 DEF Intake!LedgerStatements
      <4>3. Intake!ServerEvent(j, "receptionist_request_submitted")' \in ledger'
        BY <1>3, <1>4, <2>1, <3>3 DEF Intake!ServerEvent
      <4> QED
        BY <1>0, <1>4, <1>5, <3>1, <3>3, <4>1, <4>2, <4>3 DEF Intake!StoredSoFar
    <3>5. Intake!Confirmed(j)'
      BY <3>1, <3>3 DEF Intake!Confirmed
    <3> QED
      BY <3>3, <3>4, <3>5
  <2>2. CASE next = "answered" /\ (y.pc = "receptionist_request_submitted"
             => Intake!KindEvents(type) = {})
    <3>1. jobs' = Intake!Answered(j, TRUE, y.providerStatus)
      BY <1>6, <2>2
    <3>2. PICK status \in Intake!ReplyStatuses : status = y.providerStatus
      BY DEF Intake!JobRows
    <3>3. /\ jobs' \in Seq(Intake!JobRows) /\ Len(jobs') = Len(jobs) /\ KeepsPosts
          /\ jobs'[j].pc = "answered" /\ jobs'[j].success = TRUE
          /\ jobs'[j].message = jobs[j].message /\ jobs'[j].visitor = jobs[j].visitor
          /\ \A i \in Intake!Ids : i # j => jobs'[i] = jobs[i]
      BY <1>0, <3>1, <3>2, AnswerOf, Zenon
    <3>4. Intake!StoredSoFar(j)'
      <4>1. /\ Intake!W!EvaluateReceptionistSafety(jobs'[j].message) = {}
            /\ jobs'[j].message.valid /\ cardDatabase'
        BY <1>0, <1>4, <3>3 DEF Holds, Intake!StoredSoFar
      <4> QED
        BY <3>3, <4>1 DEF Intake!StoredSoFar, Intake!Storing, Intake!RowStatements
    <3>5. \A e \in Intake!LedgerStatements(type) : Intake!ServerEvent(j, e) \in ledger'
      <4> SUFFICES ASSUME NEW e \in Intake!LedgerStatements(type)
                   PROVE  Intake!ServerEvent(j, e) \in ledger'
        OBVIOUS
      <4>1. CASE e = y.pc
        BY <1>3, <1>4, <4>1
      <4>2. CASE e # y.pc
        <5>1. e = "receptionist_request_submitted" /\ y.pc # "receptionist_request_submitted"
          BY <1>5, <2>2, <4>2, Kinds DEF Intake!LedgerStatements
        <5> QED
          BY <1>4, <1>5, <5>1
      <4> QED
        BY <4>1, <4>2
    <3>6. Intake!Confirmed(j)'
      BY <1>1, <1>2, <1>4, <1>5, <3>3, <3>5 DEF Intake!Confirmed, Intake!ServerEvent
    <3> QED
      BY <3>3, <3>4, <3>6
  <2> QED
    BY <1>7, <2>1, <2>2
<1>10. /\ Intake!RequestsAreWhole' /\ Intake!PagesFollow' /\ Grows
       /\ \A i \in Intake!Ids' : Intake!StoredSoFar(i)' /\ Intake!NoGap(i)' /\ Intake!Confirmed(i)'
  <2>1. Holds(j)'
    BY <1>8, <1>9 DEF Holds
  <2>2. rows' \in Seq(SUBSET (Intake!RowStatements \union {"someSteps"}))
    BY <1>0, <1>4 DEF Intake!RequestsAreWhole
  <2> QED
    BY <1>4, <1>9, <2>1, <2>2, ServerStep
<1>11. Intake!EventsFollow'
  <2>1. \A b \in beacons' : Intake!BeaconFollows(b)'
    BY <1>4, <1>10, BeaconKept DEF Intake!IndInv, Intake!EventsFollow
  <2>2. \A e \in ledger : Intake!EventFollows(e)'
    <3> TAKE e \in ledger
    <3>1. Intake!EventFollows(e)
      BY DEF Intake!IndInv, Intake!EventsFollow
    <3>2. e.by = "card" /\ e.type = "receptionist_request_started"
          => Intake!StartOf(e.visitor) \notin beacons'
      BY <1>4, <3>1 DEF Intake!EventFollows
    <3> QED
      BY <1>10, <3>1, <3>2, EventKept
  <2>3. Intake!EventFollows(event)'
    <3>1. event = [visitor |-> y.visitor, job |-> j, type |-> y.pc, by |-> "server"]
      BY <1>1, <1>3 DEF Intake!ServerEvent
    <3>2. y.visitor \in Visitors
      BY DEF Intake!JobRows
    <3>3. y.pc # "receptionist_request_started"
      BY <1>5, Kinds DEF Intake!LedgerStatements
    <3>4. j \in Intake!Ids' /\ "steps" \in rows'[j]
      BY <1>4, <1>5, <1>9 DEF KeepsPosts, Intake!RowStatements
    <3> QED
      BY <3>1, <3>2, <3>3, <3>4 DEF Intake!EventFollows
  <2> QED
    BY <1>4, <2>1, <2>2, <2>3 DEF Intake!EventsFollow
<1> QED
  BY <1>4, <1>10, <1>11, SameBuckets DEF Intake!IndInv

LEMMA RestartStep ==
  ASSUME Intake!IndInv, Intake!Restart
  PROVE  Intake!IndInv'
<1>0. Intake!RequestsAreWhole
  BY DEF Intake!IndInv
<1>1. /\ jobs' = [j \in Intake!Ids |-> IF Intake!Storing(j) THEN [jobs[j] EXCEPT !.pc = "gone"] ELSE jobs[j]]
      /\ buckets' = [k \in Intake!Keys |-> {}] /\ admitted' = [k \in Intake!Keys |-> {}]
      /\ UNCHANGED <<cardDatabase, form, rows, beacons, ledger, cardNow>>
  BY DEF Intake!Restart
<1>2. ASSUME NEW y \in Intake!JobRows
      PROVE  /\ [y EXCEPT !.pc = "gone"] \in Intake!JobRows /\ [y EXCEPT !.pc = "gone"].pc = "gone"
             /\ [y EXCEPT !.pc = "gone"].surface = y.surface
             /\ [y EXCEPT !.pc = "gone"].visitor = y.visitor
             /\ [y EXCEPT !.pc = "gone"].seen = y.seen
             /\ [y EXCEPT !.pc = "gone"].success = y.success
             /\ [y EXCEPT !.pc = "gone"].message = y.message
  BY DEF Intake!JobRows, Intake!Steps
<1>3. ASSUME NEW j \in Intake!Ids
      PROVE  /\ jobs'[j] \in Intake!JobRows
             /\ ~Intake!Storing(j) => jobs'[j] = jobs[j]
             /\ Intake!Storing(j) => jobs'[j].pc = "gone" /\ ~jobs[j].success
             /\ jobs'[j].surface = jobs[j].surface /\ jobs'[j].visitor = jobs[j].visitor
             /\ jobs'[j].seen = jobs[j].seen /\ jobs'[j].success = jobs[j].success
             /\ jobs'[j].message = jobs[j].message
  <2>1. PICK y \in Intake!JobRows : y = jobs[j]
    BY <1>0, JobTyped
  <2>2. jobs'[j] = IF Intake!Storing(j) THEN [y EXCEPT !.pc = "gone"] ELSE y
    BY <1>1, <2>1
  <2>3. Intake!Storing(j) => ~jobs[j].success
    BY WorkSucceedsLater DEF Intake!Storing
  <2> QED
    BY <1>2, <2>1, <2>2, <2>3
<1>4. jobs' \in Seq(Intake!JobRows) /\ Len(jobs') = Len(jobs)
  <2>1. PICK n \in Nat : n = Len(jobs)
    BY <1>0 DEF Intake!RequestsAreWhole
  <2>2. jobs' \in [1 .. n -> Intake!JobRows]
    BY <1>1, <1>3, <2>1 DEF Intake!Ids
  <2>3. PICK s \in [1 .. n -> Intake!JobRows] : s = jobs'
    BY <2>2
  <2>4. s \in Seq(Intake!JobRows) /\ Len(s) = n
    OBVIOUS
  <2> QED
    BY <2>1, <2>3, <2>4
<1>5. KeepsPosts /\ Grows
  BY <1>1, <1>3, <1>4 DEF KeepsPosts, Grows, Intake!Ids
<1>6. Intake!RequestsAreWhole' /\ Intake!PagesFollow'
  BY <1>0, <1>1, <1>4, <1>5, SamePages DEF Intake!IndInv, Intake!RequestsAreWhole
<1>7. \A i \in Intake!Ids : Holds(i)'
  <2> TAKE i \in Intake!Ids
  <2>0. Holds(i)
    BY IndInvHolds
  <2>1. CASE ~Intake!Storing(i)
    BY <1>1, <1>3, <2>0, <2>1, SameRequest
  <2>2. CASE Intake!Storing(i)
    <3>1. Intake!W!EvaluateReceptionistSafety(jobs'[i].message) = {} /\ jobs'[i].message.valid
          /\ cardDatabase'
      BY <1>1, <1>3, <2>0, <2>2 DEF Holds, Intake!StoredSoFar
    <3>2. Intake!StoredSoFar(i)'
      BY <1>3, <2>2, <3>1 DEF Intake!StoredSoFar, Intake!Storing, Intake!RowStatements
    <3>3. Intake!NoGap(i)' /\ Intake!Confirmed(i)'
      BY <1>1, <1>3, <2>0, <2>2 DEF Holds, Intake!NoGap, Intake!Confirmed
    <3> QED
      BY <3>2, <3>3 DEF Holds
  <2> QED
    BY <2>1, <2>2
<1>8. Intake!EventsFollow'
  BY <1>1, <1>5, SameEvents DEF Intake!IndInv
<1>9. Intake!BucketsFollow'
  BY <1>1, FS_EmptySet, IntakeCounts DEF Intake!BucketsFollow
<1>10. Intake!LimitHolds'
  <2> SUFFICES ASSUME NEW k \in Intake!Keys, NEW t
               PROVE  Intake!Cardinality({a \in admitted'[k] : a[1] \in t .. t + Window - 1}) <= Limit
    BY DEF Intake!LimitHolds
  <2>1. {a \in admitted'[k] : a[1] \in t .. t + Window - 1} = {}
    BY <1>1
  <2>2. Intake!Cardinality({}) = 0 /\ Limit \in Nat
    BY FS_EmptySet, IntakeCounts, IntakeConstants DEF Intake!ConstantsAssumed
  <2>3. Intake!Cardinality({a \in admitted'[k] : a[1] \in t .. t + Window - 1}) = 0
    BY <2>1, <2>2
  <2> QED
    BY <2>2, <2>3
<1> QED
  BY <1>5, <1>6, <1>7, <1>8, <1>9, <1>10 DEF Intake!IndInv, Holds, KeepsPosts

\* The steps that only move events.
LEMMA RequestsStay ==
  ASSUME Intake!IndInv, UNCHANGED <<cardDatabase, form, jobs, rows, buckets, admitted, cardNow>>,
         ledger \subseteq ledger'
  PROVE  /\ Intake!RequestsAreWhole' /\ Intake!PagesFollow' /\ Intake!BucketsFollow'
            /\ Intake!LimitHolds' /\ Grows
         /\ \A i \in Intake!Ids' : Intake!StoredSoFar(i)' /\ Intake!NoGap(i)'
            /\ Intake!Confirmed(i)'
<1>1. Intake!RequestsAreWhole' /\ Intake!PagesFollow' /\ Grows
  BY DEF Intake!IndInv, Intake!RequestsAreWhole, Intake!PagesFollow, Grows, Intake!Ids
<1>2. \A i \in Intake!Ids : Holds(i)'
  BY IndInvHolds, SameRequest
<1> QED
  BY <1>1, <1>2, SameBuckets DEF Intake!IndInv, Holds, Intake!Ids

LEMMA StoreEventStep ==
  ASSUME Intake!IndInv, NEW b \in beacons, Intake!StoreEvent(b)
  PROVE  Intake!IndInv'
<1>0. PICK event : event = [visitor |-> b.visitor, job |-> b.job, type |-> b.type, by |-> "card"]
  OBVIOUS
<1>1. /\ beacons' = beacons \ {b} /\ ledger' = ledger \union {event}
      /\ UNCHANGED <<cardDatabase, form, jobs, rows, buckets, admitted, cardNow>>
  BY <1>0 DEF Intake!StoreEvent
<1>2. /\ Intake!RequestsAreWhole' /\ Intake!PagesFollow' /\ Intake!BucketsFollow'
         /\ Intake!LimitHolds' /\ Grows
      /\ \A i \in Intake!Ids' : Intake!StoredSoFar(i)' /\ Intake!NoGap(i)' /\ Intake!Confirmed(i)'
  BY <1>1, RequestsStay
<1>3. \A c \in beacons' : Intake!BeaconFollows(c)'
  BY <1>1, <1>2, BeaconKept DEF Intake!IndInv, Intake!EventsFollow
<1>4. \A e \in ledger : Intake!EventFollows(e)'
  <2> TAKE e \in ledger
  <2>1. Intake!EventFollows(e)
    BY DEF Intake!IndInv, Intake!EventsFollow
  <2>2. e.by = "card" /\ e.type = "receptionist_request_started"
        => Intake!StartOf(e.visitor) \notin beacons'
    BY <1>1, <2>1 DEF Intake!EventFollows
  <2> QED
    BY <1>2, <2>1, <2>2, EventKept
<1>5. Intake!EventFollows(event)'
  <2>1. Intake!BeaconFollows(b)'
    BY <1>2, BeaconKept DEF Intake!IndInv, Intake!EventsFollow
  <2>2. b.type = "receptionist_request_started" => b = Intake!StartOf(b.visitor)
    BY <2>1 DEF Intake!BeaconFollows, Intake!StartOf
  <2>3. b.type = "receptionist_request_started" => Intake!StartOf(b.visitor) \notin beacons'
    BY <1>1, <2>2
  <2>4. /\ b.visitor \in Visitors
        /\ b.type = "receptionist_request_started" => b.job = 0 /\ form'[b.visitor].started
        /\ b.type \in Intake!Submitted => b.job \in Intake!Ids' /\ jobs'[b.job].success
    BY <2>1 DEF Intake!BeaconFollows
  <2>5. event.visitor = b.visitor /\ event.job = b.job /\ event.type = b.type /\ event.by = "card"
    BY <1>0
  <2> QED
    BY <1>0, <2>3, <2>4, <2>5 DEF Intake!EventFollows
<1> QED
  BY <1>1, <1>2, <1>3, <1>4, <1>5 DEF Intake!IndInv, Intake!EventsFollow

LEMMA LoseEventStep ==
  ASSUME Intake!IndInv, NEW b \in beacons, Intake!LoseEvent(b)
  PROVE  Intake!IndInv'
<1>1. /\ beacons' = beacons \ {b}
      /\ UNCHANGED <<cardDatabase, form, jobs, rows, ledger, buckets, admitted, cardNow>>
  BY DEF Intake!LoseEvent
<1>2. /\ Intake!RequestsAreWhole' /\ Intake!PagesFollow' /\ Intake!BucketsFollow'
         /\ Intake!LimitHolds' /\ Grows
      /\ \A i \in Intake!Ids' : Intake!StoredSoFar(i)' /\ Intake!NoGap(i)' /\ Intake!Confirmed(i)'
  BY <1>1, RequestsStay
<1> QED
  BY <1>1, <1>2, SameEvents DEF Intake!IndInv

-----------------------------------------------------------------------------
(* The browser. *)

\* What the form's first focus, and a submission without consent, change.
LEMMA FormStep ==
  ASSUME Intake!IndInv, NEW v \in Visitors, NEW f \in Intake!Forms, form' = [form EXCEPT ![v] = f],
         f.started, f.job = form[v].job,
         f.status = form[v].status \/ (f.status = "error" /\ form[v].status # "submitting"),
         NEW types, beacons' = Intake!Emit(v, 0, types), types \cap Intake!Submitted = {},
         "receptionist_request_started" \in types => ~form[v].started,
         UNCHANGED <<cardDatabase, jobs, rows, ledger, buckets, admitted, cardNow>>
  PROVE  Intake!IndInv'
<1>0. Intake!RequestsAreWhole /\ form \in [Visitors -> Intake!Forms]
  BY DEF Intake!IndInv, Intake!RequestsAreWhole
<1>1. form'[v] = f /\ \A w \in Visitors : w # v => form'[w] = form[w]
  BY <1>0
<1>2. Intake!RequestsAreWhole'
  <2>1. form' \in [Visitors -> Intake!Forms]
    BY <1>0
  <2> QED
    BY <1>0, <2>1 DEF Intake!RequestsAreWhole
<1>3. Grows
  BY <1>1 DEF Grows, Intake!Ids
<1>4. \A i \in Intake!Ids' : Intake!StoredSoFar(i)' /\ Intake!NoGap(i)' /\ Intake!Confirmed(i)'
  <2>1. \A i \in Intake!Ids : Holds(i)'
    BY IndInvHolds, SameRequest
  <2> QED
    BY <2>1 DEF Holds, Intake!Ids
<1>5. Intake!PagesFollow'
  <2>1. \A i \in Intake!Ids : jobs[i].surface \in Intake!Pages /\ ~jobs[i].seen =>
          form'[jobs[i].visitor].status = "submitting" /\ form'[jobs[i].visitor].job = i
    <3> TAKE i \in Intake!Ids
    <3>1. PICK y \in Intake!JobRows : y = jobs[i]
      BY <1>0, JobTyped
    <3>2. y.visitor \in Visitors
      BY DEF Intake!JobRows
    <3>3. y.surface \in Intake!Pages /\ ~y.seen => form[y.visitor].status = "submitting"
          /\ form[y.visitor].job = i
      BY <3>1 DEF Intake!IndInv, Intake!PagesFollow
    <3>4. y.surface \in Intake!Pages /\ ~y.seen => form'[y.visitor].status = "submitting"
          /\ form'[y.visitor].job = i
      BY <1>1, <3>2, <3>3
    <3> QED
      BY <3>1, <3>4
  <2>2. ASSUME NEW w \in Visitors
        PROVE  /\ form'[w].status \in {"submitting", "success"} => form'[w].job \in Intake!Ids
               /\ form'[w].status = "submitting" =>
                    /\ jobs[form'[w].job].surface \in Intake!Pages /\ jobs[form'[w].job].visitor = w
                    /\ ~jobs[form'[w].job].seen
               /\ form'[w].status = "success" => jobs[form'[w].job].success
    <3>1. \/ form'[w].status = form[w].status /\ form'[w].job = form[w].job
          \/ form'[w].status = "error"
      BY <1>1
    <3> QED
      BY <3>1 DEF Intake!IndInv, Intake!PagesFollow
  <2> QED
    BY <2>1, <2>2 DEF Intake!PagesFollow, Intake!Ids
<1>6. Intake!EventsFollow'
  BY <1>1, <1>3, EmittedEvents DEF Intake!IndInv
<1> QED
  BY <1>2, <1>3, <1>4, <1>5, <1>6, SameBuckets DEF Intake!IndInv

LEMMA StartedOnce ==
  ASSUME NEW v, NEW more, more \subseteq {"receptionist_request_failed"}
  PROVE  /\ (Intake!StartedEvents(v) \union more) \cap Intake!Submitted = {}
         /\ "receptionist_request_started" \in Intake!StartedEvents(v) \union more
            => ~form[v].started
BY DEF Intake!StartedEvents, Intake!Submitted

LEMMA LogStartedStep ==
  ASSUME Intake!IndInv, NEW v \in Visitors, Intake!LogStarted(v)
  PROVE  Intake!IndInv'
<1>1. PICK f \in Intake!Forms : f = form[v]
  BY DEF Intake!IndInv, Intake!RequestsAreWhole
<1>2. PICK g \in Intake!Forms : g = [f EXCEPT !.started = TRUE]
  BY DEF Intake!Forms
<1>3. g.started /\ g.job = f.job /\ g.status = f.status
  BY <1>2 DEF Intake!Forms
<1>4. form' = [form EXCEPT ![v] = g]
  BY <1>1, <1>2 DEF Intake!LogStarted
<1>5. PICK types : types = Intake!StartedEvents(v) \union {}
  OBVIOUS
<1>6. beacons' = Intake!Emit(v, 0, types)
  BY <1>5 DEF Intake!LogStarted
<1>7. types \cap Intake!Submitted = {} /\ ("receptionist_request_started" \in types
      => ~form[v].started)
  BY <1>5, StartedOnce
<1>8. UNCHANGED <<cardDatabase, jobs, rows, ledger, buckets, admitted, cardNow>>
  BY DEF Intake!LogStarted
<1>9. g.started /\ g.job = form[v].job /\ g.status = form[v].status
  BY <1>1, <1>3
<1>10. g.status = form[v].status \/ (g.status = "error" /\ form[v].status # "submitting")
  BY <1>9, Zenon
<1> QED
  BY <1>4, <1>6, <1>7, <1>8, <1>9, <1>10, FormStep

LEMMA SubmitWithoutConsentStep ==
  ASSUME Intake!IndInv, NEW v \in Visitors, Intake!SubmitWithoutConsent(v)
  PROVE  Intake!IndInv'
<1>1. PICK f \in Intake!Forms : f = form[v]
  BY DEF Intake!IndInv, Intake!RequestsAreWhole
<1>2. PICK g \in Intake!Forms : g = [f EXCEPT !.started = TRUE, !.status = "error"]
  BY DEF Intake!Forms
<1>3. g.started /\ g.job = f.job /\ g.status = "error" /\ f.status # "submitting"
  BY <1>1, <1>2 DEF Intake!Forms, Intake!SubmitWithoutConsent
<1>4. form' = [form EXCEPT ![v] = g]
  BY <1>1, <1>2 DEF Intake!SubmitWithoutConsent
<1>5. PICK types : types = Intake!StartedEvents(v) \union {"receptionist_request_failed"}
  OBVIOUS
<1>6. beacons' = Intake!Emit(v, 0, types)
  BY <1>5 DEF Intake!SubmitWithoutConsent
<1>7. types \cap Intake!Submitted = {} /\ ("receptionist_request_started" \in types
      => ~form[v].started)
  BY <1>5, StartedOnce
<1>8. UNCHANGED <<cardDatabase, jobs, rows, ledger, buckets, admitted, cardNow>>
  BY DEF Intake!SubmitWithoutConsent
<1> QED
  BY <1>1, <1>3, <1>4, <1>6, <1>7, <1>8, FormStep

\* A request is posted: it has stored nothing, and no other has changed.
LEMMA Posted ==
  ASSUME Intake!IndInv, NEW v \in Visitors, NEW s \in Surfaces, NEW m \in Messages, Intake!Post(v,
         s, m),
         cardDatabase' = cardDatabase, ledger' = ledger
  PROVE  /\ jobs' \in Seq(Intake!JobRows) /\ Len(jobs') = Len(jobs) + 1 /\ Len(jobs) \in Nat
         /\ rows' \in Seq(SUBSET (Intake!RowStatements \union {"someSteps"}))
            /\ Len(rows') = Len(jobs')
         /\ \A i \in Intake!Ids : jobs'[i] = jobs[i] /\ rows'[i] = rows[i]
         /\ LET n == Len(jobs) + 1
            IN  jobs'[n].surface = s /\ jobs'[n].visitor = v /\ jobs'[n].seen = FALSE
         /\ \A i \in Intake!Ids' : Intake!StoredSoFar(i)' /\ Intake!NoGap(i)'
            /\ Intake!Confirmed(i)'
<1>0. /\ jobs \in Seq(Intake!JobRows)
         /\ rows \in Seq(SUBSET (Intake!RowStatements \union {"someSteps"}))
      /\ Len(rows) = Len(jobs) /\ Len(jobs) \in Nat
  BY DEF Intake!IndInv, Intake!RequestsAreWhole
<1>1. PICK body \in Intake!RequestBodies : body = Intake!BodyFor(s, m)
  BY DEF Intake!RequestBodies
<1>2. PICK x : x = Intake!Job(v, s, body)
  OBVIOUS
<1>3. x \in Intake!JobRows /\ x.pc = "posted" /\ x.success = FALSE /\ x.surface = s
      /\ x.visitor = v /\ x.seen = FALSE
  BY <1>2 DEF Intake!Job, Intake!JobRows, Intake!Steps, Intake!ReplyStatuses
<1>4. jobs' = Append(jobs, x) /\ rows' = Append(rows, {})
  BY <1>1, <1>2 DEF Intake!Post
<1>5. /\ jobs' \in Seq(Intake!JobRows) /\ Len(jobs') = Len(jobs) + 1 /\ jobs'[Len(jobs) + 1] = x
      /\ \A i \in Intake!Ids : jobs'[i] = jobs[i]
  BY <1>0, <1>3, <1>4, EntryAppended DEF Intake!Ids
<1>6. /\ rows' \in Seq(SUBSET (Intake!RowStatements \union {"someSteps"}))
         /\ Len(rows') = Len(rows) + 1
      /\ rows'[Len(jobs) + 1] = {} /\ \A i \in Intake!Ids : rows'[i] = rows[i]
  <2>1. {} \in SUBSET (Intake!RowStatements \union {"someSteps"})
    OBVIOUS
  <2> QED
    BY <1>0, <1>4, <2>1, EntryAppended DEF Intake!Ids
<1>7. \A i \in Intake!Ids : Holds(i)'
  BY <1>5, <1>6, IndInvHolds, SameRequest
<1>8. ASSUME NEW n, n = Len(jobs) + 1
      PROVE  Holds(n)'
  <2>1. jobs'[n].pc = "posted" /\ jobs'[n].success = FALSE /\ rows'[n] = {}
    BY <1>3, <1>5, <1>6, <1>8
  <2>2. Intake!StoredSoFar(n)'
    BY <2>1 DEF Intake!StoredSoFar, Intake!Storing, Intake!RowStatements
  <2>3. Intake!NoGap(n)' /\ Intake!Confirmed(n)'
    BY <2>1 DEF Intake!NoGap, Intake!Confirmed
  <2> QED
    BY <2>2, <2>3 DEF Holds
<1>9. \A i \in Intake!Ids' : i \in Intake!Ids \/ i = Len(jobs) + 1
  BY <1>0, <1>5 DEF Intake!Ids
<1>10. \A i \in Intake!Ids' : Holds(i)'
  BY <1>7, <1>8, <1>9
<1> QED
  BY <1>0, <1>3, <1>5, <1>6, <1>10 DEF Holds

LEMMA SubmitStep ==
  ASSUME Intake!IndInv, NEW v \in Visitors, NEW s \in Surfaces, NEW m \in Messages,
         Intake!Submit(v, s, m)
  PROVE  Intake!IndInv'
<1>0. Intake!RequestsAreWhole /\ form \in [Visitors -> Intake!Forms]
  BY DEF Intake!IndInv, Intake!RequestsAreWhole
<1>1. /\ s \in Intake!Pages /\ form[v].status # "submitting" /\ Intake!Post(v, s, m)
      /\ UNCHANGED <<cardDatabase, ledger, buckets, admitted, cardNow>>
  BY DEF Intake!Submit
<1>2. PICK n : n = Len(jobs) + 1
  OBVIOUS
<1>3. /\ jobs' \in Seq(Intake!JobRows) /\ Len(jobs') = n /\ Len(jobs) \in Nat
      /\ rows' \in Seq(SUBSET (Intake!RowStatements \union {"someSteps"}))
         /\ Len(rows') = Len(jobs')
      /\ \A i \in Intake!Ids : jobs'[i] = jobs[i] /\ rows'[i] = rows[i]
      /\ jobs'[n].surface = s /\ jobs'[n].visitor = v /\ jobs'[n].seen = FALSE
      /\ \A i \in Intake!Ids' : Intake!StoredSoFar(i)' /\ Intake!NoGap(i)' /\ Intake!Confirmed(i)'
  BY <1>1, <1>2, Posted
<1>4. n \in Nat /\ n \in Intake!Ids' /\ n \notin Intake!Ids /\ Intake!Ids' = Intake!Ids \union {n}
  BY <1>2, <1>3 DEF Intake!Ids
<1>5. PICK f \in Intake!Forms : f = form[v]
  BY <1>0
<1>6. PICK g : g = [f EXCEPT !.status = "submitting", !.job = n, !.started = f.started
               \/ s = "form"]
  OBVIOUS
<1>7. g \in Intake!Forms /\ g.status = "submitting" /\ g.job = n /\ (f.started \/ s = "form"
      => g.started)
  BY <1>4, <1>6 DEF Intake!Forms
<1>8. form' = [form EXCEPT ![v] = g]
  BY <1>2, <1>5, <1>6 DEF Intake!Submit
<1>9. form'[v] = g /\ (\A w \in Visitors : w # v => form'[w] = form[w])
      /\ form' \in [Visitors -> Intake!Forms]
  BY <1>0, <1>7, <1>8
<1>10. Intake!RequestsAreWhole'
  BY <1>0, <1>1, <1>3, <1>9 DEF Intake!RequestsAreWhole
<1>11. Grows
  BY <1>3, <1>4, <1>5, <1>7, <1>9 DEF Grows
<1>12. Intake!PagesFollow'
  <2>1. ASSUME NEW i \in Intake!Ids, jobs'[i].surface \in Intake!Pages, ~jobs'[i].seen
        PROVE  form'[jobs'[i].visitor].status = "submitting" /\ form'[jobs'[i].visitor].job = i
    <3>1. PICK y \in Intake!JobRows : y = jobs[i]
      BY <1>0, JobTyped
    <3>2. y.visitor \in Visitors
      BY DEF Intake!JobRows
    <3>3. y.surface \in Intake!Pages /\ ~y.seen /\ jobs'[i] = y
      BY <1>3, <2>1, <3>1
    <3>4. form[y.visitor].status = "submitting" /\ form[y.visitor].job = i
      BY <3>1, <3>3 DEF Intake!IndInv, Intake!PagesFollow
    <3>5. y.visitor # v
      BY <1>1, <3>4
    <3> QED
      BY <1>9, <3>2, <3>3, <3>4, <3>5
  <2>2. form'[jobs'[n].visitor].status = "submitting" /\ form'[jobs'[n].visitor].job = n
    BY <1>3, <1>7, <1>9
  <2>3. ASSUME NEW w \in Visitors
        PROVE  /\ form'[w].status \in {"submitting", "success"} => form'[w].job \in Intake!Ids'
               /\ form'[w].status = "submitting" =>
                    /\ jobs'[form'[w].job].surface \in Intake!Pages
                       /\ jobs'[form'[w].job].visitor = w
                    /\ ~jobs'[form'[w].job].seen
               /\ form'[w].status = "success" => jobs'[form'[w].job].success
    <3>1. CASE w = v
      BY <1>1, <1>3, <1>4, <1>7, <1>9, <3>1
    <3>2. CASE w # v
      <4>1. form'[w] = form[w]
        BY <1>9, <3>2
      <4>2. /\ form[w].status \in {"submitting", "success"} => form[w].job \in Intake!Ids
            /\ form[w].status = "submitting" =>
                 /\ jobs[form[w].job].surface \in Intake!Pages /\ jobs[form[w].job].visitor = w
                 /\ ~jobs[form[w].job].seen
            /\ form[w].status = "success" => jobs[form[w].job].success
        BY DEF Intake!IndInv, Intake!PagesFollow
      <4> QED
        BY <1>3, <1>4, <4>1, <4>2
    <3> QED
      BY <3>1, <3>2
  <2> QED
    BY <1>4, <2>1, <2>2, <2>3 DEF Intake!PagesFollow
<1>13. Intake!EventsFollow'
  <2>1. CASE s = "form"
    <3>1. PICK types : types = Intake!StartedEvents(v) \union {}
      OBVIOUS
    <3>2. beacons' = Intake!Emit(v, 0, types)
      BY <2>1, <3>1 DEF Intake!Submit
    <3>3. types \cap Intake!Submitted = {} /\ ("receptionist_request_started" \in types
          => ~form[v].started)
      BY <3>1, StartedOnce
    <3>4. form'[v].started
      BY <1>7, <1>9, <2>1
    <3> QED
      BY <1>1, <1>11, <3>2, <3>3, <3>4, EmittedEvents DEF Intake!IndInv
  <2>2. CASE s # "form"
    <3>1. beacons' = beacons
      BY <2>2 DEF Intake!Submit
    <3> QED
      BY <1>1, <1>11, <3>1, SameEvents DEF Intake!IndInv
  <2> QED
    BY <2>1, <2>2
<1> QED
  BY <1>1, <1>3, <1>10, <1>12, <1>13, SameBuckets DEF Intake!IndInv

LEMMA PostDirectlyStep ==
  ASSUME Intake!IndInv, NEW v \in Visitors, NEW s \in Surfaces, NEW m \in Messages,
         Intake!PostDirectly(v, s, m)
  PROVE  Intake!IndInv'
<1>0. Intake!RequestsAreWhole
  BY DEF Intake!IndInv
<1>1. /\ s \notin Intake!Pages /\ Intake!Post(v, s, m)
      /\ UNCHANGED <<cardDatabase, form, beacons, ledger, buckets, admitted, cardNow>>
  BY DEF Intake!PostDirectly
<1>2. PICK n : n = Len(jobs) + 1
  OBVIOUS
<1>3. /\ jobs' \in Seq(Intake!JobRows) /\ Len(jobs') = n /\ Len(jobs) \in Nat
      /\ rows' \in Seq(SUBSET (Intake!RowStatements \union {"someSteps"}))
         /\ Len(rows') = Len(jobs')
      /\ \A i \in Intake!Ids : jobs'[i] = jobs[i] /\ rows'[i] = rows[i]
      /\ jobs'[n].surface = s /\ jobs'[n].visitor = v /\ jobs'[n].seen = FALSE
      /\ \A i \in Intake!Ids' : Intake!StoredSoFar(i)' /\ Intake!NoGap(i)' /\ Intake!Confirmed(i)'
  BY <1>1, <1>2, Posted
<1>4. Intake!Ids' = Intake!Ids \union {n}
  BY <1>2, <1>3 DEF Intake!Ids
<1>5. Intake!RequestsAreWhole'
  BY <1>0, <1>1, <1>3 DEF Intake!RequestsAreWhole
<1>6. Grows
  BY <1>1, <1>3, <1>4 DEF Grows
<1>7. Intake!PagesFollow'
  <2>1. \A i \in Intake!Ids' : jobs'[i].surface \in Intake!Pages /\ ~jobs'[i].seen =>
          form'[jobs'[i].visitor].status = "submitting" /\ form'[jobs'[i].visitor].job = i
    BY <1>1, <1>3, <1>4 DEF Intake!IndInv, Intake!PagesFollow
  <2>2. ASSUME NEW w \in Visitors
        PROVE  /\ form'[w].status \in {"submitting", "success"} => form'[w].job \in Intake!Ids'
               /\ form'[w].status = "submitting" =>
                    /\ jobs'[form'[w].job].surface \in Intake!Pages
                       /\ jobs'[form'[w].job].visitor = w
                    /\ ~jobs'[form'[w].job].seen
               /\ form'[w].status = "success" => jobs'[form'[w].job].success
    <3>1. form'[w] = form[w]
      BY <1>1
    <3> QED
      BY <1>3, <1>4, <3>1 DEF Intake!IndInv, Intake!PagesFollow
  <2> QED
    BY <2>1, <2>2 DEF Intake!PagesFollow
<1>8. Intake!EventsFollow'
  BY <1>1, <1>6, SameEvents DEF Intake!IndInv
<1> QED
  BY <1>1, <1>3, <1>5, <1>7, <1>8, SameBuckets DEF Intake!IndInv

\* An answer, or that there is none, reaches the page that waits for it.
LEMMA ShowStep ==
  ASSUME Intake!IndInv, NEW j \in Intake!Ids, NEW status \in {"success", "error"}, NEW events,
         Intake!Show(j, status, events),
         status = "success" => jobs[j].success,
         "receptionist_request_started" \notin events,
         \A t \in events \cap Intake!Submitted : jobs[j].success
  PROVE  Intake!IndInv'
<1>0. Intake!RequestsAreWhole /\ form \in [Visitors -> Intake!Forms]
  BY DEF Intake!IndInv, Intake!RequestsAreWhole
<1>1. PICK y \in Intake!JobRows : y = jobs[j]
  BY <1>0, JobTyped
<1>2. y.visitor \in Visitors
  BY DEF Intake!JobRows
<1>3. /\ ~y.seen /\ jobs' = [jobs EXCEPT ![j].seen = TRUE]
      /\ form' = IF y.surface \in Intake!Pages THEN [form EXCEPT ![y.visitor].status = status] ELSE form
      /\ beacons' = IF y.surface \in Intake!Pages THEN Intake!Emit(y.visitor, j,
         events) ELSE beacons
      /\ UNCHANGED <<cardDatabase, rows, ledger, buckets, admitted, cardNow>>
  BY <1>1 DEF Intake!Show
<1>4. PICK x : x = [y EXCEPT !.seen = TRUE]
  OBVIOUS
<1>5. /\ x \in Intake!JobRows /\ x.pc = y.pc /\ x.success = y.success /\ x.message = y.message
      /\ x.visitor = y.visitor /\ x.surface = y.surface /\ x.providerStatus = y.providerStatus
         /\ x.seen = TRUE
  BY <1>4 DEF Intake!JobRows
<1>6. jobs' = [jobs EXCEPT ![j] = x]
  BY <1>1, <1>3, <1>4
<1>7. /\ jobs' \in Seq(Intake!JobRows) /\ Len(jobs') = Len(jobs) /\ Intake!Ids' = Intake!Ids
      /\ jobs'[j] = x /\ \A i \in Intake!Ids : i # j => jobs'[i] = jobs[i]
  BY <1>0, <1>5, <1>6, JobReplaced
<1>8. \A i \in Intake!Ids : Holds(i)'
  <2>1. \A i \in Intake!Ids : i # j => Holds(i)'
    BY <1>3, <1>7, IndInvHolds, SameRequest
  <2>2. Holds(j)'
    <3>0. Holds(j) /\ rows'[j] = rows[j] /\ ledger' = ledger /\ cardDatabase' = cardDatabase
      BY <1>3, IndInvHolds
    <3>1. /\ jobs'[j].pc = jobs[j].pc /\ jobs'[j].success = jobs[j].success
          /\ jobs'[j].message = jobs[j].message /\ jobs'[j].visitor = jobs[j].visitor
          /\ jobs'[j].providerStatus = jobs[j].providerStatus
      BY <1>1, <1>5, <1>7
    <3>2. Intake!StoredSoFar(j)'
      BY <3>0, <3>1 DEF Holds, Intake!StoredSoFar, Intake!Storing, Intake!ServerEvent
    <3>3. Intake!NoGap(j)'
      BY <3>0 DEF Holds, Intake!NoGap
    <3>4. Intake!Confirmed(j)'
      BY <3>0, <3>1 DEF Holds, Intake!Confirmed, Intake!ServerEvent
    <3> QED
      BY <3>2, <3>3, <3>4 DEF Holds
  <2> QED
    BY <2>1, <2>2
<1>9. \A i \in Intake!Ids : jobs'[i].success = jobs[i].success /\ jobs'[i].surface = jobs[i].surface
                     /\ jobs'[i].visitor = jobs[i].visitor
  BY <1>1, <1>5, <1>7
<1>10. PICK f \in Intake!Forms : f = form[y.visitor]
  BY <1>0, <1>2
<1>11. PICK g \in Intake!Forms : g = [f EXCEPT !.status = status]
  BY DEF Intake!Forms
<1>12. g.status = status /\ g.started = f.started /\ g.job = f.job
  BY <1>11 DEF Intake!Forms
<1>13. /\ y.surface \notin Intake!Pages => form' = form
       /\ y.surface \in Intake!Pages => form' = [form EXCEPT ![y.visitor] = g]
  BY <1>3, <1>10, <1>11
<1>14. /\ form' \in [Visitors -> Intake!Forms]
       /\ \A w \in Visitors : form'[w].started = form[w].started /\ form'[w].job = form[w].job
       /\ \A w \in Visitors : w # y.visitor \/ y.surface \notin Intake!Pages => form'[w] = form[w]
       /\ y.surface \in Intake!Pages => form'[y.visitor].status = status
  <2>1. CASE y.surface \notin Intake!Pages
    BY <1>0, <1>13, <2>1
  <2>2. CASE y.surface \in Intake!Pages
    BY <1>0, <1>2, <1>10, <1>12, <1>13, <2>2
  <2> QED
    BY <2>1, <2>2
<1>15. Intake!RequestsAreWhole'
  BY <1>0, <1>3, <1>7, <1>14 DEF Intake!RequestsAreWhole
<1>16. Grows
  BY <1>3, <1>7, <1>9, <1>14 DEF Grows
<1>17. y.surface \in Intake!Pages => form[y.visitor].status = "submitting"
       /\ form[y.visitor].job = j
  BY <1>1, <1>3 DEF Intake!IndInv, Intake!PagesFollow
<1>18. Intake!PagesFollow'
  <2>1. ASSUME NEW i \in Intake!Ids, jobs'[i].surface \in Intake!Pages, ~jobs'[i].seen
        PROVE  form'[jobs'[i].visitor].status = "submitting" /\ form'[jobs'[i].visitor].job = i
    <3>1. i # j /\ jobs'[i] = jobs[i]
      BY <1>5, <1>7, <2>1
    <3>2. PICK z \in Intake!JobRows : z = jobs[i]
      BY <1>0, JobTyped
    <3>3. z.visitor \in Visitors
      BY DEF Intake!JobRows
    <3>4. form[z.visitor].status = "submitting" /\ form[z.visitor].job = i
      BY <2>1, <3>1, <3>2 DEF Intake!IndInv, Intake!PagesFollow
    <3>5. z.visitor # y.visitor \/ y.surface \notin Intake!Pages
      BY <1>17, <3>1, <3>4
    <3> QED
      BY <1>14, <3>1, <3>2, <3>3, <3>4, <3>5
  <2>2. ASSUME NEW w \in Visitors
        PROVE  /\ form'[w].status \in {"submitting", "success"} => form'[w].job \in Intake!Ids'
               /\ form'[w].status = "submitting" =>
                    /\ jobs'[form'[w].job].surface \in Intake!Pages
                       /\ jobs'[form'[w].job].visitor = w
                    /\ ~jobs'[form'[w].job].seen
               /\ form'[w].status = "success" => jobs'[form'[w].job].success
    <3>1. CASE w = y.visitor /\ y.surface \in Intake!Pages
      <4>1. form'[w].status = status /\ form'[w].job = j
        BY <1>14, <1>17, <3>1
      <4> QED
        BY <1>7, <1>9, <4>1
    <3>2. CASE w # y.visitor \/ y.surface \notin Intake!Pages
      <4>1. form'[w] = form[w]
        BY <1>14, <3>2
      <4>2. form[w].status = "submitting" => form[w].job # j
        <5>1. form[w].status = "submitting" => jobs[form[w].job].surface \in Intake!Pages
              /\ jobs[form[w].job].visitor = w
          BY DEF Intake!IndInv, Intake!PagesFollow
        <5> QED
          BY <1>1, <3>2, <5>1
      <4>3. /\ form[w].status \in {"submitting", "success"} => form[w].job \in Intake!Ids
            /\ form[w].status = "submitting" =>
                 /\ jobs[form[w].job].surface \in Intake!Pages /\ jobs[form[w].job].visitor = w
                 /\ ~jobs[form[w].job].seen
            /\ form[w].status = "success" => jobs[form[w].job].success
        BY DEF Intake!IndInv, Intake!PagesFollow
      <4> QED
        BY <1>7, <1>9, <4>1, <4>2, <4>3
    <3> QED
      BY <3>1, <3>2
  <2> QED
    BY <1>7, <2>1, <2>2 DEF Intake!PagesFollow
<1>19. Intake!EventsFollow'
  <2>1. CASE y.surface \in Intake!Pages
    <3>1. beacons' = Intake!Emit(y.visitor, j, events)
      BY <1>3, <2>1
    <3>2. \A t \in events \cap Intake!Submitted : j \in Intake!Ids' /\ jobs'[j].success
      BY <1>7, <1>9
    <3> QED
      BY <1>2, <1>3, <1>16, <3>1, <3>2, EmittedEvents DEF Intake!IndInv
  <2>2. CASE y.surface \notin Intake!Pages
    BY <1>3, <1>16, <2>2, SameEvents DEF Intake!IndInv
  <2> QED
    BY <2>1, <2>2
<1> QED
  BY <1>3, <1>7, <1>8, <1>15, <1>18, <1>19, SameBuckets DEF Intake!IndInv, Holds

LEMMA ReceiveStep ==
  ASSUME Intake!IndInv, NEW j \in Intake!Ids, Intake!Receive(j)
  PROVE  Intake!IndInv'
<1>1. PICK readable \in BOOLEAN :
        LET success == readable /\ jobs[j].success
        IN  Intake!Show(j, IF success
        /\ ~Intake!ResetFails(jobs[j].surface) THEN "success" ELSE "error",
                 Intake!EventsAfter(jobs[j].surface, success))
  BY DEF Intake!Receive
<1>2. PICK success \in BOOLEAN : success = (readable /\ jobs[j].success)
  OBVIOUS
<1>3. PICK status \in {"success", "error"} :
        status = IF success /\ ~Intake!ResetFails(jobs[j].surface) THEN "success" ELSE "error"
  OBVIOUS
<1>4. PICK events : events = Intake!EventsAfter(jobs[j].surface, success)
  OBVIOUS
<1>5. Intake!Show(j, status, events)
  BY <1>1, <1>2, <1>3, <1>4
<1>6. success => jobs[j].success
  BY <1>2
<1>7. status = "success" => success
  BY <1>3
<1>8. /\ "receptionist_request_started" \notin events
      /\ \A t \in events \cap Intake!Submitted : success
  BY <1>4 DEF Intake!EventsAfter, Intake!Submitted
<1> QED
  BY <1>5, <1>6, <1>7, <1>8, ShowStep

LEMMA LoseStep ==
  ASSUME Intake!IndInv, NEW j \in Intake!Ids, Intake!Lose(j)
  PROVE  Intake!IndInv'
<1>1. PICK events : events = Intake!FailedEvent(jobs[j].surface)
  OBVIOUS
<1>2. "receptionist_request_started" \notin events /\ events \cap Intake!Submitted = {}
  BY <1>1 DEF Intake!FailedEvent, Intake!Submitted
<1>3. PICK status \in {"success", "error"} : status = "error"
  OBVIOUS
<1>4. Intake!Show(j, status, events) /\ (status = "success" => jobs[j].success)
  BY <1>1, <1>3 DEF Intake!Lose
<1> QED
  BY <1>2, <1>4, ShowStep

-----------------------------------------------------------------------------
(* The theorems. *)

LEMMA IntakeInit ==
  ASSUME Intake!Init
  PROVE  Intake!IndInv
<1>1. Intake!RequestsAreWhole
  <2>1. \A v \in Visitors : [status |-> "idle", started |-> FALSE, job |-> 0] \in Intake!Forms
    BY DEF Intake!Forms
  <2>2. form \in [Visitors -> Intake!Forms]
    BY <2>1 DEF Intake!Init
  <2> QED
    BY <2>2, IntakeConstants DEF Intake!Init, Intake!RequestsAreWhole, Intake!ConstantsAssumed
<1>2. Intake!Ids = {}
  BY DEF Intake!Init, Intake!Ids
<1>3. Intake!PagesFollow
  BY <1>2 DEF Intake!Init, Intake!PagesFollow
<1>4. Intake!EventsFollow
  BY DEF Intake!Init, Intake!EventsFollow
<1>5. Intake!BucketsFollow
  BY FS_EmptySet, IntakeCounts DEF Intake!Init, Intake!BucketsFollow
<1>6. Intake!LimitHolds
  <2> SUFFICES ASSUME NEW k \in Intake!Keys, NEW t
               PROVE  Intake!Cardinality({a \in admitted[k] : a[1] \in t .. t + Window - 1}) <= Limit
    BY DEF Intake!LimitHolds
  <2>1. {a \in admitted[k] : a[1] \in t .. t + Window - 1} = {}
    BY DEF Intake!Init
  <2>2. Intake!Cardinality({}) = 0 /\ Limit \in Nat
    BY FS_EmptySet, IntakeCounts, IntakeConstants DEF Intake!ConstantsAssumed
  <2>3. Intake!Cardinality({a \in admitted[k] : a[1] \in t .. t + Window - 1}) = 0
    BY <2>1, <2>2
  <2> QED
    BY <2>2, <2>3
<1> QED
  BY <1>1, <1>2, <1>3, <1>4, <1>5, <1>6 DEF Intake!IndInv

LEMMA IntakeStutter ==
  ASSUME Intake!IndInv, UNCHANGED Intake!vars
  PROVE  Intake!IndInv'
BY RequestsStay, SameEvents DEF Intake!IndInv, Intake!vars

LEMMA IntakeNext ==
  ASSUME Intake!IndInv, Intake!Next
  PROVE  Intake!IndInv'
<1>1. CASE \E v \in Visitors :
             \/ Intake!LogStarted(v) \/ Intake!SubmitWithoutConsent(v)
             \/ \E s \in Surfaces, r \in Messages : Intake!Submit(v, s, r)
                \/ Intake!PostDirectly(v, s, r)
  BY <1>1, LogStartedStep, SubmitWithoutConsentStep, SubmitStep, PostDirectlyStep
<1>2. CASE \E j \in Intake!Ids : Intake!Reject(j) \/ Intake!Handle(j) \/ Intake!Store(j)
           \/ Intake!FailStore(j) \/ Intake!Receive(j) \/ Intake!Lose(j)
  BY <1>2, RejectStep, HandleStep, RowStored, EventStored, FailStoreStep, ReceiveStep, LoseStep
<1>3. CASE \E b \in beacons : Intake!StoreEvent(b) \/ Intake!LoseEvent(b)
  BY <1>3, StoreEventStep, LoseEventStep
<1> QED
  BY <1>1, <1>2, <1>3, TickStep, RestartStep DEF Intake!Next

\* What a request has stored follows its place among the statements, a page waits
\* for the one request it has open, and a bucket has every admission that counts
\* (receptionist-events.ts, ReceptionistRequestForm.tsx, rate-limit-policy.ts).
THEOREM IntakeInvariantHolds == Intake!Spec => []Intake!IndInv
BY IntakeInit, IntakeNext, IntakeStutter, PTL DEF Intake!Spec

\* The events of one start: at most one in all.
LEMMA StartedAtMostOnce ==
  ASSUME Intake!EventsFollow, NEW v \in Visitors
  PROVE  Intake!Cardinality({e \in ledger : e.visitor = v
         /\ e.type = "receptionist_request_started"})
         + Intake!Cardinality({b \in beacons : b.visitor = v
         /\ b.type = "receptionist_request_started"}) <= 1
<1> DEFINE L == {e \in ledger : e.visitor = v /\ e.type = "receptionist_request_started"}
           B == {b \in beacons : b.visitor = v /\ b.type = "receptionist_request_started"}
           stored == [visitor |-> v, job |-> 0, type |-> "receptionist_request_started",
           by |-> "card"]
<1>1. \A b \in B : b = Intake!StartOf(v)
  BY DEF Intake!EventsFollow, Intake!BeaconFollows, Intake!StartOf
<1>2. \A e \in L : e = stored /\ Intake!StartOf(v) \notin beacons
  <2> TAKE e \in L
  <2>1. Intake!EventFollows(e) /\ e.visitor = v /\ e.type = "receptionist_request_started"
    BY DEF Intake!EventsFollow
  <2>2. e.by = "card"
    BY <2>1 DEF Intake!EventFollows
  <2> QED
    BY <2>1, <2>2 DEF Intake!EventFollows
<1>3. Intake!Cardinality({}) = 0 /\ Intake!Cardinality({Intake!StartOf(v)}) = 1
      /\ Intake!Cardinality({stored}) = 1
  BY FS_EmptySet, IntakeCounts, FS_Singleton
<1>4. L = {} \/ L = {stored}
  BY <1>2
<1>5. B = {} \/ B = {Intake!StartOf(v)}
  BY <1>1
<1>6. L = {} \/ B = {}
  BY <1>1, <1>2
<1> HIDE DEF L, B, stored
<1>7. Intake!Cardinality(L) + Intake!Cardinality(B) <= 1
  <2>1. CASE L = {} /\ B = {}
    BY <1>3, <2>1
  <2>2. CASE L = {} /\ B = {Intake!StartOf(v)}
    BY <1>3, <2>2
  <2>3. CASE L = {stored} /\ B = {}
    BY <1>3, <2>3
  <2> QED
    BY <1>4, <1>5, <1>6, <2>1, <2>2, <2>3
<1> QED
  BY <1>7 DEF L, B

LEMMA IntakeInvariantSuffices ==
  ASSUME Intake!IndInv
  PROVE  Intake!IntakeIsSound
<1>1. Intake!ConfirmedIsStored
  BY DEF Intake!IndInv, Intake!Confirmed, Intake!ConfirmedIsStored
<1>2. Intake!NoOrphanRows
  <2>1. \A j \in Intake!Ids : Intake!NoGap(j)
    BY DEF Intake!IndInv
  <2>2. \A j \in Intake!Ids : \A e \in ledger : e.by = "server" /\ e.job = j => "steps" \in rows[j]
    BY DEF Intake!IndInv, Intake!EventsFollow, Intake!EventFollows
  <2> QED
    BY <2>1, <2>2 DEF Intake!NoOrphanRows, Intake!NoGap
<1>3. Intake!OnlyCheckedIsStored
  BY DEF Intake!IndInv, Intake!StoredSoFar, Intake!OnlyCheckedIsStored
<1>4. Intake!LimitHolds
  BY DEF Intake!IndInv
<1>5. Intake!ShownIsTrue
  BY DEF Intake!IndInv, Intake!PagesFollow, Intake!ShownIsTrue
<1>6. Intake!EventsAreTrue
  <2>1. ASSUME NEW e \in ledger, e.type \in {"receptionist_request_submitted",
               "calendar_request_submitted"}
        PROVE  IF e.by = "card" THEN jobs[e.job].success ELSE "task" \in rows[e.job]
    <3>1. Intake!EventFollows(e)
      BY DEF Intake!IndInv, Intake!EventsFollow
    <3>2. CASE e.by = "card"
      BY <2>1, <3>1, <3>2 DEF Intake!EventFollows, Intake!Submitted
    <3>3. CASE e.by # "card"
      <4>1. e.job \in Intake!Ids /\ "steps" \in rows[e.job]
        BY <3>1, <3>3 DEF Intake!EventFollows
      <4>2. Intake!NoGap(e.job)
        BY <4>1 DEF Intake!IndInv
      <4>3. "events" \in rows[e.job]
        BY <4>1, <4>2 DEF Intake!NoGap, Intake!RowStatements, Intake!RowAfter
      <4> QED
        BY <3>3, <4>2, <4>3 DEF Intake!NoGap, Intake!RowStatements, Intake!RowAfter
    <3> QED
      BY <3>2, <3>3
  <2> QED
    BY <2>1, StartedAtMostOnce DEF Intake!IndInv, Intake!EventsAreTrue
<1> QED
  BY <1>1, <1>2, <1>3, <1>4, <1>5, <1>6 DEF Intake!IntakeIsSound

\* For any visitors, messages, limit and window, across restarts, lost answers and
\* statements that fail: a confirmed request is stored whole, no row or ledger
\* event is left without those before it, only what was checked is stored, no
\* window holds more admissions than the limit, a page shows what is true, and
\* a start is recorded once (storeReceptionistRequest, evaluateReceptionistRateLimit,
\* handleSubmit).
THEOREM IntakeSound == Intake!Spec => []IntakeIsSound
BY IntakeInvariantHolds, IntakeInvariantSuffices, PTL DEF IntakeIsSound

-----------------------------------------------------------------------------
(* The gates in front of a call. *)

\* What the live gate has checked when it has no reason left.
LEMMA NoReasonOfProduction ==
  ASSUME NEW c, Gates!EvaluateProductionVoiceSafety(c) = {}
  PROVE  /\ c.provider = "twilio" /\ c.twilio /\ c.openAi /\ c.agent /\ ~c.testMode
         /\ c.inbound /\ c.production
<1> DEFINE k == [PROVIDER_NOT_TWILIO |-> c.provider # "twilio",
                 TWILIO_CONFIG_MISSING |-> ~c.twilio,
                 OPENAI_CONFIG_MISSING |-> ~c.openAi,
                 VOICE_AGENT_DISABLED |-> ~c.agent,
                 TEST_MODE_ENABLED |-> c.testMode,
                 LIVE_INBOUND_DISABLED |-> ~c.inbound,
                 PRODUCTION_CALLS_DISABLED |-> ~c.production,
                 HUMAN_APPROVAL_REQUIRED |-> c.approval]
<1>1. \A r \in DOMAIN k : ~k[r]
  BY DEF Gates!EvaluateProductionVoiceSafety, Gates!Reasons
<1>2. /\ ~k.PROVIDER_NOT_TWILIO /\ ~k.TWILIO_CONFIG_MISSING /\ ~k.OPENAI_CONFIG_MISSING
      /\ ~k.VOICE_AGENT_DISABLED /\ ~k.TEST_MODE_ENABLED /\ ~k.LIVE_INBOUND_DISABLED
      /\ ~k.PRODUCTION_CALLS_DISABLED
  BY <1>1
<1> QED BY <1>2

\* The gate of the mock provider has checked that it is the provider.
LEMMA NoReasonOfMock ==
  ASSUME NEW c, NEW a, Gates!EvaluateOutboundCallSafety(c, a) = {}
  PROVE  c.provider = "mock"
<1> DEFINE k == [OUTBOUND_CALLS_DISABLED |-> ~c.outbound,
                 VOICE_AGENT_ENABLED_BUT_PHASE_9_BLOCKS_EXECUTION |-> c.agent,
                 HUMAN_APPROVAL_REQUIRED |-> c.approval /\ a # "approved",
                 REAL_PROVIDER_EXECUTION_NOT_IMPLEMENTED |-> c.provider # "mock"]
<1>1. \A r \in DOMAIN k : ~k[r]
  BY DEF Gates!EvaluateOutboundCallSafety, Gates!Reasons
<1>2. ~k.REAL_PROVIDER_EXECUTION_NOT_IMPLEMENTED
  BY <1>1
<1> QED BY <1>2

\* The live gate of a request is the production gate and an approval.
LEMMA NoReasonOfLive ==
  ASSUME NEW c, NEW r, Gates!EvaluateOutboundLiveCallSafety(c, r) = {}
  PROVE  Gates!EvaluateProductionVoiceSafety(c) = {} /\ r.approval = "approved"
<1> DEFINE k == [OUTBOUND_CALLS_DISABLED |-> ~c.outbound,
                 OUTBOUND_REQUEST_NOT_APPROVED |->
                   r.approval # "approved" \/ r.status \notin {"approved", "ready_for_provider"}]
<1>1. Gates!EvaluateProductionVoiceSafety(c) = {} /\ \A n \in DOMAIN k : ~k[n]
  BY DEF Gates!EvaluateOutboundLiveCallSafety, Gates!Reasons
<1>2. ~k.OUTBOUND_REQUEST_NOT_APPROVED
  BY <1>1
<1> QED BY <1>1, <1>2

\* Both configurations read the same variable for the provider.
LEMMA OneProvider ==
  ~(Gates!TelephonyRuntimeConfig.provider = "mock"
  /\ Gates!LiveProviderRuntimeConfig.provider = "twilio")
BY DEF Gates!TelephonyRuntimeConfig, Gates!LiveProviderRuntimeConfig

\* At most one of the two gates is open.
LEMMA GatesExclude ==
  ASSUME NEW r, NEW a, Gates!EvaluateOutboundCallSafety(Gates!TelephonyRuntimeConfig, a) = {},
         Gates!EvaluateOutboundLiveCallSafety(Gates!LiveProviderRuntimeConfig, r) = {}
  PROVE  FALSE
<1>1. Gates!EvaluateProductionVoiceSafety(Gates!LiveProviderRuntimeConfig) = {}
  BY NoReasonOfLive
<1>2. Gates!LiveProviderRuntimeConfig.provider = "twilio"
  BY <1>1, NoReasonOfProduction
<1>3. Gates!TelephonyRuntimeConfig.provider = "mock"
  BY NoReasonOfMock
<1> QED BY <1>2, <1>3, OneProvider

\* A voice session that is approved for production is not in test mode.
LEMMA StoredGate ==
  ASSUME NEW c, Gates!PrepareVoiceRuntimeReadiness(c).gate = "approved_for_production"
  PROVE  ~Gates!PrepareVoiceRuntimeReadiness(c).testMode
<1>1. Gates!SafetyGateStatus(c, Gates!EvaluateProductionVoiceSafety(c)) = "approved_for_production"
  BY DEF Gates!PrepareVoiceRuntimeReadiness
<1>2. Gates!EvaluateProductionVoiceSafety(c) = {}
  BY <1>1 DEF Gates!SafetyGateStatus
<1>3. ~c.testMode
  BY <1>2, NoReasonOfProduction
<1> QED BY <1>3 DEF Gates!PrepareVoiceRuntimeReadiness

\* What the list of checks and the live gate both look at.
Judged(c) ==
  c.provider = "twilio" /\ c.twilio /\ c.openAi /\ c.agent /\ ~c.testMode /\ c.inbound

\* The gate's reasons, apart from those no check looks at.
LEMMA ReasonsOfJudged ==
  ASSUME NEW c
  PROVE  Gates!EvaluateProductionVoiceSafety(c) \subseteq Gates!GatedBesideChecks <=> Judged(c)
<1> DEFINE k == [PROVIDER_NOT_TWILIO |-> c.provider # "twilio",
                 TWILIO_CONFIG_MISSING |-> ~c.twilio,
                 OPENAI_CONFIG_MISSING |-> ~c.openAi,
                 VOICE_AGENT_DISABLED |-> ~c.agent,
                 TEST_MODE_ENABLED |-> c.testMode,
                 LIVE_INBOUND_DISABLED |-> ~c.inbound,
                 PRODUCTION_CALLS_DISABLED |-> ~c.production,
                 HUMAN_APPROVAL_REQUIRED |-> c.approval]
<1>1. Gates!EvaluateProductionVoiceSafety(c) = {n \in DOMAIN k : k[n]}
  BY DEF Gates!EvaluateProductionVoiceSafety, Gates!Reasons
<1>2. (\A n \in DOMAIN k : k[n] => n \in Gates!GatedBesideChecks)
      <=> /\ ~k.PROVIDER_NOT_TWILIO /\ ~k.TWILIO_CONFIG_MISSING /\ ~k.OPENAI_CONFIG_MISSING
          /\ ~k.VOICE_AGENT_DISABLED /\ ~k.TEST_MODE_ENABLED /\ ~k.LIVE_INBOUND_DISABLED
  BY DEF Gates!GatedBesideChecks
<1> QED BY <1>1, <1>2 DEF Judged

\* The checks, apart from those of what the gate does not read.
LEMMA ChecksOfJudged ==
  ASSUME NEW c
  PROVE  Gates!ListIsClear(Gates!ProviderReadinessChecks(c)) <=> Judged(c)
<1> DEFINE list == Gates!ProviderReadinessChecks(c)
           Fine(f) == \A name \in DOMAIN list[f] \ Gates!CheckedBesideGate :
                         list[f][name] \in {"passed", "skipped"}
<1>1. /\ list.sandbox = Gates!ValidateSandboxProviderReadiness(c)
      /\ list.twilio = Gates!ValidateTwilioReadiness(c)
      /\ list.openAi = Gates!ValidateOpenAiRealtimeReadiness(c)
      /\ list.mock = [mock_provider_default |-> Gates!Passed(c.provider = "mock", "skipped")]
      /\ DOMAIN list = {"sandbox", "twilio", "openAi", "mock"}
  BY DEF Gates!ProviderReadinessChecks
<1> HIDE DEF list
<1>2. Fine("sandbox")
  <2>1. /\ DOMAIN list.sandbox = {"sandbox_provider_mode", "sandbox_webhook_signature_policy",
                                  "sandbox_environment_gate", "production_provider_mode_gate"}
        /\ list.sandbox.sandbox_provider_mode \in {"passed", "skipped"}
    BY <1>1 DEF Gates!ValidateSandboxProviderReadiness, Gates!Passed
  <2> QED BY <2>1 DEF Gates!CheckedBesideGate
<1>3. Fine("mock")
  BY <1>1 DEF Gates!Passed
<1>4. list.twilio.telephony_provider = "passed" /\ Fine("twilio")
      <=> c.provider = "twilio" /\ c.twilio /\ c.inbound
  <2>1. /\ DOMAIN list.twilio = {"telephony_provider", "twilio_required_configuration",
                                 "twilio_webhook_signature_policy", "live_inbound_gate"}
        /\ list.twilio.telephony_provider = IF c.provider = "twilio" THEN "passed" ELSE "skipped"
        /\ list.twilio.twilio_required_configuration = IF c.twilio THEN "passed" ELSE "failed"
        /\ list.twilio.live_inbound_gate = IF c.inbound THEN "passed" ELSE "warning"
    BY <1>1 DEF Gates!ValidateTwilioReadiness, Gates!Passed
  <2> QED BY <2>1 DEF Gates!CheckedBesideGate
<1>5. Fine("openAi") <=> c.openAi /\ c.agent /\ ~c.testMode
  <2>1. /\ DOMAIN list.openAi = {"voice_runtime_provider", "openai_realtime_configuration",
                                 "voice_agent_gate", "voice_test_mode"}
        /\ list.openAi.voice_runtime_provider \in {"passed", "skipped"}
        /\ list.openAi.openai_realtime_configuration = IF c.openAi THEN "passed" ELSE "failed"
        /\ list.openAi.voice_agent_gate = IF c.agent THEN "passed" ELSE "warning"
        /\ list.openAi.voice_test_mode = IF ~c.testMode THEN "passed" ELSE "warning"
    BY <1>1 DEF Gates!ValidateOpenAiRealtimeReadiness, Gates!Passed
  <2> QED BY <2>1 DEF Gates!CheckedBesideGate
<1>6. Gates!ListIsClear(list) <=> /\ list.twilio.telephony_provider = "passed"
                                  /\ \A f \in DOMAIN list : Fine(f)
  BY DEF Gates!ListIsClear
<1> HIDE DEF Fine
<1>7. (\A f \in DOMAIN list : Fine(f)) <=>
      Fine("sandbox") /\ Fine("twilio") /\ Fine("openAi") /\ Fine("mock")
  BY <1>1
<1>8. Gates!ListIsClear(list) <=> Judged(c)
  BY <1>2, <1>3, <1>4, <1>5, <1>6, <1>7 DEF Judged
<1> QED BY <1>8 DEF list

\* Whatever the environment, those who judge the configuration agree with the gate.
LEMMA ReadinessAgrees ==
  ASSUME Gates!SessionsAreConsistent
  PROVE  Gates!ReadinessAgreesWithGate
<1> DEFINE c == Gates!LiveProviderRuntimeConfig
<1>1. ASSUME Gates!EvaluateProductionVoiceSafety(c) = {}
      PROVE  Gates!ProductionCallsAllowed(c)
  <2> HIDE DEF c
  <2> QED BY <1>1, NoReasonOfProduction DEF Gates!ProductionCallsAllowed
<1>2. /\ Gates!ListIsClear(Gates!ProviderReadinessChecks(c))
           <=> Gates!EvaluateProductionVoiceSafety(c) \subseteq Gates!GatedBesideChecks
      /\ checks = None /\ Gates!EvaluateProductionVoiceSafety(c) = {}
           => Gates!ListIsClear(Gates!DashboardChecks(c))
  <2> HIDE DEF c
  <2>1. Gates!ListIsClear(Gates!ProviderReadinessChecks(c))
          <=> Gates!EvaluateProductionVoiceSafety(c) \subseteq Gates!GatedBesideChecks
    BY ReasonsOfJudged, ChecksOfJudged
  <2>2. checks = None => Gates!DashboardChecks(c) = Gates!ProviderReadinessChecks(c)
    BY DEF Gates!DashboardChecks
  <2> QED BY <2>1, <2>2
<1>3. ~Gates!WebhookAccepted(c, "wrong", TRUE) /\ ~Gates!WebhookAccepted(c, "absent", TRUE)
  BY DEF Gates!WebhookAccepted
<1>4. ASSUME Gates!ProductionVoiceAllowed(c)
      PROVE  Gates!EvaluateProductionVoiceSafety(c) = {}
  <2> HIDE DEF c
  <2> QED BY <1>4 DEF Gates!ProductionVoiceAllowed, Gates!PrepareVoiceRuntimeReadiness
<1> QED BY <1>1, <1>2, <1>3, <1>4 DEF Gates!ReadinessAgreesWithGate, Gates!SessionsAreConsistent

-----------------------------------------------------------------------------
\* A set of naturals has a least element: induction without an operator.
LEMMA LeastNat ==
  ASSUME NEW T, T \subseteq Nat, T # {}
  PROVE  \E x \in T : \A y \in T : x <= y
  <1> DEFINE R == OpToRel(<, Nat)
  <1>1. IsWellFoundedOn(R, Nat)
    BY NatLessThanWellFounded
  <1>2. \A x, y \in Nat : x < y <=> <<x, y>> \in R
    BY DEF OpToRel
  <1> HIDE DEF R
  <1>3. \E x \in T : \A y \in T : ~(<<y, x>> \in R)
    BY <1>1, WFMin
  <1>4. PICK x \in T : \A y \in T : ~(<<y, x>> \in R)
    BY <1>3
  <1>5. \A y \in T : ~(y < x)
    BY <1>2, <1>4
  <1> QED BY <1>4, <1>5

\* Of positions with priorities one comes first ...
LEMMA OneComesFirst ==
  ASSUME NEW M, NEW list, M \subseteq Nat, M # {}, \A i \in M : list[i].priority \in Nat
  PROVE  \E i \in M : Gates!ComesFirst(i, M, list)
<1> DEFINE P == {list[i].priority : i \in M}
<1>1. P \subseteq Nat /\ P # {}
  OBVIOUS
<1>2. PICK p \in P : \A q \in P : p <= q
  BY <1>1, LeastNat
<1> DEFINE T == {i \in M : list[i].priority = p}
<1>3. T \subseteq Nat /\ T # {}
  BY <1>2
<1> HIDE DEF T
<1>4. PICK i \in T : \A j \in T : i <= j
  BY <1>3, LeastNat
<1>5. i \in M /\ list[i].priority = p
  BY <1>4 DEF T
<1>6. ASSUME NEW j \in M
      PROVE  \/ list[i].priority < list[j].priority
             \/ list[i].priority = list[j].priority /\ i <= j
  <2>1. list[j].priority \in Nat /\ p \in Nat /\ p <= list[j].priority
    BY <1>1, <1>2
  <2>2. CASE list[j].priority = p
    <3>1. j \in T
      BY <2>2 DEF T
    <3> QED BY <1>4, <1>5, <2>2, <3>1
  <2>3. CASE list[j].priority # p
    <3>1. PICK q : q = list[j].priority
      OBVIOUS
    <3>2. p < q
      BY <2>1, <2>3, <3>1
    <3> QED BY <1>5, <3>1, <3>2
  <2> QED BY <2>2, <2>3
<1> QED BY <1>5, <1>6 DEF Gates!ComesFirst

\* ... and no other does.
LEMMA NoOtherComesFirst ==
  ASSUME NEW M, NEW list, M \subseteq Nat, \A i \in M : list[i].priority \in Nat,
         NEW i, NEW j, Gates!ComesFirst(i, M, list), Gates!ComesFirst(j, M, list)
  PROVE  i = j
<1>1. i \in Nat /\ j \in Nat /\ list[i].priority \in Nat /\ list[j].priority \in Nat
  BY DEF Gates!ComesFirst
<1>2. \/ list[i].priority < list[j].priority
      \/ list[i].priority = list[j].priority /\ i <= j
  BY DEF Gates!ComesFirst
<1>3. \/ list[j].priority < list[i].priority
      \/ list[j].priority = list[i].priority /\ j <= i
  BY DEF Gates!ComesFirst
<1> QED BY <1>1, <1>2, <1>3

\* The rule that comes first decides, and it is no less urgent than any that match.
LEMMA FirstDecides ==
  ASSUME NEW context, NEW list, Gates!Matching(context, list) # {}, DOMAIN list \subseteq Nat,
         \A i \in DOMAIN list : list[i].priority \in Nat
  PROVE  \E f \in Gates!Matching(context, list) :
           /\ Gates!ComesFirst(f, Gates!Matching(context, list), list)
           /\ Gates!EvaluateTelephonyRouting(context, list) =
                [action |-> list[f].action,
                 approval |-> list[f].action = "escalate" \/ list[f].type = "emergency"]
<1> DEFINE M == Gates!Matching(context, list)
           f == CHOOSE i \in M : Gates!ComesFirst(i, M, list)
<1>1. M \subseteq Nat /\ \A i \in M : list[i].priority \in Nat
  BY DEF Gates!Matching
<1>2. f \in M /\ Gates!ComesFirst(f, M, list)
  BY <1>1, OneComesFirst
<1>3. Gates!EvaluateTelephonyRouting(context, list) =
        [action |-> list[f].action,
         approval |-> list[f].action = "escalate" \/ list[f].type = "emergency"]
  BY DEF Gates!EvaluateTelephonyRouting
<1> QED BY <1>2, <1>3

\* A foreign rule matches nothing, so that the same rules match without it.
LEMMA ForeignRuleIsIdle ==
  ASSUME rules \in Seq(Gates!Rule), NEW context, NEW i \in DOMAIN rules, ~Gates!IsFor(rules[i],
         context)
  PROVE  Gates!EvaluateTelephonyRouting(context, rules) =
         Gates!EvaluateTelephonyRouting(context, [j \in DOMAIN rules \ {i} |-> rules[j]])
<1> DEFINE own == [j \in DOMAIN rules \ {i} |-> rules[j]]
           M == Gates!Matching(context, rules)
           N == Gates!Matching(context, own)
<1>1. DOMAIN rules \subseteq Nat /\ \A j \in DOMAIN rules : rules[j].priority \in Nat
  <2>1. DOMAIN rules = 1..Len(rules) /\ \A j \in DOMAIN rules : rules[j] \in Gates!Rule
    OBVIOUS
  <2> QED BY <2>1 DEF Gates!Rule
<1>2. M = N /\ \A j \in M : own[j] = rules[j]
  BY DEF Gates!Matching, Gates!ConditionMatches, Gates!IsFor
<1>3. M \subseteq Nat /\ \A j \in M : rules[j].priority \in Nat
  BY <1>1 DEF Gates!Matching
<1>4. DOMAIN own \subseteq Nat /\ \A j \in DOMAIN own : own[j].priority \in Nat
  BY <1>1
<1> HIDE DEF own
<1>5. CASE M = {}
  BY <1>2, <1>5 DEF Gates!EvaluateTelephonyRouting, own
<1>6. CASE M # {}
  <2>1. PICK f \in M :
          /\ Gates!ComesFirst(f, M, rules)
          /\ Gates!EvaluateTelephonyRouting(context, rules) =
               [action |-> rules[f].action,
                approval |-> rules[f].action = "escalate" \/ rules[f].type = "emergency"]
    BY <1>1, <1>6, FirstDecides
  <2>2. PICK g \in N :
          /\ Gates!ComesFirst(g, N, own)
          /\ Gates!EvaluateTelephonyRouting(context, own) =
               [action |-> own[g].action,
                approval |-> own[g].action = "escalate" \/ own[g].type = "emergency"]
    BY <1>2, <1>4, <1>6, FirstDecides
  <2> HIDE DEF M, N
  <2>3. Gates!ComesFirst(g, M, rules)
    BY <1>2, <2>2 DEF Gates!ComesFirst
  <2>4. f = g
    BY <1>3, <2>1, <2>3, NoOtherComesFirst
  <2>5. own[g] = rules[f]
    BY <1>2, <2>1, <2>4
  <2> QED BY <2>1, <2>2, <2>5 DEF own
<1> QED BY <1>5, <1>6

LEMMA RoutingStaysLocal ==
  ASSUME rules \in Seq(Gates!Rule)
  PROVE  Gates!RoutingIsLocal
<1> SUFFICES ASSUME NEW i \in DOMAIN rules, NEW context \in Gates!Contexts,
                    i \in Gates!Matching(context, rules)
             PROVE  \E j \in Gates!Matching(context, rules) :
                      /\ rules[j].priority <= rules[i].priority
                      /\ Gates!EvaluateTelephonyRouting(context, rules).action = rules[j].action
                      /\ rules[j].type = "emergency"
                         => Gates!EvaluateTelephonyRouting(context, rules).approval
  BY ForeignRuleIsIdle DEF Gates!RoutingIsLocal
<1>1. DOMAIN rules \subseteq Nat /\ \A j \in DOMAIN rules : rules[j].priority \in Nat
  <2>1. DOMAIN rules = 1..Len(rules) /\ \A j \in DOMAIN rules : rules[j] \in Gates!Rule
    OBVIOUS
  <2> QED BY <2>1 DEF Gates!Rule
<1>2. PICK f \in Gates!Matching(context, rules) :
        /\ Gates!ComesFirst(f, Gates!Matching(context, rules), rules)
        /\ Gates!EvaluateTelephonyRouting(context, rules) =
             [action |-> rules[f].action,
              approval |-> rules[f].action = "escalate" \/ rules[f].type = "emergency"]
  BY <1>1, FirstDecides
<1>3. rules[f].priority \in Nat /\ rules[i].priority \in Nat
  BY <1>1, <1>2 DEF Gates!Matching
<1>4. rules[f].priority <= rules[i].priority
  <2>1. rules[f].priority < rules[i].priority \/ rules[f].priority = rules[i].priority
    BY <1>2 DEF Gates!ComesFirst
  <2> QED BY <1>3, <2>1
<1> DEFINE verdict == Gates!EvaluateTelephonyRouting(context, rules)
<1> HIDE DEF verdict
<1>5. verdict = [action |-> rules[f].action,
                 approval |-> rules[f].action = "escalate" \/ rules[f].type = "emergency"]
  BY <1>2 DEF verdict
<1>6. verdict.action = rules[f].action /\ (rules[f].type = "emergency" => verdict.approval)
  BY <1>5
<1> QED BY <1>4, <1>6 DEF verdict

-----------------------------------------------------------------------------
(* The steps. *)

\* From where a call may go on to ring, to be answered and to end.
LEMMA BeforeStatus ==
  ASSUME NEW from \in DOMAIN Gates!AllowedTransitions, NEW to \in Gates!AllowedTransitions[from]
  PROVE  /\ to \in DOMAIN Gates!AllowedTransitions
         /\ to = "ringing" => from = "queued"
         /\ to = "in_progress" => from = "ringing"
         /\ to \in {"completed", "failed"} => from = "in_progress"
BY DEF Gates!AllowedTransitions

LEMMA GatesInit == Gates!Init => Gates!IndInv
<1> SUFFICES ASSUME Gates!Init PROVE Gates!IndInv
  OBVIOUS
<1>1. Gates!TypeOK
  <2>1. env \in Environments \cup {Gates!Defaults}
    BY DEF Gates!Init
  <2>2. \A c \in InboundCalls : calls[c] \in Seq(DOMAIN Gates!AllowedTransitions)
    BY DEF Gates!Init
  <2> QED BY <2>1, <2>2 DEF Gates!Init, Gates!TypeOK
<1>2. Gates!StoresAreWhole
  BY DEF Gates!Init, Gates!StoresAreWhole
<1>3. dialled \subseteq approvedBy /\ Gates!ApprovalIsAPersons /\ Gates!SessionsAreConsistent
  BY DEF Gates!Init, Gates!ApprovalIsAPersons, Gates!SessionsAreConsistent
<1>4. Gates!RingingWasQueued /\ Gates!AnsweredCallsRang
  BY DEF Gates!Init, Gates!RingingWasQueued, Gates!AnsweredCallsRang
<1> QED BY <1>1, <1>2, <1>3, <1>4 DEF Gates!IndInv

\* What the proofs keep of the calls, and of the requests.
CallsInv ==
  /\ DOMAIN calls = InboundCalls
     /\ \A c \in InboundCalls : calls[c] \in Seq(DOMAIN Gates!AllowedTransitions)
  /\ Gates!RingingWasQueued /\ Gates!AnsweredCallsRang

OutboundInv ==
  /\ DOMAIN outbound = OutboundRequests
  /\ \A r \in OutboundRequests : outbound[r] # None =>
        outbound[r] \in [approval : {"pending", "approved", "denied", "not_required_for_mock"},
                         status : {"pending_approval", "approved", "blocked", "ready_for_provider"}]
  /\ dialled \subseteq approvedBy /\ Gates!ApprovalIsAPersons

LEMMA GatesHalves ==
  Gates!IndInv <=> env \in Environments \cup {Gates!Defaults} /\ CallsInv /\ OutboundInv
  /\ rules \in Seq(Gates!Rule) /\ Gates!SessionsAreConsistent
BY DEF Gates!IndInv, CallsInv, OutboundInv, Gates!TypeOK, Gates!StoresAreWhole

LEMMA GatesHalvesNext ==
  Gates!IndInv' <=> /\ env' \in Environments \cup {Gates!Defaults} /\ CallsInv' /\ OutboundInv'
  /\ rules' \in Seq(Gates!Rule)
              /\ Gates!SessionsAreConsistent'
BY DEF Gates!IndInv, CallsInv, OutboundInv, Gates!TypeOK, Gates!StoresAreWhole

LEMMA CallsStay == CallsInv /\ UNCHANGED calls => CallsInv'
<1> SUFFICES ASSUME CallsInv, calls' = calls PROVE CallsInv'
  OBVIOUS
<1>1. Gates!RingingWasQueued'
  BY DEF CallsInv, Gates!RingingWasQueued
<1>2. Gates!AnsweredCallsRang'
  BY DEF CallsInv, Gates!AnsweredCallsRang
<1> QED BY <1>1, <1>2 DEF CallsInv

LEMMA OutboundStays == OutboundInv /\ UNCHANGED <<outbound, dialled, approvedBy>> => OutboundInv'
BY DEF OutboundInv, Gates!ApprovalIsAPersons

LEMMA SessionsStay == Gates!SessionsAreConsistent /\ UNCHANGED voiceSessions
=> Gates!SessionsAreConsistent'
BY DEF Gates!SessionsAreConsistent

\* A new request waits or needs no approval; nobody approved it.
LEMMA CreateKeeps ==
  ASSUME OutboundInv, NEW r \in OutboundRequests, Gates!CreateOutboundCallRequest(r)
  PROVE  OutboundInv'
<1> DEFINE c == Gates!TelephonyRuntimeConfig
           a == IF ~c.approval /\ c.provider = "mock" THEN "not_required_for_mock" ELSE "pending"
           st == IF Gates!EvaluateOutboundCallSafety(c,
           a) = {} THEN "ready_for_provider" ELSE "pending_approval"
<1>1. /\ outbound' = [outbound EXCEPT ![r] = [approval |-> a, status |-> st]]
      /\ UNCHANGED <<dialled, approvedBy>>
  BY DEF Gates!CreateOutboundCallRequest
<1>2. a \in {"not_required_for_mock", "pending"}
      /\ st \in {"ready_for_provider", "pending_approval"}
  OBVIOUS
<1> HIDE DEF a, st
<1> QED BY <1>1, <1>2 DEF OutboundInv, Gates!ApprovalIsAPersons

\* A decision that says approved is a person's.
LEMMA DecideKeeps ==
  ASSUME OutboundInv, NEW r \in OutboundRequests, NEW a \in {"approved", "denied"}, Gates!Decide(r,
         a)
  PROVE  OutboundInv'
<1>1. PICK st : /\ st \in {"approved", "blocked"}
                /\ outbound' = [outbound EXCEPT ![r] = [approval |-> a, status |-> st]]
  BY DEF Gates!Decide
<1>2. approvedBy \subseteq approvedBy' /\ (a = "approved" => r \in approvedBy')
      /\ dialled' = dialled
  BY DEF Gates!Decide
<1> QED BY <1>1, <1>2 DEF OutboundInv, Gates!ApprovalIsAPersons

\* What the live gate lets through says approved.
LEMMA DialKeeps ==
  ASSUME OutboundInv, NEW r \in OutboundRequests, Gates!Dial(r)
  PROVE  OutboundInv'
<1>1. r \in approvedBy
  <2>1. /\ outbound[r] # None
        /\ Gates!EvaluateOutboundLiveCallSafety(Gates!LiveProviderRuntimeConfig, outbound[r]) = {}
    BY DEF Gates!Dial
  <2>2. outbound[r].approval = "approved"
    BY <2>1, NoReasonOfLive
  <2> QED BY <2>1, <2>2 DEF OutboundInv, Gates!ApprovalIsAPersons
<1> QED BY <1>1 DEF Gates!Dial, OutboundInv, Gates!ApprovalIsAPersons

\* A call begins as received, which asks nothing of the past.
LEMMA NormalizeKeeps ==
  ASSUME CallsInv, NEW c \in InboundCalls, Gates!NormalizeInboundWebhook(c)
  PROVE  CallsInv'
<1>1. "received" \in DOMAIN Gates!AllowedTransitions
  BY DEF Gates!AllowedTransitions
<1>2. calls' = [calls EXCEPT ![c] = <<"received">>]
  BY DEF Gates!NormalizeInboundWebhook
<1>3. DOMAIN calls' = InboundCalls
      /\ \A d \in InboundCalls : calls'[d] \in Seq(DOMAIN Gates!AllowedTransitions)
  <2>1. <<"received">> \in Seq(DOMAIN Gates!AllowedTransitions)
    BY <1>1
  <2> QED BY <1>2, <2>1 DEF CallsInv
<1>4. ASSUME NEW d \in InboundCalls, NEW i \in DOMAIN calls'[d]
      PROVE  \/ calls'[d] = calls[d]
             \/ calls'[d][i] = "received"
  BY <1>2 DEF CallsInv
<1>5. Gates!RingingWasQueued'
  <2> SUFFICES ASSUME NEW d \in InboundCalls, NEW i \in DOMAIN calls'[d], calls'[d][i] = "ringing"
               PROVE  \E j \in 1..(i - 1) : calls'[d][j] = "queued"
    BY DEF Gates!RingingWasQueued
  <2>1. calls'[d] = calls[d]
    BY <1>4
  <2> QED BY <2>1 DEF CallsInv, Gates!RingingWasQueued
<1>6. Gates!AnsweredCallsRang'
  <2> SUFFICES ASSUME NEW d \in InboundCalls, NEW i \in DOMAIN calls'[d],
                      calls'[d][i] \in {"in_progress", "completed", "failed"}
               PROVE  \E j, k \in 1..(i - 1) :
                         j < k /\ calls'[d][j] = "queued" /\ calls'[d][k] = "ringing"
    BY DEF Gates!AnsweredCallsRang
  <2>1. calls'[d] = calls[d]
    BY <1>4
  <2> QED BY <2>1 DEF CallsInv, Gates!AnsweredCallsRang
<1> QED BY <1>3, <1>5, <1>6 DEF CallsInv

\* The table leads to ringing from queued only, to an answer from ringing only, and
\* to an end of an answered call from the answer.
LEMMA TransitionKeeps ==
  ASSUME CallsInv, NEW c \in InboundCalls, NEW to, Gates!TransitionCallStatus(c, to)
  PROVE  CallsInv'
<1> DEFINE h == calls[c]
           n == Len(h)
           S == DOMAIN Gates!AllowedTransitions
<1>1. h \in Seq(S) /\ h # <<>>
  BY DEF CallsInv, Gates!TransitionCallStatus
<1>2. n \in Nat /\ n >= 1 /\ h[n] \in S /\ DOMAIN h = 1..n
  <2> HIDE DEF S
  <2> QED BY <1>1
<1>3. to \in Gates!AllowedTransitions[h[n]]
  BY DEF Gates!TransitionCallStatus
<1>4. /\ to \in S
      /\ to = "ringing" => h[n] = "queued"
      /\ to = "in_progress" => h[n] = "ringing"
      /\ to \in {"completed", "failed"} => h[n] = "in_progress"
  BY <1>2, <1>3, BeforeStatus
<1>5. calls' = [calls EXCEPT ![c] = Append(h, to)]
  BY DEF Gates!TransitionCallStatus
<1>6. /\ Append(h, to) \in Seq(S) /\ DOMAIN Append(h, to) = 1..(n + 1)
      /\ \A i \in 1..n : Append(h, to)[i] = h[i]
      /\ Append(h, to)[n + 1] = to
  <2> HIDE DEF S
  <2> QED BY <1>1, <1>2, <1>4
<1>7. DOMAIN calls' = InboundCalls /\ calls'[c] = Append(h, to) /\ \A d \in InboundCalls : d # c
      => calls'[d] = calls[d]
  BY <1>5 DEF CallsInv
<1>8. \A d \in InboundCalls : calls'[d] \in Seq(S)
  BY <1>6, <1>7 DEF CallsInv
<1>9. Gates!RingingWasQueued'
  <2> SUFFICES ASSUME NEW d \in InboundCalls, NEW i \in DOMAIN calls'[d], calls'[d][i] = "ringing"
               PROVE  \E j \in 1..(i - 1) : calls'[d][j] = "queued"
    BY DEF Gates!RingingWasQueued
  <2>1. CASE d # c
    BY <1>7, <2>1 DEF CallsInv, Gates!RingingWasQueued
  <2>2. CASE d = c /\ i = n + 1
    <3>1. h[n] = "queued" /\ calls'[d][n] = h[n] /\ n \in 1..(i - 1)
      BY <1>2, <1>4, <1>6, <1>7, <2>2
    <3> QED BY <3>1
  <2>3. CASE d = c /\ i # n + 1
    <3>1. i \in 1..n /\ h[i] = "ringing"
      BY <1>2, <1>6, <1>7, <2>3
    <3>2. PICK j \in 1..(i - 1) : h[j] = "queued"
      BY <1>2, <3>1 DEF CallsInv, Gates!RingingWasQueued
    <3>3. j \in 1..n
      BY <1>2, <3>1, <3>2
    <3> QED BY <1>6, <1>7, <2>3, <3>2, <3>3
  <2> QED BY <2>1, <2>2, <2>3
<1>10. Gates!AnsweredCallsRang'
  <2> SUFFICES ASSUME NEW d \in InboundCalls, NEW i \in DOMAIN calls'[d],
                      calls'[d][i] \in {"in_progress", "completed", "failed"}
               PROVE  \E j, k \in 1..(i - 1) :
                         j < k /\ calls'[d][j] = "queued" /\ calls'[d][k] = "ringing"
    BY DEF Gates!AnsweredCallsRang
  <2>1. CASE d # c
    BY <1>7, <2>1 DEF CallsInv, Gates!AnsweredCallsRang
  <2>2. CASE d = c /\ i = n + 1 /\ to = "in_progress"
    <3>1. PICK j \in 1..(n - 1) : h[j] = "queued"
      BY <1>2, <1>4, <2>2 DEF CallsInv, Gates!RingingWasQueued
    <3>2. j \in 1..(i - 1) /\ n \in 1..(i - 1) /\ j < n /\ j \in 1..n /\ n \in 1..n
      BY <1>2, <2>2, <3>1
    <3> QED BY <1>4, <1>6, <1>7, <2>2, <3>1, <3>2
  <2>3. CASE d = c /\ i = n + 1 /\ to # "in_progress"
    <3>1. h[n] = "in_progress"
      BY <1>4, <1>6, <1>7, <2>3
    <3>2. PICK j, k \in 1..(n - 1) : j < k /\ h[j] = "queued" /\ h[k] = "ringing"
      BY <1>2, <3>1 DEF CallsInv, Gates!AnsweredCallsRang
    <3>3. j \in 1..(i - 1) /\ k \in 1..(i - 1) /\ j \in 1..n /\ k \in 1..n
      BY <1>2, <2>3, <3>2
    <3> QED BY <1>6, <1>7, <2>3, <3>2, <3>3
  <2>4. CASE d = c /\ i # n + 1
    <3>1. i \in 1..n /\ h[i] \in {"in_progress", "completed", "failed"}
      BY <1>2, <1>6, <1>7, <2>4
    <3>2. PICK j, k \in 1..(i - 1) : j < k /\ h[j] = "queued" /\ h[k] = "ringing"
      BY <1>2, <3>1 DEF CallsInv, Gates!AnsweredCallsRang
    <3>3. j \in 1..n /\ k \in 1..n
      BY <1>2, <3>1, <3>2
    <3> QED BY <1>6, <1>7, <2>4, <3>2, <3>3
  <2> QED BY <2>1, <2>2, <2>3, <2>4
<1> QED BY <1>7, <1>8, <1>9, <1>10 DEF CallsInv

LEMMA GatesNext == Gates!IndInv /\ [Gates!Next]_Gates!vars => Gates!IndInv'
<1> SUFFICES ASSUME Gates!IndInv, [Gates!Next]_Gates!vars PROVE Gates!IndInv'
  OBVIOUS
<1>1. env \in Environments \cup {Gates!Defaults} /\ CallsInv /\ OutboundInv
      /\ rules \in Seq(Gates!Rule) /\ Gates!SessionsAreConsistent
  BY GatesHalves
<1> DEFINE Kept == /\ env' \in Environments \cup {Gates!Defaults} /\ CallsInv' /\ OutboundInv'
    /\ rules' \in Seq(Gates!Rule)
                   /\ Gates!SessionsAreConsistent'
<1> SUFFICES Kept
  BY GatesHalvesNext
<1>2. CASE UNCHANGED Gates!vars
  BY <1>1, <1>2, CallsStay, OutboundStays, SessionsStay DEF Gates!vars
<1>3. ASSUME NEW e \in Environments, Gates!Deploy(e)
      PROVE  Kept
  BY <1>1, <1>3, CallsStay, OutboundStays, SessionsStay DEF Gates!Deploy
<1>4. ASSUME NEW r \in OutboundRequests, Gates!CreateOutboundCallRequest(r)
      PROVE  Kept
  BY <1>1, <1>4, CallsStay, CreateKeeps, SessionsStay DEF Gates!CreateOutboundCallRequest
<1>5. ASSUME NEW r \in OutboundRequests, NEW a \in {"approved", "denied"}, Gates!Decide(r, a)
      PROVE  Kept
  BY <1>1, <1>5, CallsStay, DecideKeeps, SessionsStay DEF Gates!Decide
<1>6. ASSUME NEW r \in OutboundRequests, Gates!Dial(r)
      PROVE  Kept
  BY <1>1, <1>6, CallsStay, DialKeeps, SessionsStay DEF Gates!Dial
<1>7. ASSUME NEW c \in InboundCalls, Gates!NormalizeInboundWebhook(c)
      PROVE  Kept
  BY <1>1, <1>7, NormalizeKeeps, OutboundStays, SessionsStay DEF Gates!NormalizeInboundWebhook
<1>8. ASSUME NEW c \in InboundCalls, NEW to, Gates!TransitionCallStatus(c, to)
      PROVE  Kept
  BY <1>1, <1>8, TransitionKeeps, OutboundStays, SessionsStay DEF Gates!TransitionCallStatus
<1>9. CASE Gates!StoreReadiness
  BY <1>1, <1>9, CallsStay, OutboundStays, SessionsStay DEF Gates!StoreReadiness
<1>10. CASE Gates!StoreVoiceSession
  <2>1. Gates!SessionsAreConsistent'
    <3>1. \A s \in voiceSessions' : s = Gates!PrepareVoiceRuntimeReadiness(Gates!LiveProviderRuntimeConfig)
      BY <1>10 DEF Gates!StoreVoiceSession
    <3> QED BY <3>1, StoredGate DEF Gates!SessionsAreConsistent
  <2> QED BY <1>1, <1>10, <2>1, CallsStay, OutboundStays DEF Gates!StoreVoiceSession
<1>11. ASSUME NEW rule \in Gates!Rule, Gates!AddRule(rule)
       PROVE  Kept
  <2>1. rules' \in Seq(Gates!Rule)
    BY <1>1, <1>11 DEF Gates!AddRule
  <2> QED BY <1>1, <1>11, <2>1, CallsStay, OutboundStays, SessionsStay DEF Gates!AddRule
<1> QED BY <1>2, <1>3, <1>4, <1>5, <1>6, <1>7, <1>8, <1>9, <1>10, <1>11
  DEF Gates!Next, Gates!Deployments, Gates!CallSteps, Gates!ReadinessSteps, Gates!RuleSteps

LEMMA GatesInvariantSuffices == Gates!IndInv => Gates!GatesAreSound
<1> SUFFICES ASSUME Gates!IndInv PROVE Gates!GatesAreSound
  OBVIOUS
<1>1. Gates!ApprovedBeforeDialled
  BY GatesExclude DEF Gates!IndInv, Gates!ApprovedBeforeDialled
<1>2. Gates!ReadinessAgreesWithGate
  BY ReadinessAgrees DEF Gates!IndInv
<1>3. Gates!RoutingIsLocal
  BY RoutingStaysLocal DEF Gates!IndInv, Gates!StoresAreWhole
<1> QED BY <1>1, <1>2, <1>3 DEF Gates!IndInv, Gates!GatesAreSound

\* A request says approved because a person approved it, a call that rings was
\* queued, and a stored voice session has a gate its mode permits
\* (outbound-call-request.ts, call-lifecycle.ts, voice-runtime-readiness.ts).
THEOREM GatesInvariantHolds == Gates!Spec => []Gates!IndInv
BY GatesInit, GatesNext, PTL DEF Gates!Spec

\* For any requests, calls, rules and deployments in between: a call is dialled only
\* for a request that a person approved, the two gates never both open, readiness
\* agrees with the live gate, an answered call had rung, and rules of other tenants
\* and cards never change a route (evaluateOutboundLiveCallSafety,
\* getProviderReadinessChecks, transitionCallStatus, evaluateTelephonyRouting).
THEOREM GatesSound == Gates!Spec => []GatesAreSound
BY GatesInvariantHolds, GatesInvariantSuffices, PTL DEF GatesAreSound
=============================================================================
