# A verification project for the Bidayax executive system

TLA+ models of the parts of this repository that keep state or decide about it,
the TLC configurations that check them on small instances, and TLAPS proofs of
the safety results of the settings transactions and of every component behind
the sessions, communications, trust (but for Merkle batches) and telephony runs,
and of most of the platform. Source paths are relative to `src/`.

## 1. The system

The repository is a TypeScript monorepo over one PostgreSQL database: packages
with the domain logic (`packages/*`), services that use them (`services/*`), two
Next.js applications and a console (`apps/*`), and the schema with a good part of
the rules as triggers and indexes (`database/migrations/0001` to `0018`).

| component | state it keeps | operations | what is hard | what makes it correct |
|---|---|---|---|---|
| settings publishing (`packages/settings`, 0014) | versions of each card's settings, audit events, idempotency keys | draft, preview, validate, publish, archive, persist | the result is computed from a list read before the lock; concurrent publishers; failure between archive and insert; 32-bit ids of versions and events | one current version per card, a history that neither forks nor loses a publish, audit events that match; where ids collide, no more lost than the collision costs |
| settings evidence (`settings-trust-publish.ts`, `packages/trust/src/audit-chain.ts`, 0017) | a hash chain per card, trust events, manifests, envelopes | read chain, build evidence, append | the chain is read before the lock; the size limit; replayed keys | the chain lists the releases in order |
| idempotent publish (`settings-persistence-service.ts`) | one record per key | look up, publish, record | check-then-act; retries in flight | one release per key, retries get the original |
| settings store (`settings-persistence*.ts`, `settings-cache.ts`, `settings-audit-trail.ts`) | tenant, asset, profile and settings rows; an in-memory cache; an audit list | save a snapshot row by row, cache, invalidate, append | saves overlap and stop half way; cache keys that are prefixes of each other or hold the separator; expiry | rows stay with their tenant; nothing is answered past its expiry or after its invalidation |
| settings API and authorization (`apps/dashboard`, `packages/settings`, `packages/identity/src/authorization.ts`) | sessions, memberships, grants as read by a request | GET and POST of settings; claims of trusted callers | what was read is stale when the answer is given | nobody is answered who had no right at any time during the request |
| settings inputs, brand tokens (`packages/tokens`, `services/card-customization`, `packages/settings`) | none | parse, validate, measure contrast, fall back | the same setting is read by three validators | what the API accepts works on the card; text stays readable |
| application sessions (`packages/identity`, auth routes of `apps/dashboard`, 0015) | identities, memberships, OAuth transactions, sessions, webhook receipts | login, callback, resolve, refresh, logout, webhook, triggers | interleaved requests; duplicate deliveries; UPDATEs that miss uncommitted rows; checks outside a transaction | no session twice from one login or refresh, no revoked session live again, no disabled user authorised |
| trust (`packages/trust`, trust API, 0017) | keys, revocations, envelopes, manifests, audit streams, Merkle batches | register, activate, rotate, retire, revoke, sign, verify, append, batch, prove | rotation racing revocation; copies of keys; signing instants named by the caller; late verification; altered documents | one active key per scope; a verdict never improves once a key is revoked; only what was stored verifies |
| communications (`packages/communications-domain`, `services/communications`, 0018) | communications, transition log, idempotency keys, consent, suppressions, dispatch attempts | reserve and complete a command, transition, consent, suppress, dispatch | consent withdrawn while a dispatch is inserted; transitions from stale reads; updates between transitions; four advisory locks | no dispatch against what was in effect when its transaction began; the log is the aggregate's history |
| receptionist runtime (`packages/receptionist-runtime`) | replay keys | turns: consent, recognise, assess, plan, answer | the replay key is remembered before the work, by callers that pass a store; providers fail; restarts; two lists of patterns over the same words | nothing is transcribed without consent; a stored key is used once; an emergency or an injection is never handled by the machine |
| telephony (`services/telephony`, 0016) | call sessions, callbacks, appointments, audit, usage, optional replay and operation stores | webhooks, provider operations, commands, outbound requests, readiness, routing | awaits between writes without a transaction; a signed text that can be split in two ways; an environment that changes between request and call | no dial without approval; nothing unsigned is processed; ledgers follow the audit |
| receptionist workflow (`services/polyglot-receptionist`, front office) | none | run a request, take a call, simulate | the order of the checks | decisions agree with each other and with the input |
| card requests (`apps/card`) | request rows, interaction events, rate-limit buckets | submit, store, answer | up to twenty statements without a transaction; lost answers; retries | what is confirmed is stored; no orphan rows |
| improvement engine (`services/improvement-engine`, routes, scripts) | opportunities, candidates, lineage, approvals | detect, generate, decide | jobs overlap; statements fail in between; the routes never ask the approval gate | nothing is settled that no person decided; every record has its origin |
| intent scoring, contact graph (`services/intent-scoring`, `services/contact-graph`) | scores, nodes, edges, snapshots | recalculate, rebuild | two reads at two times; overlapping jobs; stops between rows; keys joined from free text | the graph is closed; a job that ran alone leaves what a computation from scratch would |
| dashboard pages, telemetry (`apps/dashboard`, `services/telemetry`) | telemetry rows | read a page, readiness, ingest | a page's statements run at different times | a page is shown whole or empty, and its parts differ by no more than was written meanwhile |
| policy enforcement (`services/policy-enforcement`) | none | assess a claim, evaluate a request | thresholds shared by two files | the two agree and are monotone |
| database reconciliation (`packages/database-reconciliation`) | none | classify a migration | half-applied migrations, migrations that change each other's objects, changes by hand | nothing is reported safe that is not |

Components call each other in process; what they share at run time is the
database. Concurrency is between requests: each runs its statements on a pooled
connection, in a READ COMMITTED transaction or statement by statement. Tasks of
one Node.js process interleave at every `await`.

## 2. Modules

One module per component. A *composition* module puts the components of one area
beside each other, each with its own variables, and states what is assumed of
their constants; the MC module of the area EXTENDS it, and so does the module of
its proofs, so the properties a run checks are the very definitions the theorems
name:

* `Access` is `IdentitySessions` and, as `Api`, `SettingsApi`;
* `CommunicationsDomain` is `CommunicationTransitions` with `Dispatch` and
  `Commands`;
* `Trust` is `TrustKeys` with `Envelopes` and `Chain`;
* `Telephony` is `SandboxProvider` with `Plane`, `Gates` and `Intake`;
* `Platform` is `VoiceTurns` with `Decisions`, `Policies`, `Schema` and
  `Improvement`.

In a run the components, or instances of one with different constants, are its
*parts*. A behaviour exercises one part and leaves the variables of the others
alone, so a run explores the sum of its parts' state spaces, never their product.

| module | models | checked by | proofs |
|---|---|---|---|
| `SettingsHistory` | abstract: a card has a growing history of releases, each replacing the current one | `SettingsPublish` (refinement) | |
| `SettingsPublish` | `publishSettingsVersion` and the publish transaction, with and without evidence | `MCSettings` (extends), `MCLiveness` | `SettingsPublish_proofs` |
| `SettingsIdempotentPublish` | `persistIdempotentSettingsPublishResult` | `MCLiveness` (extends) | `SettingsIdempotentPublish_proofs` |
| `SettingsStore` | `persistSettingsSnapshot`, the cache, the audit trail | `MCSettings` | |
| `SettingsInputs` | three readings of receptionist settings; trusted claims | `MCSettings` | |
| `BrandTokens` | colour parsing, contrast, fallbacks | `MCSettings` | |
| `IdentitySessions` | sessions and everything that creates, touches or revokes one | `MCIdentitySessions` | `Access_proofs` |
| `SettingsApi` | the settings routes, session to audit insert, and the authorization | `MCIdentitySessions` | `Access_proofs` |
| `CommunicationLifecycle` | abstract: the lifecycle a communication may go through | `CommunicationTransitions` (refinement) | |
| `CommunicationTransitions` | aggregate and transition log under the triggers of 0018 | `MCCommunications` | `CommunicationsDomain_proofs` |
| `CommunicationsDispatch` | consent, suppression, dispatch under advisory locks | `MCCommunications`, `MCLiveness` | `CommunicationsDomain_proofs` |
| `CommunicationsCommands` | reservation and completion of commands, the disabled boundary of phase 11A | `MCCommunications` | `CommunicationsDomain_proofs` |
| `TrustKeys` | `packages/trust/src/keys.ts`, the operators' routes and 0017 | `MCTrust` | `Trust_proofs` |
| `TrustEnvelopes`, `TrustAuditChain` | the files of `packages/trust` they are named after, the trust API and 0017 | `MCTrust` | `Trust_proofs` |
| `MerkleBatches` | `packages/trust/src/merkle.ts` and the batches of 0017 | `MCTrust` | |
| `SandboxProvider` | webhooks and operations of the sandbox adapter | `MCTelephony` | `Telephony_proofs` |
| `TelephonyControlPlane` | call sessions, queues, callbacks, appointments, commands | `MCTelephony` | `Telephony_proofs` |
| `TelephonyGates` | safety gates, outbound requests, readiness, routing rules | `MCTelephony` | `Telephony_proofs` |
| `CardIntake` | the card's forms, routes, rate limit, rows and events | `MCTelephony` | `Telephony_proofs` |
| `ReceptionistWorkflow` | decisions on a request, a call, a simulated interaction | `MCPlatform`, `CardIntake` | `Platform_proofs` |
| `VoiceTurns` | `processVoiceRuntimeTurn` | `MCPlatform`, `MCLiveness` | `Platform_proofs` |
| `ImprovementEngine` | detection, generation and approval by routes and scripts | `MCPlatform` | `Platform_proofs` |
| `PolicyEnforcement` | `assessDataTrust`, `evaluatePolicy` | `MCPlatform` | `Platform_proofs` |
| `MigrationReconciliation` | `reconcileMigration` | `MCPlatform` | `Platform_proofs` |
| `EngagementGraph` | `recalculateIntentScores`, `rebuildContactGraph` | `MCPlatform` | |
| `DashboardReads` | seven pages, readiness, telemetry routes | `MCPlatform` | |

### SettingsPublish

Every publisher (an API request) goes through the steps of
`persistTrustedSettingsPublishTransactionally`, one action per statement that
another transaction can notice:

| action | code |
|---|---|
| `Prepare` | the caller lists the card's versions (or passes none) and `publishSettingsVersion` computes the result from a new draft or from a stored version |
| `BuildEvidence` | `begin`; `buildEvidence` reads and verifies the chain, when there is a signing key |
| `LockCard` | `lockExecutiveCardForSettingsPublish`, `SELECT ... FOR UPDATE` |
| `ArchivePrevious` | `archiveCardSettingsVersion` of the version found in the list |
| `SavePreview`, `SavePublished` | the loop over `publishResult.versions` and `saveCardSettingsVersion` |
| `SaveAuditEvents` | `persistSettingsAuditEvents` |
| `PersistEvidence` | `persistEvidence` with the constraints and the append trigger of 0017 |
| `Commit`, `Rollback` | `commit`; `rollback`, or the death of the process or connection |

`versions`, `audit` and `chain` are the committed tables; `tx[p]` holds what
publisher `p` has written and not committed, and `View(p, v)` is the row `p`'s
next statement reads. A statement that throws is not an action: the guard is
false and `Rollback` is what remains. `Rollback` is possible at every step, so a
crash between any two statements is covered. `persistSettingsPublishResultTransactionally`
without `trust` is the same transaction without evidence (`signing = FALSE` and
`EvidenceRequired = FALSE`).

Abstractions: a snapshot stands for its hash and its content; validation is
membership in `ValidSnapshots`; the version id is an arbitrary function
`VersionId` of what the code hashes and the id of an audit event a function
`EventId` of the event, so collisions of both are in scope; digests and
signatures are abstracted to the identity of what they cover; audit events that
are always emitted together are one element, and those that do not concern a
release (preview generated, validation failed) are left out. The listed versions
that are not published are immutable, so saving them again does nothing and is
not a step. The size of the chain in bytes and of an entry is not modelled, only
its number of entries.

What a collision does is in the actions. The loop over `publishResult.versions`
passes by every version whose id is the archived one's
(`settings-persistence-service.ts:127`, `SaveUnlessArchived`): a release whose id
is that of the version it replaces archives that version, inserts nothing,
commits, and leaves the card without a published version. Any other collision of
version ids makes `saveCardSettingsVersion` fail, or find the very row it was to
insert. Events are inserted with `ON CONFLICT (event_id) DO NOTHING`: one whose id
another event of the card has is dropped (`StoredEvents`), one of another card is a
conflict.

### SettingsIdempotentPublish

The same transaction reduced to one card, with the record of the idempotency key
looked up before and saved after. `Transactional` says whether the repository
that the caller passes runs on one transaction or commits every statement.

### SettingsApi, SettingsStore, SettingsInputs, BrandTokens

A request of `SettingsApi` goes through `CheckRequest`, `GetSession`,
`GetIdentity`, `ListMemberships`, `ListGrants`, `VerifyCsrf`, an authorization
and, for a write, `ParseBody` and `WriteAuditEvent`, each its own statement;
`ChangeMembership`, `RevokeGrant`, `DisableIdentity`, `RevokeSession` and `Tick`
happen in between. A save of `SettingsStore` is one upsert per row, in the code's
order, and may stop after any; the cache joins ids with colons, which matters
where one id is a prefix of another and where an id holds a colon itself (ids are
sequences of pieces, and `":"` may be one). `SettingsInputs` has one operator per
validator of the receptionist settings and compares their verdicts.
`BrandTokens` computes luminance and contrast in integers from a table of the
sRGB curve and models both colour parsers by what they accept and produce, the
channels of an `rgb` colour in tenths: one parser rounds them, the other cuts the
decimals off. The customization audit event of a write of `SettingsApi` has a
32-bit id and is inserted with `ON CONFLICT DO NOTHING`; the model keeps the case
in which two submissions are the same event, and takes different events to have
different ids.

### IdentitySessions

Request handlers (`Workers`) serve login callbacks, page requests, refreshes,
logouts, webhooks, and an operator's membership revocations (external to the
repository: nothing in it revokes a membership, the trigger reacts to it).
`ReadSession`, `GetIdentity`, `ListActiveMemberships` and `TouchSession` are the
statements of `resolveApplicationSession`, which runs without a transaction;
`VerifyCsrf`, `RevokeSession`, `RotateSession` and so on are those of
`refreshSessionResponse`, `logoutResponse`, `callbackResponse` and
`webhookResponse`, inside `withIdentityTransaction`. A row that a transaction has
written is locked for others. An UPDATE of many sessions first takes the set that
is committed when it begins (`StartSweep`) and then locks and re-checks them one
by one (`SweepSession`), as PostgreSQL does under READ COMMITTED.

`barred` in a handler's job is a history variable: the users that were disabled
when its request came in. `login` in a session row is one too: the OAuth
transaction that its lineage goes back to. Identity audit events (inserts that
nothing reads) and cookies are left out.

### Communications

`CommunicationsDispatch`: a client's transaction is one statement; it takes the
four advisory locks of its policy subject in the order of
`LockKeys`, evaluates the triggers of 0018 on what is committed, and commits or
fails. A row whose primary key another transaction has inserted and not committed
waits for that transaction (`RowIsFree`). `now()` is the start of the
transaction, so a transaction may judge by a time that has passed. `CommunicationTransitions`: a writer reads the aggregate,
prepares and authorizes a transition, and inserts it later, when the trigger
locks and checks the aggregate again; it implements `CommunicationLifecycle`
under the mapping of the row's state. `CommunicationsCommands`: the record of a
key from reservation to result, with the validation of the domain package next to
the constraints of the table.

### Trust

Cryptography is ideal: a digest is the material it covers, a signature the pair
of a key and what it signed. `TrustKeys` has operators whose transactions begin
at one time and commit at a later one, and signers with a copy of a key.
`TrustEnvelopes`, `TrustAuditChain` and `MerkleBatches` present to the verifiers
everything that was stored and everything that differs from it in one part.

### Telephony and card requests

`SandboxProvider` lets the network duplicate, delay and alter deliveries and
restarts the process, which empties the replay store. In `TelephonyControlPlane`
every repository call is awaited and a step of its own; a task may be abandoned
at any of them. `serial` is a history variable: no two tasks have run at once so
far, which is when a depth or a table can be promised of what is stored.
`TelephonyGates` reads the environment anew at every decision, passes what it
read on within that decision, and `Deploy` changes it in between. `CardIntake`
has the browser, the network, the routes and the rows: `Store` is one statement
of up to twenty, `FailStore` its failure, `Lose` a broken connection, `Restart`
the end of the process. Its requests and admissions are numbered in the order of
their arrival, and `admitted` is a history variable: every admission since the
process started with its time, also those a bucket has forgotten.

### Receptionist and platform

`ReceptionistWorkflow` is a set of functions of the features that the patterns
and tables of the code tell apart; a text is the record of its features.
`VoiceTurns` awaits recognition and synthesis, where other turns run.
`ImprovementEngine` and `EngagementGraph` are jobs of single statements, without
a transaction, that overlap and fail. A page of `DashboardReads` asks its
statements at once; each answers when it does (`Answer`), writes come in between,
and one failure empties the page (`ShowFailed`). `PolicyEnforcement` and
`MigrationReconciliation` are pure in the code: what changes in the models is
what they look at (a claim somebody presents, evidence, time, revocation; the live
schema and the ledger). The average confidence of a claim counts the percents of
its evidence, which is their sum. `ReconciliationIsSound` speaks once there is
anything to report on, `ReportIsSafeAnywhere` (section 4) of any schema.
The score of an assessment is the trust score of a request only because a caller
passes it; an expired claim whose score is high is blocked by the assessment and
not by the policy, which never sees the expiry.

## 3. Runs

Every part below has its own bounds, stated in the MC module at its INSTANCE or
at the action that restricts the component's `Next`. A restriction leaves out
combinations (a third request of another kind, an unrelated table) and no step of
those it keeps.

| run | parts and bounds | checks |
|---|---|---|
| `settings` | `plain`, `evidence`, `mixed`, `colliding`: 2 publishers, 1 card, at most 2 times and 2 keys, chain limit 1 or 0, a version hash that collides; `saves`: 3 snapshots by 2 savers; `cache`: clock 2, TTL 1; `trail`: 4 audit events; `brand`, `readings`, `claims`: themes, inputs and payloads at every boundary | `TypeOK`, `AlwaysOneCurrent`, `LinearHistory`, `AuditMatchesVersions`, `EvidenceAgrees`, `StoreIsSound`, `CardSettingsAreSound`, `VersionsAreImmutable`, `ImplementsHistory` |
| `liveness` | `submissions`: 5 submissions under 3 keys, in transactions; `publish`: 2 publishers, a version hash that separates nothing; `dispatch`: 2 clients, overlapping wildcards; `turns`: 2 turns, a restart | `OneReleasePerKey`, `RetryFindsResult`, `PublishEnds`, `TransactionsEnd`, `EveryTurnEnds` |
| `sessions` | `sessions`: 2 handlers, 1 login, 3 sessions, both webhooks, clock up to 2; `races`, `answers`: 2 settings requests with one change in between, or one request of every kind | `LineageIsLinear`, `OneLiveSessionPerLogin`, `DisabledIsFinal`, `ApiIsSound`, `RevocationIsFinal` |
| `communications` | `dispatch`: 2 clients, 2 receipts, a suppression, an attempt, 3 transactions; `writers`: 2 writers, 2 versions; `lifetimes`: 7 versions; `commands`: 2 clients, 1 key, 2 contents | `RecordsAreSound`, `LogIsSound`, `DispatchIsPermitted`, `ImplementsLifecycle`, `ResultIsFinal` |
| `trust` | 3 keys and 2 operators; 2 keys with a lifetime and a signer; 2 envelopes of 2 tenants; 2 writers of 2 streams; 2 batches of up to 4 leaves | `KeysAreSound`, `EnvelopesAreSound`, `ChainIsSound`, `BatchesAreSound`, `VerdictNeverImproves` |
| `telephony` | `webhooks`: 2 ids, 2 bodies, clock 3, tolerance 1, a restart; `operations`: 2 tenants, two operations of any kind or three of one capability; `requests`: 2 tasks, a call of either tenant and a callback or an appointment; `commands`: one task, 2 calls of 2 tenants; `races`: 2 tasks, 2 keys, one call of one tenant on its way to queued, dialing or cancelled; queue depth 1; `gates`, `readiness`, `routing`: 2 outbound requests and an inbound call, environments one variable away from mock calls without approval or from live ones, 2 rules of 2 tenants; `retries`: the form and the chat in either order; `routes`: 3 requests of which at most one is refused or blocked, limit 2, window 2, clock 2 | `SandboxIsSound`, `ControlPlaneIsSound`, `GatesAreSound`, `IntakeIsSound`, `SavedChangesFollowTable` |
| `platform` | `decisions`: requests, calls and texts over the features that the code tells apart; `policies`: every classification, 3 pieces of evidence, an expiry, clock 2; `schema`: 2 migrations that share a table, 2 changes by hand; `turn`, `turns`; `generations`: 2 workers over 1 opportunity, telemetry fixed once it is there; `approvals`: 2 decisions over 1 candidate; `overlaps`: 2 jobs over 2 events; `history`: 1 job over 3 events, the first a call; `dashboards`, `observability`: up to 3 writes between the statements of a page, list limit 2 | `DecisionsAreSound`, `VoiceTurnsAreSafe`, `OneTurnPerKey`, `ImprovementIsSound`, `EngagementIsSound`, `DashboardsAreSound` |
| `idempotent_autocommit` | the part `submissions` of `liveness` with 2 submissions, every statement committed by itself | `OneReleasePerKey` is violated |
| `sessions_of_disabled` | the part `sessions` of `sessions` | `DisabledHasNoLiveSession` is violated |
| `grant_scope` | the part `races` of `sessions` | `GrantsCarryThePermission` is violated |
| `telephony_reopened` | the part `races` of `telephony` | `TerminalStatesStay` is violated |
| `emergency_call` | the part `decisions` of `platform` | `SensitiveCallsAreReviewed` is violated |

The properties whose names end in `AreSound` or `IsSound` are conjunctions of
named invariants of the component's module, each with a comment that says what
it states and of which code. `ContractsAgree`, which is about all drafts of a
command and not about a state, is an assumption that TLC evaluates at the start of
run `communications`.

What the passing runs show, in short. *Settings*: however publishers race, retry
and crash, a card has one current version and a history without forks, audit and
evidence agree with it, a key releases once; a request is answered only to
someone who had the right while it ran; a save or the cache never mixes tenants.
*Sessions*: one live session per login, nothing revoked revives, and a request
that came in after its user was disabled is refused, duplicates and late
deliveries included. *Communications*: a dispatch attempt is permitted by the
consent and suppressions committed when it was inserted; a stale writer never
forks the log; a command's result never changes. *Trust*: one active key, no
document verifies that was not stored so, and a verdict never gets better.
*Telephony and card*: a webhook acts once per life of the process, a ledger entry
follows its audit event, no call without an approval under the environment of the
call, and a confirmed request is stored whole. *Platform*: a sensitive turn is
never handled automatically, a rejection stands against any approval, graph and
pages are made of rows that existed, and a job that ran alone repairs what
overlapping or failed ones left.

Bounds. Two publishers are enough for every pairwise race of the publish
transaction, since the lock lets only one write; the theorems below remove the
bound. Two times give two different versions of one snapshot that are published
at the same moment, and the same time twice gives an exact retry. The chain limit
is 0 or 1 instead of 1000, the list limits of pages and the rate limits 1 or 2,
so that the boundary is reached. Three sessions give a login, its rotation, and a
second rotation that races the first; a clock of 2 with an idle timeout of 1 and
an absolute timeout of 2 reaches both expiries, keeps a touched session alive
past its first idle expiry, and has requests in flight across an expiry. Clocks
elsewhere reach one step past the longest period they are compared with. Two
jobs, tasks or clients give every race of two; their code has no step that waits
for two others. Permuted model values (publishers, idempotency keys,
handlers, savers, session ids) are only compared; `liveness` uses no symmetry.

Fairness. `PublishEnds` asks strong fairness of `Proceeds(p)`: the next
statement, or the rollback when a statement throws. A statement that waits for
nobody returns; waiters of a row are queued by PostgreSQL, so a lock that is
freed again and again is not denied to one waiter forever. Weak fairness would
allow that. `Prepare` has no fairness: nobody has to publish. A rollback counts
as progress only when the publisher is not waiting, because the code sets no
statement or lock timeout. `TransactionsEnd` asks the same of advisory locks and
of a row's key: strong fairness of a transaction's next step (`Step`), which
waits where another holds the lock; it is what rules out a deadlock of two rows
whose wildcards overlap. `EveryTurnEnds` has
weak fairness of a turn's next step: promises settle, with an answer or an error.

Deadlock is checked in `sessions`, `sessions_of_disabled` and `grant_scope`, where
only settings routes that have answered may rest (`Answered`). The other runs
have parts that end: a decision is made once, a bound on requests, writes or
transactions is reached. Where a stop would be a fault, it is a liveness property
of run `liveness`.

### What the runs found

* `idempotent_autocommit`. `docs/SETTINGS_PERSISTENCE_CONCURRENCY.md:28` says that
  `settings_idempotency_keys` "prevents duplicate publish submissions from
  creating duplicate versions or audit events". That holds when the caller runs
  `persistIdempotentSettingsPublishResult` on one transaction, where the card lock
  and the archival's re-check stop the second submission. The function does not
  ask for one and no transactional wrapper of it exists: with statements that
  commit by themselves, a retry that looks up the key between the first
  submission's insert and its record releases a second version.
* `sessions_of_disabled`. `docs/PHASE_5G_IDENTITY_SECURITY_REVIEW.md:127` counts
  "session revocation triggers for identity or membership revocation" among what
  migration 0015 provides. A refresh that has inserted the new session and not
  committed is not seen by the trigger's UPDATE, and the insert trigger saw the
  identity active, so a disabled user can keep an unrevoked session. Session
  resolution refuses it, as `DisabledIsFinal` of run `sessions` shows.
* `grant_scope`. `docs/AUTHORIZATION_MODEL.md:33`: "Non-privileged users must have
  explicit card grants with the required permission." The permissions of the role
  and of all grants are united before the card is looked at, so the permission
  and the grant on the card may come from different rows.
* `telephony_reopened`. `docs/TELEPHONY_STATE_MACHINES.md:7`: "Terminal states do
  not transition back to active states." `requestCallSession` saves a requested
  session over an ended one of the same id before its audit event is refused.
* `emergency_call`. `docs/POLYGLOT_RECEPTIONIST_WORKFLOWS.md:49`: "Emergency and
  sensitive intents are escalated to human review." An unknown caller with an
  emergency and a language taken by default falls below the risk threshold, and
  risky callers are blocked as spam before the intent is looked at.

## 4. Proofs

Seven modules hold proofs, for every value of the constants: any number of
processes, rows and values instead of the two or three of a run. Where a theorem
names a property of section 3, the run shows it on an instance and the theorem in
general. The theorems about a component that a composition instantiates are about
the instance: `Api!Spec`, `Plane!Spec` and so on.

| module | theorem | statement | under |
|---|---|---|---|
| `SettingsPublish_proofs` | `TypeCorrect` | `[]TypeOK` | `ConstantsAssumption`, `VersionIdAssumption`, `NullAssumption` |
| | `InvariantHolds` | `[]IndInv` | the same |
| | `OneCurrentAlways` | `[]AlwaysOneCurrent` | |
| | `HistoryIsLinear` | `[]LinearHistory` | |
| | `CommittedVersionsKept` | `VersionsAreImmutable` | |
| | `PublishImplementsHistory` | `ImplementsHistory` | |
| | `AuditFollowsVersions` | `[]AuditMatchesVersions` | |
| | `ChainStaysBounded` | `[]ChainIsBounded` | |
| | `EvidenceIsHistory` | `[]EvidenceFollowsHistory` | and `EvidenceRequired`, `TimesSeparate` |
| `SettingsIdempotentPublish_proofs` | `InvariantHolds` | `[]IndInv` | `SubmissionsAssumption`, `Transactional` |
| | `KeyReleasesOnce` | `[]OneReleasePerKey` | the same |
| | `RetriesFindResult` | `[]RetryFindsResult` | |
| `Access_proofs` | `InvariantHolds` | `[]IndInv` | `IdentityAssumption`, `NullAssumption` |
| | `LineageStaysLinear` | `[]LineageIsLinear` | the same |
| | `OneLiveSession` | `[]OneLiveSessionPerLogin` | |
| | `DisablingIsFinal` | `[]DisabledIsFinal` | |
| | `RevocationStaysFinal` | `RevocationIsFinal` | |
| | `ApiInvariantHolds` | `[]Api!IndInv` | `ApiConstants` |
| | `ApiSound` | `[]ApiIsSound` | the same |
| `CommunicationsDomain_proofs` | `InvariantHolds` | `[]IndInv` | `BoundsAssumption` |
| | `LogSound` | `[]LogIsSound` | the same |
| | `TriggersImplementLifecycle` | `ImplementsLifecycle` | |
| | `DispatchInvariantHolds` | `[]Dispatch!IndInv` | `DispatchConstants` |
| | `DispatchStaysPermitted` | `DispatchIsPermitted` | the same |
| | `CommandsInvariantHolds` | `[]Commands!IndInv` | `ChannelsAreKnown` |
| | `RecordsSound` | `[]RecordsAreSound` | the same |
| | `ResultStaysFinal` | `ResultIsFinal` | |
| | `ContractsDoAgree` | `Commands!ContractsAgree` | |
| `Trust_proofs` | `InvariantHolds` | `[]IndInv` | `KeysAssumption` |
| | `KeyStoreIsSound` | `[]KeysAreSound` | the same |
| | `EnvelopesInvariantHolds` | `[]Envelopes!IndInv` | `EnvelopeConstants` |
| | `EnvelopesSound` | `[]EnvelopesAreSound` | the same |
| | `VerdictStaysNegative` | `VerdictNeverImproves` | |
| | `ChainInvariantHolds` | `[]Chain!IndInv` | `ChainConstants` |
| | `ChainSound` | `[]ChainIsSound` | the same |
| | `AnyAcceptedListIsPrefix` | of a list of any length that verifies | |
| `Telephony_proofs` | `InvariantHolds` | `[]IndInv` | `SandboxAssumption` |
| | `ProviderIsSound` | `[]SandboxIsSound` | the same |
| | `PlaneInvariantHolds` | `[]Plane!IndInv` | `PlaneConstants` |
| | `ControlPlaneSound` | `[]ControlPlaneIsSound` | the same |
| | `SavedChangesStayOnTable` | `SavedChangesFollowTable` | |
| | `IntakeInvariantHolds` | `[]Intake!IndInv` | `IntakeConstants` |
| | `IntakeSound` | `[]IntakeIsSound` | the same |
| | `GatesInvariantHolds` | `[]Gates!IndInv` | nothing |
| | `GatesSound` | `[]GatesAreSound` | nothing |
| `Platform_proofs` | `InvariantHolds` | `[]IndInv` | `ModesAssumption` |
| | `KeyIsUsedOnce` | `[]OneTurnPerKey` | the same |
| | `TurnsAreSafe` | `[]VoiceTurnsAreSafe` | |
| | `ImprovementInvariantHolds` | `[]Improvement!IndInv` | `ImprovementConstants` |
| | `ImprovementSound` | `[]ImprovementIsSound` | the same |
| | `DecisionsSound` | `[]DecisionsAreSound` | `DecisionConstants`, `PolicyConstants`, `SchemaConstants` |
| | `PolicySound` | `[]Policies!PolicyIsSound` | `PolicyConstants` |
| | `SchemaInvariantHolds` | `[]Schema!IndInv` | `SchemaConstants` |
| | `ReportIsSafeAnywhere` | `Schema!ReportIsSafe` of any inventory of objects | `Schema!ObjectsAssumed` |

The assumptions give the constants their sorts and say that a null value is none
of them; the bounds of a model (`MaxClock`, `MaxTxns`, ...) are arbitrary
naturals. A few say more, and each says what the code gives: the ids of calls,
callbacks and appointments differ (`PlaneConstants`); there are finitely many
calls and finitely many records of evidence; the migrations' manifests carry the
definitions of their objects (`ObjectsAssumed`) and no two of them create one key
(`KeysAssumed`, needed only to say that an unaltered history is reported as what
ran). Two theorems have a hypothesis that is a choice of the caller:
`Transactional`, without which `OneReleasePerKey` is false (run
`idempotent_autocommit`), and `EvidenceRequired`, without which an unsigned
release leaves no entry. `TimesSeparate` says that published versions of
different times have different ids; runs satisfy it in the part `evidence`, the
code's 32-bit hash makes it likely and no more. Nothing else rests on the hash:
in all other theorems the version-id function is arbitrary, and a collision makes
a publish fail.

In each component the property is not inductive as it stands; `IndInv` (in the
component's module, checked by TLC before it was proved) adds what a step of one
process may rely on, and one lemma per action shows that the action keeps it.

**SettingsPublish.** `AlwaysOneCurrent` and `LinearHistory` speak about committed
rows, and what a commit makes of the tables depends on what the transaction has
pending. `IndInv` adds, for each publisher:

* `WritesLockedCard`: whoever has written holds the lock of its card, owned by
  its tenant, and has written rows of that card only. Hence two writers write
  different cards (`DifferentCards`) and different ids (`DisjointWrites`).
* `PreviewIsNew`: what is saved as a preview is new or is there already.
* `PendingRows`: a pending row is a new one that no one else inserts, or the
  archived form of a committed published row, the one that was listed.
* `ArchivesListed`, `InsertsReplacement`: the archival and the insert of the
  replacement come together. With no version listed, either the card has no
  published version (the unique index) or the publish repeats a first one and
  writes nothing.

The actions that change no committed row go through `OthersUndisturbed`; the
commit is split into one that releases nothing (`CommitWithoutRelease`) and one
that releases a version (`CommitRelease`), where the new version's predecessor is
the committed current one (`ListedIsCurrent`), so the history stays a chain. The
refinement follows: a commit maps to one release that replaces the current head
(`ReleasingCommit`) or to a stuttering step (`QuietCommit`), and so does every
other action. Audit and evidence need invariants of their own, because a publish
that repeats a release writes no row and yet has events and an entry pending:
`AuditInv` says that a repeat finds its version released, and the pending events
are those of the pending rows (`PendingAudit`); `ChainInv` that a pending entry
extends the chain as it is, which the append trigger checks under the lock
although the chain was read before it; `EvidenceInv` that the chain covers the
released versions in order, that its entries carry their times (`EntriesAreDated`)
and that a repeat, which has the same time, fails because its manifest is there
(`WithEvidence`).

**SettingsIdempotentPublish.** `SubmissionInv`: a submission that found no record
under its key either still would, or the list it was computed from is stale, so
the archival's re-check stops it; with `OneCurrent` and `ReleasesAreWhole`
(version, event and record come together) one key releases once.

**IdentitySessions.** What a transaction found when it locked a row holds until
it ends: a login to be marked is unmarked (`PendingLogin`), sessions to be
revoked are live (`PendingRevocations`), an id to be inserted is free
(`PendingSession`), and no two transactions hold the same row (`LockedApart`). A
row read outside a transaction may be stale, but not in what identifies it
(`JobFits`, `SameSession`), so a rotation follows the session it revokes. With
`Ancestry` (a session goes back to a marked login, and through revoked sessions)
a new session meets no rival: its login was unmarked, or its predecessor live
until this commit (`CommitSession`). `PendingReceipt` ties the receipt of a
deletion to the deletion, `BarredAreDisabled` what a request knows to what is
committed.

**SettingsApi.** `Handled(w)` says what a request that has come so far has seen and
passed. It has seen the tables at every moment since it came in
(`SeesTheTables`), so a right it read was held at some of them; and the place it
is at tells which checks are behind it (`PassedTheContext`,
`PassedTheAuthorization`, `PassedTheSchema`), whatever the tables say by now.

**CommunicationTransitions.** Entries are numbered without gaps, chained and
dated in order (`LogIsHistory`), and rise in a rank of the lifecycle's states
(`LogGoesUp`): the trigger's table has no cycle, so no decision can be used
again by coming back to the state it was made in. A writer's prepared transition
needs no invariant: the trigger looks at the aggregate anew.

**CommunicationsDispatch.** Every list of locks ends with the widest one,
`<<Wildcard, Wildcard>>` (`WidestIsLast`), so transactions that evaluate policy
exclude each other from their triggers to their commit, and what the triggers
permitted is still permitted then (`WrittenIsPermitted`, `EvaluatedAtStart`).

**CommunicationsCommands.** Whoever was told that it holds the reservation of a
key is the only one (`OwnersAreAlone`): the insert that conflicts waits, and then
reads what the other committed. That the domain package and the table accept the
same drafts is a fact about two predicates and needs no invariant.

**TrustKeys.** What an operator holds is of keys that exist (`HeldIsWhole`,
`KeysExist`), evidence matches the ends of keys, and a cutoff is never later than
the last time the key was active although it was taken before the transaction's
lock (`CutoffIsPast`), so no signature made after the end verifies.

**TrustEnvelopes.** Digests are ideal, so an altered document that was sealed
again has another digest than what was signed. What is needed of the store: an
envelope is sealed over its own content (`IsEnvelope`), what it links to was
stored before it (`LinkedToTheStored`), and a key that is active has no cutoff
(`KeysHaveTheirCutoff`). A verdict that is negative rests on something that never
changes back: time, a cutoff, a revocation.

**TrustAuditChain.** The entries of a stream are whole, numbered and linked to
their predecessors, with no event twice (`EntriesAreWhole`, `LinkedInOrder`,
`NoReplay`). A list that verifies up to a head of the stream is compared with it
from the head downwards: the least place where they agree from there on is the
first, because a link determines the entry before it. The induction is done with
the least-element theorem of the library.

**SandboxProvider.** What is verified was signed and its id is spent in this life
of the process (`VerifiedIsSigned`, `IdIsSpentOnce`); the operation store keeps
the first answer of a key (`StoreKeepsFirst`) and every later one repeats it
(`AnswersFollowStore`).

**TelephonyControlPlane.** A step that a task has before it rests on writes it has
made (`StepsFollowWrites`): an audit event comes after its record and a usage
entry after its audit event, although other tasks wrote in between. An accepted
id or key is in the log (`AcceptancesAreMarked`), which refuses the second. Depth
and table are promised while requests run one at a time: `LoneTaskIsCurrent` says
that a task alone decides on what is stored, and `serial` that there was no other.

**TelephonyGates.** The live gate and the mock gate read the same provider
variable within one decision and ask for different values, so no environment opens
both; that a request is approved is a person's doing (`ApprovalIsAPersons`), and
a call that rings was queued (`RingingWasQueued`). A route takes the first rule
that fits: it exists and is unique by the least-element theorem, and the rules of
another tenant never fit.

**CardIntake.** Of each request: what is stored is what its place among the
statements says (`StoredSoFar`), with nothing missing before it (`NoGap`), and a
confirmation comes after the last (`Confirmed`). `PagesFollow` ties a page to the
request it has open and `EventsFollow` an event to what it tells of. The rate
limit is a sliding window over a pruned list: `BucketsFollow` says that a bucket
has every admission that still counts, so a window that ends now has no more than
the limit, and an earlier one had none added.

**VoiceTurns.** A turn between two awaits has a result that is as far as its step
says (`ResultFollows`), was heard with the consent its mode needs
(`HeardWithConsent`), and its key is remembered in this life (`KeyIsRemembered`).

**ImprovementEngine.** Rows are whole and refer to rows (`RowsAreWhole`), and what
a job has still to do follows what it wrote (`JobsFollowRows`): the status of an
opportunity changes after its candidate and lineage are there, that of a
candidate after a person's decision is recorded.

**ReceptionistWorkflow.** The decision in force is the answer to one of the
inputs, so the theorem is about the functions: the reasons to block a run decide
its steps and status; scores stay in 0 to 100; the executive's availability asks
about blocked and risky callers, then about sensitive intents; the first rule a
text meets is found by least element.

**PolicyEnforcement.** The score is a percentage, because the average of clamped
confidences is a number and the rest is clamped. The rule table is reduced to two
conditions, `Blocks` and `Warns`, of which agreement and monotony are arithmetic.

**MigrationReconciliation.** What is found of an object (`Missing`, `Found`)
decides the report; that it is safe holds of any inventory
(`ReportIsSafeAnywhere`). That an unaltered history is reported as what ran needs
`WholeMigrations`: without a change by hand a migration that is not open is there
as a whole or not at all, and only a whole one is recorded.

Only model-checked:

* liveness (`PublishEnds`, `TransactionsEnd`, `EveryTurnEnds`): liveness under
  fairness is out of the prover's reach;
* `BatchesAreSound`: Merkle roots and proofs are recursive, and what a recursive
  definition computes for every input is an induction over data, which the
  installed provers cannot do;
* `EngagementIsSound` and `DashboardsAreSound`: scores, graphs and pages are sums
  and folds over lists of rows, for the same reason;
* `StoreIsSound` and `CardSettingsAreSound`: one conjunction over several
  instances of `SettingsStore`, `BrandTokens` and `SettingsInputs`; the cache's
  keys and the luminance of colours are computed from finite tables, which TLC
  covers at every boundary;
* `EvidenceAgrees` as the run states it, over parts with and without required
  evidence; its two halves are `EvidenceIsHistory` and `ChainStaysBounded`.

## 5. Not modelled, and why

* Cryptography, canonical encoding and the bytes of payloads, the identity
  provider's HTTP interface, the reading of environment variables: the models
  abstract them to identities and choices.
* Text processing: parsing SQL and normalising definitions in
  `packages/database-reconciliation`, language detection and redaction, templates
  of messages, the sanitizer of telemetry metadata. The models have the features
  or the verdict that such code produces.
* Presentation: pages, components, CSS variables, fonts, avatars, labels.
* Read-only queries that map rows to objects, agent message proofs, listings of
  the trust API, adapters that no code calls, tables of 0018 that have no writer
  yet (endpoints, outbox, webhook evidence).
* Deployment, verification and smoke-test scripts, type declarations.

Known behaviours that no property forbids, because the code does not promise
them: a logout that follows a refresh in another tab leaves the new session live;
a request that is submitted again after a lost answer is stored twice; a score
may be overwritten by that of an older read until the next job; a manifest
without objects is reported as applied.

## 6. Plan

1. `SettingsStore`: that a save never moves a row to another tenant, proved for
   one instance of its own composition.
2. Sessions: an instance with two logins and two tenants, a liveness run with
   deadlock victims.
3. Reconciliation: normalisation of expressions over expression trees.
