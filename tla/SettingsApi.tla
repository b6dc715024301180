---------------------------- MODULE SettingsApi ----------------------------
(***************************************************************************)
(* The dashboard's settings routes (card-customization-settings-api.ts)    *)
(* and the authentication and authorization in front of them.              *)
(*                                                                         *)
(* A request resolves its session statement by statement and without a     *)
(* transaction: session, identity, membership, grants, CSRF token.  What   *)
(* it has read decides, however the tables change before its one INSERT.   *)
(* GET answers the built-in defaults; POST writes an audit event of the    *)
(* submitted settings and nothing else.  Every card belongs to Tenant, the *)
(* owner of the default theme.                                             *)
(***************************************************************************)
EXTENDS Naturals, FiniteSets

CONSTANTS
  Users, Cards, Grants,
  GrantOf,        \* GrantOf[g]: the user, the card and the permissions of a grant
  Member,         \* Member[u]: the role of u at first
  Outsiders,      \* users whose session is of another tenant
  Requests,       \* the requests that may come in
  Environments,   \* the configurations a process may run with
  Workers,
  MaxRequests,    \* bound on the requests
  MaxChanges,     \* bound on the changes an administrator makes
  MaxClock,       \* bound on the milliseconds
  None

VARIABLES
  env,       \* environment variables of the process
  roles,     \* tenant_memberships: the role of each active member, or None
  active,    \* user_identities: the users that are not disabled
  live,      \* application_sessions: the users whose session is not revoked
  granted,   \* card_access_grants: the grants that are not revoked
  audit,     \* customization_audit_events
  answers,   \* the requests that were answered
  clock, requests, changes,
  pc, job

vars == <<env, roles, active, live, granted, audit, answers, clock, requests, changes, pc, job>>
tables == <<roles, active, live, granted>>
counters == <<clock, requests, changes>>

-----------------------------------------------------------------------------
(***************************************************************************)
(* The two policies                                                        *)
(***************************************************************************)
Privileged == {"tenant_owner", "tenant_admin"}
MembershipRoles == Privileged \cup {"executive", "settings_editor", "receptionist_manager", "viewer"}

SettingsPermissions ==
  {"settings:read", "settings:update", "settings:preview", "settings:publish",
   "settings:history:read", "settings:asset:write", "receptionist:configure",
   "audit:read", "members:manage", "sessions:revoke", "card-access:manage"}

TrustReads ==
  {"trust.verify", "trust.keys.read", "trust.provenance.read", "trust.audit.verify",
   "trust.merkle.verify", "trust.revocations.read"}

\* What a membership role may do (packages/identity).
RolePermissionPolicy(role) ==
  CASE role \in Privileged -> SettingsPermissions \cup TrustReads \cup {"trust.keys.manage"}
    [] role = "executive" -> TrustReads \cup
         {"settings:read", "settings:update", "settings:preview", "settings:history:read",
          "receptionist:configure", "audit:read"}
    [] role = "settings_editor" ->
         {"settings:read", "settings:update", "settings:preview", "settings:history:read",
          "settings:asset:write"}
    [] role = "receptionist_manager" ->
         {"settings:read", "settings:history:read", "receptionist:configure"}
    [] OTHER -> TrustReads \cup {"settings:read", "settings:history:read"}

\* What a role may do (packages/settings), which knows two roles more.
RolePermissions(role) ==
  CASE role \in Privileged \cup {"administrator"} -> SettingsPermissions
    [] role = "executive" ->
         {"settings:read", "settings:update", "settings:preview", "settings:history:read"}
    [] role = "settings_editor" ->
         {"settings:read", "settings:update", "settings:preview", "settings:history:read",
          "settings:asset:write"}
    [] role = "receptionist_manager" ->
         {"settings:read", "settings:history:read", "receptionist:configure"}
    [] role = "system" ->
         {"settings:read", "settings:preview", "settings:publish", "settings:history:read"}
    [] OTHER -> {"settings:read", "settings:history:read"}

GrantPermissions(gs) == UNION {GrantOf[g].permissions : g \in gs}
GrantCards(gs) == {GrantOf[g].card : g \in gs}

\* resolveTrustedSettingsAuthorizationContext, and what
\* readTrustedSettingsAuthContext passes on of it.
Context(role, gs) ==
  [role |-> role,
   permissions |-> (RolePermissionPolicy(role) \cup GrantPermissions(gs)) \cap SettingsPermissions,
   cards |-> IF role \in Privileged THEN {} ELSE GrantCards(gs)]

CardAllowed(ctx, card) ==
  \/ ctx.role \in Privileged \cup {"administrator", "system"}
  \/ card \in ctx.cards

\* authorizeSettingsAction; the tenant is that of the session, compared before.
AuthorizeSettingsAction(ctx, permission, card) ==
  /\ permission \in RolePermissions(ctx.role) \cup ctx.permissions
  /\ CardAllowed(ctx, card)

RequiredPermission(r) ==
  IF r.method = "GET" THEN "settings:read"
  ELSE IF r.kind = "card-customization" THEN "settings:update" ELSE "settings:preview"

\* The body matches the schema of its kind; a theme must be readable too.  The
\* theme inside a whole card's settings is not looked at.
SchemaAccepts(r) == r.body \in {"good", "unreadable"}
ThemeIsValid(r) == r.kind = "theme" => r.body # "unreadable"

-----------------------------------------------------------------------------
NoJob == [request |-> None, id |-> 0, role |-> None, grants |-> {}, at |-> 0,
          roles |-> {}, seen |-> {}]

Init ==
  /\ env \in Environments
  /\ roles = Member
  /\ active = Users
  /\ live = Users
  /\ granted = Grants
  /\ audit = {}
  /\ answers = {}
  /\ clock = 0 /\ requests = 0 /\ changes = 0
  /\ pc = [w \in Workers |-> "idle"]
  /\ job = [w \in Workers |-> NoJob]

GoTo(w, step) == pc' = [pc EXCEPT ![w] = step]

GrantsOf(u) == {g \in granted : GrantOf[g].user = u}

\* The roles and grants the user had while the request was handled.
Had(j) == [roles |-> j.roles, grants |-> j.seen]

\* The response, with the settings it shows.
Reply(w, status) ==
  /\ answers' = answers \cup
       {[id |-> job[w].id, request |-> job[w].request, status |-> status, had |-> Had(job[w])]}
  /\ job' = [job EXCEPT ![w] = NoJob]
  /\ GoTo(w, "idle")

Proceed(w, step) == GoTo(w, step) /\ UNCHANGED <<job, answers>>

ReceiveRequest(w) ==
  /\ pc[w] = "idle"
  /\ requests < MaxRequests
  /\ requests' = requests + 1
  /\ \E r \in Requests :
       job' = [job EXCEPT ![w] =
         [NoJob EXCEPT !.request = r, !.id = requests + 1,
                       !.roles = IF r.user = None THEN {} ELSE {roles[r.user]},
                       !.seen = IF r.user = None THEN {} ELSE GrantsOf(r.user)]]
  /\ GoTo(w, "arrived")
  /\ UNCHANGED <<env, tables, audit, answers, clock, changes>>

\* developmentContext: the role comes from the environment, the tenant must be
\* the card's; there is no repository, so neither origin nor token is checked.
DevelopmentIdentity(w) ==
  IF env.developmentTenant /\ env.role \in MembershipRoles
    THEN /\ job' = [job EXCEPT ![w].role = env.role, ![w].roles = {env.role}]
         /\ GoTo(w, "authorize")
         /\ UNCHANGED answers
    ELSE Reply(w, 403)

\* The slug is a word, and one of a card: both handlers look first.
SlugStatus(r) ==
  IF r.slug = "malformed" THEN 400 ELSE IF r.slug \notin Cards THEN 404 ELSE 200

\* resolveDashboardIdentity up to its first statement.
ResolveIdentity(w) ==
  IF env.development THEN DevelopmentIdentity(w)
  ELSE IF ~(env.identity /\ env.database) THEN Reply(w, 503)
  ELSE IF job[w].request.user = None THEN Reply(w, 401)
  ELSE Proceed(w, "session")

CheckRequest(w) ==
  /\ pc[w] = "arrived"
  /\ IF SlugStatus(job[w].request) # 200
       THEN Reply(w, SlugStatus(job[w].request))
       ELSE ResolveIdentity(w)
  /\ UNCHANGED <<env, tables, audit, counters>>

GetSession(w) ==
  /\ pc[w] = "session"
  /\ IF job[w].request.user \in live THEN Proceed(w, "identity") ELSE Reply(w, 401)
  /\ UNCHANGED <<env, tables, audit, counters>>

GetIdentity(w) ==
  /\ pc[w] = "identity"
  /\ IF job[w].request.user \in active THEN Proceed(w, "membership") ELSE Reply(w, 403)
  /\ UNCHANGED <<env, tables, audit, counters>>

\* Mutant: the session's own membership is not looked up again.
ListMembershipsCached(w) ==
  LET role == Member[job[w].request.user] IN
  /\ pc[w] = "membership"
  /\ IF role = None THEN Reply(w, 403)
     ELSE /\ job' = [job EXCEPT ![w].role = role]
          /\ GoTo(w, "grants")
          /\ UNCHANGED answers
  /\ UNCHANGED <<env, tables, audit, counters>>

ListMemberships(w) ==
  LET role == roles[job[w].request.user] IN
  /\ pc[w] = "membership"
  /\ IF role = None THEN Reply(w, 403)
     ELSE /\ job' = [job EXCEPT ![w].role = role]
          /\ GoTo(w, "grants")
          /\ UNCHANGED answers
  /\ UNCHANGED <<env, tables, audit, counters>>

\* The grants are read and the context is complete: the tenant and the card
\* are compared, then for a POST the origin.
ListGrants(w) ==
  LET r == job[w].request
      gs == GrantsOf(r.user) IN
  /\ pc[w] = "grants"
  /\ IF \/ r.user \in Outsiders
        \/ job[w].role \notin Privileged /\ r.slug \notin GrantCards(gs)
        \/ r.method = "POST" /\ r.form = "foreign origin"
       THEN Reply(w, 403)
       ELSE /\ job' = [job EXCEPT ![w].grants = gs]
            /\ GoTo(w, IF r.method = "POST" THEN "csrf" ELSE "authorize")
            /\ UNCHANGED answers
  /\ UNCHANGED <<env, tables, audit, counters>>

VerifyCsrf(w) ==
  LET r == job[w].request IN
  /\ pc[w] = "csrf"
  /\ IF r.form # "wrong token" /\ r.user \in live THEN Proceed(w, "authorize") ELSE Reply(w, 403)
  /\ UNCHANGED <<env, tables, audit, counters>>

\* In development the non-privileged identity is assigned to the card asked for.
JobContext(j) ==
  LET ctx == Context(j.role, j.grants) IN
  IF env.development /\ j.role \notin Privileged
    THEN [ctx EXCEPT !.cards = {j.request.slug}]
    ELSE ctx

Authorized(w) ==
  LET r == job[w].request IN
  AuthorizeSettingsAction(JobContext(job[w]), RequiredPermission(r), r.slug)

\* getSettingsPayload answers the built-in settings of the card, whatever was
\* accepted before.
AuthorizeRead(w) ==
  /\ pc[w] = "authorize" /\ job[w].request.method = "GET"
  /\ Reply(w, IF Authorized(w) THEN 200 ELSE 403)
  /\ UNCHANGED <<env, tables, audit, counters>>

\* postSettingsPayload goes on to the body, if there is a database.
AuthorizeWrite(w) ==
  /\ pc[w] = "authorize" /\ job[w].request.method = "POST"
  /\ IF ~Authorized(w) THEN Reply(w, 403)
     ELSE IF ~env.database THEN Reply(w, 503)
     ELSE Proceed(w, "parse")
  /\ UNCHANGED <<env, tables, audit, counters>>

\* The body is awaited, parsed and validated; the event is created now.
ParseBody(w) ==
  LET r == job[w].request IN
  /\ pc[w] = "parse"
  /\ IF SchemaAccepts(r) /\ ThemeIsValid(r)
       THEN /\ job' = [job EXCEPT ![w].at = clock]
            /\ GoTo(w, "insert")
            /\ UNCHANGED answers
       ELSE Reply(w, 400)
  /\ UNCHANGED <<env, tables, audit, counters>>

Actor(j) == IF env.development THEN "test-identity-local" ELSE j.request.user

\* createCustomizationAuditEvent: the id is a hash of actor, values and time, so
\* the same submission twice in a millisecond is the same event.  The old value
\* is always the default.
AuditEvent(j) ==
  [card |-> j.request.slug, kind |-> j.request.kind, actor |-> Actor(j),
   value |-> j.request.body, old |-> "default", at |-> j.at, request |-> j.id]

Inserted(event) ==
  IF \E e \in audit : [e EXCEPT !.request = event.request] = event
    THEN audit ELSE audit \cup {event}

\* INSERT ... ON CONFLICT DO NOTHING; a failure may also lose the reply to an
\* insert that was made.
WriteAuditEvent(w) ==
  /\ pc[w] = "insert"
  /\ \/ audit' = Inserted(AuditEvent(job[w])) /\ Reply(w, 202)
     \/ audit' \in {audit, Inserted(AuditEvent(job[w]))} /\ Reply(w, 503)
  /\ UNCHANGED <<env, tables, counters>>

-----------------------------------------------------------------------------
(***************************************************************************)
(* Meanwhile: administrators and the identity provider                     *)
(***************************************************************************)
Noting(newRoles) ==
  job' = [w \in Workers |->
    LET u == job[w].request.user IN
    IF pc[w] = "idle" \/ env.development THEN job[w]
    ELSE IF u = None THEN job[w]
    ELSE [job[w] EXCEPT !.roles = @ \cup {newRoles[u]}]]

Change == changes < MaxChanges /\ changes' = changes + 1

\* A membership is revoked, or gets another role.  The trigger revokes the
\* sessions it can see; one that is being issued escapes it.
ChangeMembership ==
  /\ Change
  /\ \E u \in Users, role \in {"viewer", None} :
       /\ roles[u] \notin {role, None}
       /\ roles' = [roles EXCEPT ![u] = role]
       /\ live' \in IF role = None THEN {live, live \ {u}} ELSE {live}
  /\ Noting(roles')
  /\ UNCHANGED <<env, active, granted, audit, answers, clock, requests, pc>>

RevokeGrant ==
  /\ Change
  /\ \E g \in granted : granted' = granted \ {g}
  /\ UNCHANGED <<env, roles, active, live, audit, answers, clock, requests, pc, job>>

DisableIdentity ==
  /\ Change
  /\ \E u \in active :
       /\ active' = active \ {u}
       /\ live' \in {live, live \ {u}}
  /\ UNCHANGED <<env, roles, granted, audit, answers, clock, requests, pc, job>>

RevokeSession ==
  /\ Change
  /\ \E u \in live : live' = live \ {u}
  /\ UNCHANGED <<env, roles, active, granted, audit, answers, clock, requests, pc, job>>

Tick ==
  /\ clock < MaxClock
  /\ clock' = clock + 1
  /\ UNCHANGED <<env, tables, audit, answers, requests, changes, pc, job>>

Next ==
  \/ \E w \in Workers :
       \/ ReceiveRequest(w) \/ CheckRequest(w) \/ GetSession(w) \/ GetIdentity(w)
       \/ ListMemberships(w) \/ ListGrants(w) \/ VerifyCsrf(w) \/ AuthorizeRead(w)
       \/ AuthorizeWrite(w) \/ ParseBody(w) \/ WriteAuditEvent(w)
  \/ ChangeMembership \/ RevokeGrant \/ DisableIdentity \/ RevokeSession
  \/ Tick

Spec == Init /\ [][Next]_vars

-----------------------------------------------------------------------------
(***************************************************************************)
(* Properties                                                              *)
(***************************************************************************)
\* The answers that showed or accepted settings.
Served == {a \in answers : a.status \in {200, 202}}

AuthorityWasHeld ==
  \A a \in Served : \E role \in a.had.roles \ {None} :
    LET r == a.request IN
    /\ role \in Privileged \/ env.development \/ r.slug \in GrantCards(a.had.grants)
    /\ RequiredPermission(r) \in
         RolePermissionPolicy(role) \cup (IF env.development THEN {} ELSE GrantPermissions(a.had.grants))

AcceptedIsAudited ==
  \A a \in answers : a.status = 202 =>
    \E e \in audit : /\ e.card = a.request.slug /\ e.kind = a.request.kind
                     /\ e.value = a.request.body
                     /\ env.development \/ e.actor = a.request.user

AuditedWasAccepted ==
  \A e \in audit : \E a \in answers :
    /\ a.id = e.request /\ a.status \in {202, 503}
    /\ SchemaAccepts(a.request) /\ ThemeIsValid(a.request)
    /\ env.database

ForeignRequestsAreRefused ==
  ~env.development =>
    \A a \in Served : /\ a.request.user \notin Outsiders \cup {None}
                      /\ a.request.method = "POST" => a.request.form = "own"

\* A request is served only to someone who, while it was handled, was a member
\* with that card and that permission, from a role or from a grant: no mixture
\* of what was read before and after a change gives more than was ever held.
\* The settings package's table adds nothing to the identity package's.  What
\* is answered 202 is in the audit table, and what is in it passed every check.
ApiIsSound ==
  AuthorityWasHeld /\ AcceptedIsAudited /\ AuditedWasAccepted /\ ForeignRequestsAreRefused

\* AUTHORIZATION_MODEL.md: a user without a privileged role is served only with
\* a grant of the required permission on that card.
GrantsCarryThePermission ==
  \A a \in Served : a.had.roles \cap Privileged = {} /\ ~env.development =>
    \E g \in a.had.grants : /\ GrantOf[g].card = a.request.slug
                            /\ RequiredPermission(a.request) \in GrantOf[g].permissions

-----------------------------------------------------------------------------
(***************************************************************************)
(* The inductive invariant.  A request carries the role it read and the    *)
(* grants it read; both were its user's at some time since it arrived, and *)
(* how far the request is says which of the checks it has passed.          *)
(***************************************************************************)
\* What the proofs assume of the constants.
ConstantsAssumed ==
  /\ Member \in [Users -> MembershipRoles \cup {None}]
  /\ None \notin Users /\ None \notin MembershipRoles /\ None \notin Requests
  /\ \A r \in Requests : /\ r.user \in Users \cup {None}
                         /\ r.form \in {"own", "foreign origin", "wrong token"}
  /\ \A e \in Environments : e.development \in BOOLEAN /\ e.database \in BOOLEAN

Jobs ==
  [request : Requests \cup {None}, id : Nat, role : MembershipRoles \cup {None},
   grants : SUBSET Grants, at : Nat, roles : SUBSET (MembershipRoles \cup {None}),
   seen : SUBSET Grants]

TypeOK ==
  /\ env \in Environments
  /\ roles \in [Users -> MembershipRoles \cup {None}]
  /\ granted \subseteq Grants
  /\ clock \in Nat /\ requests \in Nat
  /\ pc \in [Workers -> {"idle", "arrived", "session", "identity", "membership", "grants",
                        "csrf", "authorize", "parse", "insert"}]
  /\ job \in [Workers -> Jobs]

\* The role the user has now is among those the request has seen, and so are
\* its grants: a request misses no change.
SeesTheTables(w) ==
  LET r == job[w].request IN
  ~env.development /\ r.user # None =>
    roles[r.user] \in job[w].roles /\ GrantsOf(r.user) \subseteq job[w].seen

\* In development a request goes from its arrival to its authorization.
TakesItsPath(w) ==
  IF env.development
    THEN pc[w] \in {"arrived", "authorize", "parse", "insert"} /\ job[w].grants = {}
    ELSE pc[w] # "arrived" => job[w].request.user # None

HasItsRole(w) ==
  pc[w] \in {"grants", "csrf", "authorize", "parse", "insert"} =>
    job[w].role \in job[w].roles \ {None}

PassedTheContext(w) ==
  LET r == job[w].request IN
  ~env.development /\ pc[w] \in {"csrf", "authorize", "parse", "insert"} =>
    /\ r.user \notin Outsiders
    /\ job[w].grants \subseteq job[w].seen
    /\ job[w].role \in Privileged \/ r.slug \in GrantCards(job[w].grants)
    /\ r.method = "POST" => r.form # "foreign origin"
    /\ r.method = "POST" /\ pc[w] # "csrf" => r.form # "wrong token"

PassedTheAuthorization(w) ==
  pc[w] \in {"parse", "insert"} =>
    Authorized(w) /\ job[w].request.method = "POST" /\ env.database

PassedTheSchema(w) ==
  pc[w] = "insert" => SchemaAccepts(job[w].request) /\ ThemeIsValid(job[w].request)

Handled(w) ==
  /\ job[w].request \in Requests
  /\ SeesTheTables(w) /\ TakesItsPath(w) /\ HasItsRole(w)
  /\ PassedTheContext(w) /\ PassedTheAuthorization(w) /\ PassedTheSchema(w)

IndInv ==
  /\ TypeOK
  /\ \A w \in Workers : pc[w] # "idle" => Handled(w)
  /\ ApiIsSound

=============================================================================
