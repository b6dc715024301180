-------------------------- MODULE IdentitySessions --------------------------
(***************************************************************************)
(* Application sessions of @bidayax/identity, behind the dashboard's auth  *)
(* routes (identity-http.ts).                                              *)
(*                                                                         *)
(* Requests run concurrently.  Login callbacks, refreshes, logouts and     *)
(* provider webhooks change the tables in one READ COMMITTED transaction   *)
(* each (withIdentityTransaction); the session of a request is resolved    *)
(* before, statement by statement and without a transaction.  Triggers     *)
(* check that a new session's user and membership are active and revoke    *)
(* the sessions of a user who is disabled or a membership that is revoked. *)
(*                                                                         *)
(* The committed tables are users, members, sessions, logins and receipts; *)
(* tx[w] holds what the transaction of request handler w has written.  A   *)
(* row that a transaction has written is locked until the transaction      *)
(* ends: an UPDATE of it waits and then looks at the row again.  An UPDATE *)
(* of many sessions finds the sessions that were committed when it began.  *)
(*                                                                         *)
(* A user that is not yet provisioned has no membership, so its login is   *)
(* rolled back; the model starts with provisioned users.                   *)
(***************************************************************************)
EXTENDS Naturals, FiniteSets

CONSTANTS
  Users, Tenants,
  Memberships,       \* the memberships that were provisioned
  ProviderSessions,  \* session ids of the identity provider
  Logins,            \* OAuth transactions
  Sessions,          \* ids of application sessions
  Events,            \* provider webhook events
  EventType,         \* EventType[e]: "session.revoked", "user.deleted" or other
  EventSubject,      \* EventSubject[e]: the provider session or user it names
  Workers,           \* request handlers
  IdleTimeout, AbsoluteTimeout, LoginTimeout,
  MaxClock,          \* bound of the clock
  None

ASSUME IdentityAssumption ==
  /\ Memberships \subseteq Users \X Tenants
  /\ IdleTimeout \in Nat /\ AbsoluteTimeout \in Nat /\ LoginTimeout \in Nat
  /\ MaxClock \in Nat
  /\ EventSubject \in [Events -> Users \cup ProviderSessions]
  /\ \A e \in Events : /\ EventType[e] = "user.deleted" => EventSubject[e] \in Users
                       /\ EventType[e] = "session.revoked" => EventSubject[e] \in ProviderSessions
  /\ None \notin Users \cup Tenants \cup (Users \X Tenants) \cup Logins \cup Sessions \cup Events

VARIABLES
  clock,
  users,      \* user_identities: status
  members,    \* tenant_memberships: the active ones
  logins,     \* identity_oauth_transactions
  sessions,   \* application_sessions
  receipts,   \* identity_webhook_receipts
  pc,         \* the next statement of each handler
  job,        \* what each handler works on and has read
  tx          \* uncommitted writes of each handler

vars == <<clock, users, members, logins, sessions, receipts, pc, job, tx>>

\* A session row; login is the OAuth transaction its lineage began with.
Row == [user : Users, tenant : Tenants, psession : ProviderSessions \cup {None},
        login : Logins, from : Sessions \cup {None},
        idle : Nat, absolute : Nat, revoked : BOOLEAN]

\* None is no row of a table.
ASSUME NullAssumption == None \notin Row /\ None \notin [expires : Nat, consumed : BOOLEAN]

Kinds == {"login", "access", "refresh", "logout", "webhook", "unmember", "none"}
Job == [kind : Kinds, login : Logins \cup {None}, session : Sessions \cup {None},
        row : Row \cup {None}, event : Events \cup {None}, user : Users \cup {None},
        tenant : Tenants \cup {None}, psession : ProviderSessions \cup {None},
        now : Nat, target : SUBSET Sessions, barred : SUBSET Users]
Tx == [login : Logins \cup {None}, user : Users \cup {None},
       disabled : Users \cup {None}, member : (Users \X Tenants) \cup {None},
       receipt : Events \cup {None}, revoked : SUBSET Sessions,
       session : Sessions \cup {None}, row : Row \cup {None}]
Steps == {"idle", "consume", "upsert", "issue", "read", "expire", "identity",
          "membership", "touch", "csrf", "revoke", "receipt", "disable",
          "unmember", "sweep", "sweeping", "commit"}

NoJob == [kind |-> "none", login |-> None, session |-> None, row |-> None,
          event |-> None, user |-> None, tenant |-> None, psession |-> None,
          now |-> 0, target |-> {}, barred |-> {}]
NoTx == [login |-> None, user |-> None, disabled |-> None, member |-> None,
         receipt |-> None, revoked |-> {}, session |-> None, row |-> None]

Init ==
  /\ clock = 0
  /\ users = [u \in Users |-> "active"]
  /\ members = Memberships
  /\ logins = [l \in Logins |-> None]
  /\ sessions = [s \in Sessions |-> None]
  /\ receipts = {}
  /\ pc = [w \in Workers |-> "idle"]
  /\ job = [w \in Workers |-> NoJob]
  /\ tx = [w \in Workers |-> NoTx]

tables == <<users, members, logins, sessions, receipts>>

-----------------------------------------------------------------------------
(***************************************************************************)
(* Rows locked by another transaction                                      *)
(***************************************************************************)
Others(w) == Workers \ {w}
LoginIsLocked(w, l)    == \E q \in Others(w) : tx[q].login = l
UserIsLocked(w, u)     == \E q \in Others(w) : u \in {tx[q].user, tx[q].disabled}
MemberIsLocked(w, m)   == \E q \in Others(w) : tx[q].member = m
ReceiptIsLocked(w, e)  == \E q \in Others(w) : tx[q].receipt = e
SessionIsLocked(w, s)  == \E q \in Others(w) : s \in tx[q].revoked

Live(s) == sessions[s] # None /\ ~sessions[s].revoked

GoTo(w, step) == pc' = [pc EXCEPT ![w] = step]

\* The handler answers without having an open transaction.
Answer(w) ==
  /\ GoTo(w, "idle")
  /\ job' = [job EXCEPT ![w] = NoJob]

-----------------------------------------------------------------------------
(***************************************************************************)
(* Requests arrive                                                         *)
(***************************************************************************)

\* startIdentityLogin: one INSERT.
StartIdentityLogin(l) ==
  /\ logins[l] = None
  /\ logins' = [logins EXCEPT ![l] = [expires |-> clock + LoginTimeout, consumed |-> FALSE]]
  /\ UNCHANGED <<clock, users, members, sessions, receipts, pc, job, tx>>

\* barred records which users were disabled when the request came in.
NewJob(kind) == [NoJob EXCEPT !.kind = kind, !.now = clock,
                              !.barred = {u \in Users : users[u] = "disabled"}]

\* A browser comes back from the provider with the state of login l.
CallbackRequest(w) ==
  /\ pc[w] = "idle"
  /\ \E l \in Logins :
       /\ logins[l] # None
       /\ job' = [job EXCEPT ![w] = [NewJob("login") EXCEPT !.login = l]]
  /\ GoTo(w, "consume")
  /\ UNCHANGED <<clock, tables, tx>>

\* A request with the cookie of session s: a page, a refresh or a logout.
SessionRequest(w) ==
  /\ pc[w] = "idle"
  /\ \E s \in Sessions, kind \in {"access", "refresh", "logout"} :
       /\ sessions[s] # None
       /\ job' = [job EXCEPT ![w] = [NewJob(kind) EXCEPT !.session = s]]
  /\ GoTo(w, "read")
  /\ UNCHANGED <<clock, tables, tx>>

\* The provider delivers event e, once or several times.
WebhookRequest(w) ==
  /\ pc[w] = "idle"
  /\ \E e \in Events :
       job' = [job EXCEPT ![w] = [NewJob("webhook") EXCEPT !.event = e]]
  /\ GoTo(w, "receipt")
  /\ UNCHANGED <<clock, tables, tx>>

\* An operator revokes a membership.
OperatorRequest(w) ==
  /\ pc[w] = "idle"
  /\ \E m \in members :
       job' = [job EXCEPT ![w] =
                 [NewJob("unmember") EXCEPT !.user = m[1], !.tenant = m[2]]]
  /\ GoTo(w, "unmember")
  /\ UNCHANGED <<clock, tables, tx>>

-----------------------------------------------------------------------------
(***************************************************************************)
(* Resolving the session of a request: resolveApplicationSession, without  *)
(* a transaction                                                           *)
(***************************************************************************)

\* getSessionByTokenHash finds unrevoked sessions only; then the clock is read
\* and both expiries are checked.
ReadSession(w) ==
  LET s == job[w].session IN
  /\ pc[w] = "read"
  /\ \/ /\ Live(s)
        /\ job' = [job EXCEPT ![w].row = sessions[s], ![w].now = clock]
        /\ GoTo(w, IF sessions[s].idle <= clock \/ sessions[s].absolute <= clock
                     THEN "expire" ELSE "identity")
     \/ /\ ~Live(s)
        /\ Answer(w)
  /\ UNCHANGED <<clock, tables, tx>>

\* UPDATE ... SET revoked_at WHERE revoked_at IS NULL, committed at once.
ExpireSession(w) ==
  LET s == job[w].session IN
  /\ pc[w] = "expire"
  /\ ~SessionIsLocked(w, s)
  /\ sessions' = IF Live(s) THEN [sessions EXCEPT ![s].revoked = TRUE] ELSE sessions
  /\ Answer(w)
  /\ UNCHANGED <<clock, users, members, logins, receipts, tx>>

\* Mutant: an unrevoked session is taken to be the session of an active user.
GetIdentityUnchecked(w) ==
  /\ pc[w] = "identity"
  /\ GoTo(w, "membership")
  /\ UNCHANGED <<clock, tables, job, tx>>

\* getIdentity and the check of its status.
GetIdentity(w) ==
  /\ pc[w] = "identity"
  /\ \/ users[job[w].row.user] = "active" /\ GoTo(w, "membership") /\ UNCHANGED job
     \/ users[job[w].row.user] # "active" /\ Answer(w)
  /\ UNCHANGED <<clock, tables, tx>>

ListActiveMemberships(w) ==
  LET m == <<job[w].row.user, job[w].row.tenant>> IN
  /\ pc[w] = "membership"
  /\ \/ m \in members /\ GoTo(w, "touch") /\ UNCHANGED job
     \/ m \notin members /\ Answer(w)
  /\ UNCHANGED <<clock, tables, tx>>

Least(a, b) == IF a <= b THEN a ELSE b

\* Mutant: the session object that was read is written back.
TouchedByWritingBack(row, read, now) == [read EXCEPT !.idle = now + IdleTimeout]

\* What touchSession leaves of the current row.
Touched(row, read, now) ==
  IF row.revoked
    THEN row
    ELSE [row EXCEPT !.idle =
            Least(Least(now + IdleTimeout, read.absolute), row.absolute)]

\* The request is authorised, whether or not the UPDATE found the session
\* still unrevoked.
TouchSession(w) ==
  LET s == job[w].session IN
  /\ pc[w] = "touch"
  /\ ~SessionIsLocked(w, s)
  /\ sessions' = [sessions EXCEPT ![s] = Touched(@, job[w].row, job[w].now)]
  /\ IF job[w].kind = "access" THEN Answer(w) ELSE GoTo(w, "csrf") /\ UNCHANGED job
  /\ UNCHANGED <<clock, users, members, logins, receipts, tx>>

\* A request whose tokens do not match, or whose session was revoked, is refused.
VerifyCsrf(w) ==
  /\ pc[w] = "csrf"
  /\ \/ /\ Live(job[w].session)
        /\ GoTo(w, "revoke")
        /\ job' = [job EXCEPT ![w].now = clock]
     \/ Answer(w)
  /\ UNCHANGED <<clock, tables, tx>>

-----------------------------------------------------------------------------
(***************************************************************************)
(* Transactions of refresh, logout and login                               *)
(***************************************************************************)

\* Mutant: rotation reads whether the session is revoked and updates it by id.
RevokeSessionUnchecked(w) ==
  LET s == job[w].session IN
  /\ pc[w] = "revoke"
  /\ tx' = [tx EXCEPT ![w].revoked = {s}]
  /\ GoTo(w, IF job[w].kind = "refresh" THEN "issue" ELSE "commit")
  /\ UNCHANGED <<clock, tables, job>>

\* revokeSession, the first statement of a refresh and of a logout.  A refresh
\* that does not find its session unrevoked throws session_rotation_replayed;
\* a logout goes on to its audit events.  The handler read the clock between the
\* end of verifyCsrf and this statement, which may have waited.
RevokeSession(w) ==
  LET s == job[w].session IN
  /\ pc[w] = "revoke"
  /\ ~SessionIsLocked(w, s)
  /\ \/ /\ Live(s)
        /\ tx' = [tx EXCEPT ![w].revoked = {s}]
        /\ GoTo(w, IF job[w].kind = "refresh" THEN "issue" ELSE "commit")
     \/ /\ ~Live(s)
        /\ job[w].kind = "logout"
        /\ GoTo(w, "commit")
        /\ UNCHANGED tx
  /\ \E now \in job[w].now..clock : job' = [job EXCEPT ![w].now = now]
  /\ UNCHANGED <<clock, tables>>

\* Mutant: the transaction is read without being marked.
ReadOAuthTransaction(w) ==
  LET l == job[w].login IN
  /\ pc[w] = "consume"
  /\ ~logins[l].consumed
  /\ logins[l].expires > job[w].now
  /\ GoTo(w, "upsert")
  /\ UNCHANGED <<clock, tables, job, tx>>

\* consumeOAuthTransaction: an UPDATE that finds the transaction unconsumed and
\* unexpired, or the callback is invalid.
ConsumeOAuthTransaction(w) ==
  LET l == job[w].login IN
  /\ pc[w] = "consume"
  /\ ~LoginIsLocked(w, l)
  /\ ~logins[l].consumed
  /\ logins[l].expires > job[w].now
  /\ tx' = [tx EXCEPT ![w].login = l]
  /\ GoTo(w, "upsert")
  /\ UNCHANGED <<clock, tables, job>>

\* The provider exchanges the code for an identity with a verified email: user
\* u, its provider session and the tenant linked to its organisation, if any.
\* The upsert locks the row of u and keeps its status, which must be active.
UpsertProviderIdentity(w) ==
  /\ pc[w] = "upsert"
  /\ \E u \in Users, ps \in ProviderSessions \cup {None}, t \in Tenants \cup {None} :
       /\ ~UserIsLocked(w, u)
       /\ users[u] = "active"
       /\ tx' = [tx EXCEPT ![w].user = u]
       /\ job' = [job EXCEPT ![w].user = u, ![w].psession = ps, ![w].tenant = t]
  /\ GoTo(w, "issue")
  /\ UNCHANGED <<clock, tables>>

\* The tenants chooseMembership may return: the linked one, or the only one.
ChosenTenants(u, linked) ==
  {t \in Tenants : /\ <<u, t>> \in members
                   /\ \/ linked = t
                      \/ linked = None /\ \A t2 \in Tenants : <<u, t2>> \in members => t2 = t}

\* The trigger on inserts and the CHECK on the expiries.
SessionInsertAllowed(u, t) ==
  /\ users[u] = "active"
  /\ <<u, t>> \in members
  /\ IdleTimeout > 0
  /\ IdleTimeout <= AbsoluteTimeout

\* issueApplicationSession inserts a session that begins now.
IssueApplicationSession(w, u, t, ps, l, from) ==
  /\ SessionInsertAllowed(u, t)
  /\ \E s \in Sessions :
       /\ sessions[s] = None
       /\ \A q \in Workers : tx[q].session # s
       /\ tx' = [tx EXCEPT
            ![w].session = s,
            ![w].row = [user |-> u, tenant |-> t, psession |-> ps, login |-> l,
                        from |-> from, idle |-> job[w].now + IdleTimeout,
                        absolute |-> job[w].now + AbsoluteTimeout, revoked |-> FALSE]]
  /\ GoTo(w, "commit")
  /\ UNCHANGED <<clock, tables, job>>

CompleteLogin(w) ==
  /\ pc[w] = "issue"
  /\ job[w].kind = "login"
  /\ \E t \in ChosenTenants(job[w].user, job[w].tenant) :
       IssueApplicationSession(w, job[w].user, t, job[w].psession, job[w].login, None)

RotateSession(w) ==
  LET row == job[w].row IN
  /\ pc[w] = "issue"
  /\ job[w].kind = "refresh"
  /\ IssueApplicationSession(w, row.user, row.tenant, row.psession, row.login,
                             job[w].session)

-----------------------------------------------------------------------------
(***************************************************************************)
(* Webhooks and revoked memberships                                        *)
(***************************************************************************)

\* saveWebhookReceipt: INSERT ... ON CONFLICT DO NOTHING waits for an
\* uncommitted receipt of the same event.  A duplicate is answered at once.
SaveWebhookReceipt(w) ==
  LET e == job[w].event IN
  /\ pc[w] = "receipt"
  /\ ~ReceiptIsLocked(w, e)
  /\ IF e \in receipts
       THEN GoTo(w, "commit") /\ UNCHANGED tx
       ELSE /\ tx' = [tx EXCEPT ![w].receipt = e]
            /\ GoTo(w, CASE EventType[e] = "session.revoked" -> "sweep"
                         [] EventType[e] = "user.deleted" -> "disable"
                         [] OTHER -> "commit")
  /\ UNCHANGED <<clock, tables, job>>

\* disableIdentityByProviderSubject; the trigger then sweeps the user's sessions.
DisableIdentity(w) ==
  LET u == EventSubject[job[w].event] IN
  /\ pc[w] = "disable"
  /\ ~UserIsLocked(w, u)
  /\ tx' = [tx EXCEPT ![w].disabled = u]
  /\ GoTo(w, "sweep")
  /\ UNCHANGED <<clock, tables, job>>

RevokeMembership(w) ==
  LET m == <<job[w].user, job[w].tenant>> IN
  /\ pc[w] = "unmember"
  /\ ~MemberIsLocked(w, m)
  /\ tx' = [tx EXCEPT ![w].member = m]
  /\ GoTo(w, "sweep")
  /\ UNCHANGED <<clock, tables, job>>

\* The sessions an UPDATE of several sessions is about.
InSweep(j, s) ==
  CASE j.kind = "unmember" -> sessions[s].user = j.user /\ sessions[s].tenant = j.tenant
    [] EventType[j.event] = "user.deleted" -> sessions[s].user = EventSubject[j.event]
    [] OTHER -> sessions[s].psession = EventSubject[j.event]

\* The UPDATE begins: it finds the sessions committed by now.
StartSweep(w) ==
  /\ pc[w] = "sweep"
  /\ job' = [job EXCEPT ![w].target = {s \in Sessions : Live(s) /\ InSweep(job[w], s)}]
  /\ GoTo(w, "sweeping")
  /\ UNCHANGED <<clock, tables, tx>>

\* It locks the sessions one by one and revokes those that are still live.
SweepSession(w) ==
  /\ pc[w] = "sweeping"
  /\ \E s \in job[w].target :
       /\ ~SessionIsLocked(w, s)
       /\ tx' = [tx EXCEPT ![w].revoked = IF Live(s) THEN @ \cup {s} ELSE @]
       /\ job' = [job EXCEPT ![w].target = @ \ {s}]
  /\ UNCHANGED <<clock, tables, pc>>

-----------------------------------------------------------------------------
(***************************************************************************)
(* The end of a transaction                                                *)
(***************************************************************************)
Finish(w) ==
  /\ Answer(w)
  /\ tx' = [tx EXCEPT ![w] = NoTx]
  /\ UNCHANGED clock

Commit(w) ==
  /\ pc[w] = "commit" \/ (pc[w] = "sweeping" /\ job[w].target = {})
  /\ users' = [u \in Users |-> IF u = tx[w].disabled THEN "disabled" ELSE users[u]]
  /\ members' = members \ {tx[w].member}
  /\ logins' = [l \in Logins |-> IF l = tx[w].login
                                   THEN [logins[l] EXCEPT !.consumed = TRUE]
                                   ELSE logins[l]]
  /\ sessions' = [s \in Sessions |->
                    IF s = tx[w].session THEN tx[w].row
                    ELSE IF s \in tx[w].revoked THEN [sessions[s] EXCEPT !.revoked = TRUE]
                    ELSE sessions[s]]
  /\ receipts' = IF tx[w].receipt = None THEN receipts ELSE receipts \cup {tx[w].receipt}
  /\ Finish(w)

\* A statement failed, the handler threw, or the process died.
Rollback(w) ==
  /\ pc[w] # "idle"
  /\ Finish(w)
  /\ UNCHANGED tables

Tick ==
  /\ clock < MaxClock
  /\ clock' = clock + 1
  /\ UNCHANGED <<tables, pc, job, tx>>

Request(w) ==
  \/ CallbackRequest(w) \/ SessionRequest(w) \/ WebhookRequest(w) \/ OperatorRequest(w)

Step(w) ==
  \/ ReadSession(w) \/ ExpireSession(w) \/ GetIdentity(w) \/ ListActiveMemberships(w)
  \/ TouchSession(w) \/ VerifyCsrf(w) \/ RevokeSession(w)
  \/ ConsumeOAuthTransaction(w) \/ UpsertProviderIdentity(w)
  \/ CompleteLogin(w) \/ RotateSession(w)
  \/ SaveWebhookReceipt(w) \/ DisableIdentity(w) \/ RevokeMembership(w)
  \/ StartSweep(w) \/ SweepSession(w) \/ Commit(w)

Next ==
  \/ Tick
  \/ \E l \in Logins : StartIdentityLogin(l)
  \/ \E w \in Workers : Request(w) \/ Step(w) \/ Rollback(w)

Spec == Init /\ [][Next]_vars

-----------------------------------------------------------------------------
(***************************************************************************)
(* Properties                                                              *)
(***************************************************************************)

TypeOK ==
  /\ clock \in Nat
  /\ users \in [Users -> {"active", "disabled"}]
  /\ members \subseteq Users \X Tenants
  /\ logins \in [Logins -> [expires : Nat, consumed : BOOLEAN] \cup {None}]
  /\ sessions \in [Sessions -> Row \cup {None}]
  /\ receipts \subseteq Events
  /\ pc \in [Workers -> Steps]
  /\ job \in [Workers -> Job]
  /\ tx \in [Workers -> Tx]

\* A login leads to one session, and a session is rotated into at most one
\* other: neither two callbacks with the same state nor two refreshes with the
\* same cookie, whatever their order and failures, both get a session.
LineageIsLinear ==
  \A s1, s2 \in Sessions :
    (sessions[s1] # None /\ sessions[s2] # None
       /\ sessions[s1].login = sessions[s2].login
       /\ sessions[s1].from = sessions[s2].from) => s1 = s2

\* Of all sessions that go back to one login at most one is live.
OneLiveSessionPerLogin ==
  \A s1, s2 \in Sessions :
    (Live(s1) /\ Live(s2) /\ sessions[s1].login = sessions[s2].login) => s1 = s2

\* The effect of a webhook event is there as soon as its receipt is: a
\* duplicate delivery, which the receipt suppresses, is never needed to repair
\* it, and no login that is under way undoes it.
ReceiptImpliesEffect ==
  \A e \in receipts : EventType[e] = "user.deleted" => users[EventSubject[e]] = "disabled"

\* A request that came in after a user was disabled never gets as far as being
\* authorised for that user, on whatever session.
DisabledNeverAuthorized ==
  \A w \in Workers :
    (pc[w] \in {"touch", "csrf", "revoke"}) => job[w].row.user \notin job[w].barred

\* Deleting or disabling an identity is final for sessions: both of the above.
DisabledIsFinal == ReceiptImpliesEffect /\ DisabledNeverAuthorized

\* A session that was revoked is never live again, and of a live session only
\* the idle expiry changes, and never past the absolute one.
RevocationIsFinal ==
  [][\A s \in Sessions : sessions[s] # None =>
       \/ sessions'[s] = sessions[s]
       \/ /\ ~sessions[s].revoked
          /\ \/ sessions'[s] = [sessions[s] EXCEPT !.revoked = TRUE]
             \/ /\ sessions'[s] = [sessions[s] EXCEPT !.idle = sessions'[s].idle]
                /\ sessions'[s].idle <= sessions[s].absolute]_vars

\* Disabling an identity revokes its sessions (the revocation trigger).
DisabledHasNoLiveSession ==
  \A s \in Sessions : Live(s) => users[sessions[s].user] = "active"

-----------------------------------------------------------------------------
(***************************************************************************)
(* The inductive invariant of the proofs                                   *)
(***************************************************************************)
SessionKinds == {"access", "refresh", "logout"}

\* The statements a request of each kind consists of.
StepsOf(kind) ==
  CASE kind = "login" -> {"consume", "upsert", "issue", "commit"}
    [] kind = "access" -> {"read", "expire", "identity", "membership", "touch"}
    [] kind = "refresh" -> {"read", "expire", "identity", "membership", "touch",
                            "csrf", "revoke", "issue", "commit"}
    [] kind = "logout" -> {"read", "expire", "identity", "membership", "touch",
                           "csrf", "revoke", "commit"}
    [] kind = "webhook" -> {"receipt", "disable", "sweep", "sweeping", "commit"}
    [] kind = "unmember" -> {"unmember", "sweep", "sweeping"}
    [] OTHER -> {"idle"}

\* The statements before which a handler has written nothing.
Outside == {"idle", "consume", "read", "expire", "identity", "membership", "touch",
            "csrf", "revoke", "receipt", "unmember"}

\* What no UPDATE of a session changes.
SameSession(r1, r2) ==
  /\ r1.user = r2.user /\ r1.tenant = r2.tenant /\ r1.psession = r2.psession
  /\ r1.login = r2.login /\ r1.from = r2.from /\ r1.absolute = r2.absolute

\* A handler is at a statement of its request and works on rows that exist; the
\* session it has read may be out of date, but not in what identifies it.
JobFits(w) ==
  /\ pc[w] \in StepsOf(job[w].kind)
  /\ job[w].kind = "login" => job[w].login \in Logins /\ logins[job[w].login] # None
  /\ job[w].kind = "login" /\ pc[w] \in {"issue", "commit"} => job[w].user \in Users
  /\ job[w].kind \in SessionKinds =>
       /\ job[w].session \in Sessions
       /\ sessions[job[w].session] # None
       /\ pc[w] # "read" =>
            job[w].row \in Row /\ SameSession(job[w].row, sessions[job[w].session])
  /\ job[w].kind = "webhook" => job[w].event \in Events
  /\ pc[w] = "disable" => /\ EventType[job[w].event] = "user.deleted"
                          /\ tx[w].receipt = job[w].event
  /\ job[w].kind = "unmember" => job[w].user \in Users /\ job[w].tenant \in Tenants

\* The login a transaction is about to mark is still unmarked.
PendingLogin(w) ==
  /\ tx[w].login # None =>
       /\ job[w].kind = "login"
       /\ tx[w].login = job[w].login
       /\ ~logins[job[w].login].consumed
  /\ job[w].kind = "login" /\ pc[w] # "consume" => tx[w].login = job[w].login

\* The sessions a transaction is about to revoke are still live.
PendingRevocations(w) ==
  /\ \A s \in tx[w].revoked : s \in Sessions /\ Live(s)
  /\ job[w].kind = "login" => tx[w].revoked = {}
  /\ job[w].kind = "refresh" /\ pc[w] \in {"issue", "commit"} =>
       tx[w].revoked = {job[w].session}

\* The session a transaction is about to insert begins a login or follows the
\* session that the same transaction revokes.
PendingSession(w) ==
  tx[w].session # None =>
    /\ pc[w] = "commit"
    /\ sessions[tx[w].session] = None
    /\ tx[w].row \in Row
    /\ ~tx[w].row.revoked
    /\ \/ /\ job[w].kind = "login"
          /\ tx[w].row.login = job[w].login /\ tx[w].row.from = None
       \/ /\ job[w].kind = "refresh"
          /\ tx[w].row.login = job[w].row.login /\ tx[w].row.from = job[w].session

\* The receipt of a deletion is not committed without the deletion.
PendingReceipt(w) ==
  tx[w].receipt # None =>
    /\ tx[w].receipt = job[w].event
    /\ EventType[tx[w].receipt] = "user.deleted" =>
         pc[w] = "disable" \/ tx[w].disabled = EventSubject[tx[w].receipt]

\* The users known to be disabled are, and the check of the identity found another.
BarredAreDisabled(w) ==
  /\ \A u \in job[w].barred : u \in Users /\ users[u] = "disabled"
  /\ pc[w] \in {"membership", "touch", "csrf", "revoke"} =>
       job[w].row.user \notin job[w].barred

WorkerInv(w) ==
  /\ JobFits(w)
  /\ pc[w] \in Outside => tx[w] = NoTx
  /\ PendingLogin(w)
  /\ PendingRevocations(w)
  /\ PendingSession(w)
  /\ PendingReceipt(w)
  /\ BarredAreDisabled(w)

\* No two transactions hold the same row.
LockedApart ==
  \A w, q \in Workers : w # q =>
    /\ tx[w].login # None => tx[w].login # tx[q].login
    /\ tx[w].session # None => tx[w].session # tx[q].session
    /\ tx[w].revoked \cap tx[q].revoked = {}

\* A session goes back to a login that was marked, and was rotated from a
\* session of the same login that is revoked.
Ancestry ==
  \A s \in Sessions : sessions[s] # None =>
    /\ logins[sessions[s].login] # None
    /\ logins[sessions[s].login].consumed
    /\ sessions[s].from # None =>
         /\ sessions[sessions[s].from] # None
         /\ sessions[sessions[s].from].revoked
         /\ sessions[sessions[s].from].login = sessions[s].login

IndInv ==
  /\ TypeOK
  /\ \A w \in Workers : WorkerInv(w)
  /\ LockedApart
  /\ Ancestry
  /\ LineageIsLinear
  /\ OneLiveSessionPerLogin
  /\ ReceiptImpliesEffect

=============================================================================
