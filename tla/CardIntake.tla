----------------------------- MODULE CardIntake -----------------------------
(* How a visitor's request gets from the card to the database: the forms in *)
(* the browser, the network between, the routes and their rate limit, and   *)
(* the rows a request leaves, written one statement at a time and in no     *)
(* transaction. Beside it, the interaction events of the card.              *)
EXTENDS Integers, Sequences, FiniteSets

CONSTANTS
    Visitors,       \* one browser each, with one form open
    Surfaces,       \* of "form", "chat", "calendar" and the routes no form posts to
    Messages,       \* the requests a visitor may write
    Configured,     \* the values DATABASE_URL may have: is there a database?
    Limit,          \* requests of a key in one window
    Window,         \* length of the window
    MaxTime,        \* bound on the clock
    MaxSubmits      \* bound on the number of requests posted

VARIABLES
    database,       \* DATABASE_URL is set
    form,           \* form[v]: what v's browser shows, and the request it waits for
    jobs,           \* the requests posted, in order
    rows,           \* rows[j]: what request j has in the receptionist tables
    beacons,        \* interaction events on their way to /api/events
    ledger,         \* interaction_events: who wrote which event of which request
    buckets,        \* the server's rate-limit buckets: admissions of a key
    admitted,       \* history: every admission of a key since the start
    now

vars == <<database, form, jobs, rows, beacons, ledger, buckets, admitted, now>>

W == INSTANCE ReceptionistWorkflow WITH
    Requests <- {}, Calls <- {}, Texts <- {}, Configs <- {}, decision <- now

Pages == {"form", "chat", "calendar"}
Ids == 1 .. Len(jobs)

\* The type is the form's choice; the other pages and routes fix it.
TypeFor(surface, type) ==
    CASE surface \in {"calendar", "calendar-request"} -> "schedule_meeting"
      [] surface = "chat" -> "route_message"
      [] surface = "callback" -> "request_callback"
      [] OTHER -> type

\* The pages' routes count a visitor by executive, e-mail and address together;
\* the other routes have a bucket of their own for him.
RateLimitKey(v, surface) == <<v, IF surface \in Pages THEN "page" ELSE surface>>

Keys == {RateLimitKey(v, s) : v \in Visitors, s \in Surfaces}

Init ==
    /\ database \in Configured
    /\ form = [v \in Visitors |-> [status |-> "idle", started |-> FALSE, job |-> 0]]
    /\ jobs = <<>>
    /\ rows = <<>>
    /\ beacons = {}
    /\ ledger = {}
    /\ buckets = [k \in Keys |-> {}]
    /\ admitted = [k \in Keys |-> {}]
    /\ now = 0

Tick ==
    /\ now < MaxTime
    /\ now' = now + 1
    /\ UNCHANGED <<database, form, jobs, rows, beacons, ledger, buckets, admitted>>

-----------------------------------------------------------------------------
(* The browser. An event is sent and forgotten: it never holds up the page. *)

\* The events emitted together for request j of visitor v (0: for none).
Emit(v, j, types) == beacons \union {[visitor |-> v, job |-> j, type |-> t] : t \in types}

StartedEvents(v) == IF form[v].started THEN {} ELSE {"receptionist_request_started"}

\* The form's first focus.
LogStarted(v) ==
    /\ ~form[v].started
    /\ form' = [form EXCEPT ![v].started = TRUE]
    /\ beacons' = Emit(v, 0, StartedEvents(v))
    /\ UNCHANGED <<database, jobs, rows, ledger, buckets, admitted, now>>

\* The box is not ticked: the form says so and posts nothing.
SubmitWithoutConsent(v) ==
    /\ form[v].status # "submitting"
    /\ form' = [form EXCEPT ![v].started = TRUE, ![v].status = "error"]
    /\ beacons' = Emit(v, 0, StartedEvents(v) \union {"receptionist_request_failed"})
    /\ UNCHANGED <<database, jobs, rows, ledger, buckets, admitted, now>>

Job(v, surface, message) ==
    [visitor |-> v, surface |-> surface, message |-> message, pc |-> "posted",
     success |-> FALSE, providerStatus |-> "none", seen |-> FALSE]

BodyFor(surface, message) == [message EXCEPT !.type = TypeFor(surface, @)]

Post(v, surface, message) ==
    /\ Len(jobs) < MaxSubmits
    /\ jobs' = Append(jobs, Job(v, surface, BodyFor(surface, message)))
    /\ rows' = Append(rows, {})

\* A page is submitted; its button is off until the answer is here.
Submit(v, surface, message) ==
    /\ surface \in Pages
    /\ form[v].status # "submitting"
    /\ Post(v, surface, message)
    /\ form' = [form EXCEPT ![v].status = "submitting", ![v].job = Len(jobs) + 1,
                            ![v].started = @ \/ surface = "form"]
    /\ beacons' = IF surface = "form" THEN Emit(v, 0, StartedEvents(v)) ELSE beacons
    /\ UNCHANGED <<database, ledger, buckets, admitted, now>>

\* Another client of the routes; nothing is shown to anyone.
PostDirectly(v, surface, message) ==
    /\ surface \notin Pages
    /\ Post(v, surface, message)
    /\ UNCHANGED <<database, form, beacons, ledger, buckets, admitted, now>>

-----------------------------------------------------------------------------
(* The server. *)

Answered(j, success, providerStatus) ==
    [jobs EXCEPT ![j].pc = "answered", ![j].success = success,
                 ![j].providerStatus = providerStatus]

\* The admissions of the bucket that still count.  An admission is its time,
\* with a number that tells it from others of that time.
Recent(k) == {a \in buckets[k] : now - a[1] < Window}
WithinLimit(k) == Cardinality(Recent(k)) < Limit

KeyOf(j) == RateLimitKey(jobs[j].visitor, jobs[j].surface)

EvaluateReceptionistRateLimit(k) ==
    IF WithinLimit(k)
    THEN /\ buckets' = [buckets EXCEPT ![k] = Recent(k) \union {<<now, Cardinality(admitted[k])>>}]
         /\ admitted' = [admitted EXCEPT ![k] = @ \union {<<now, Cardinality(@)>>}]
    ELSE /\ buckets' = [buckets EXCEPT ![k] = Recent(k)]
         /\ UNCHANGED admitted

\* The body does not meet the schema.
Reject(j) ==
    /\ jobs[j].pc = "posted"
    /\ ~jobs[j].message.valid
    /\ jobs' = Answered(j, FALSE, "invalid")
    /\ UNCHANGED <<database, form, rows, beacons, ledger, buckets, admitted, now>>

\* The workflow runs: the request is counted, and blocked, or on its way to the
\* store. Without a database the answer is a success with nothing behind it.
Handle(j) ==
    /\ jobs[j].pc = "posted"
    /\ jobs[j].message.valid
    /\ EvaluateReceptionistRateLimit(KeyOf(j))
    /\ LET run == W!RunReceptionistWorkflow(jobs[j].message, WithinLimit(KeyOf(j)), W!NoProviders)
       IN  jobs' = IF run.providerStatus = "blocked_by_policy"
                   THEN Answered(j, FALSE, "blocked_by_policy")
                   ELSE IF ~database THEN Answered(j, TRUE, "event_store_unavailable")
                   ELSE [jobs EXCEPT ![j].pc = "interaction", ![j].providerStatus = run.providerStatus]
    /\ UNCHANGED <<database, form, rows, beacons, ledger, now>>

\* The statements of a request, in order: the rows, then the ledger events.
RowStatements == {"interaction", "turn", "task", "events", "steps"}

KindEvents(type) ==
    CASE type = "schedule_meeting" -> {"receptionist_meeting_requested"}
      [] type = "request_callback" -> {"receptionist_callback_requested"}
      [] type = "qualify_lead" -> {"receptionist_lead_qualified"}
      [] OTHER -> {}

LedgerStatements(type) == {"receptionist_request_submitted"} \union KindEvents(type)

\* What comes after a statement; after the last one, the answer.
RowAfter ==
    [interaction |-> "turn", turn |-> "task", task |-> "events", events |-> "steps",
     steps |-> "receptionist_request_submitted"]

Follows(pc, type, next) ==
    IF pc \in RowStatements THEN next = RowAfter[pc]
    ELSE IF pc = "receptionist_request_submitted" /\ KindEvents(type) # {}
    THEN next \in KindEvents(type) ELSE next = "answered"

Storing(j) == jobs[j].pc \notin {"posted", "answered", "gone"}

ServerEvent(j, type) ==
    [visitor |-> jobs[j].visitor, job |-> j, type |-> type, by |-> "server"]

\* One statement succeeds; after the last one the request is answered.
Store(j) ==
    /\ Storing(j)
    /\ IF jobs[j].pc \in RowStatements
       THEN rows' = [rows EXCEPT ![j] = @ \union {jobs[j].pc}] /\ UNCHANGED ledger
       ELSE ledger' = ledger \union {ServerEvent(j, jobs[j].pc)} /\ UNCHANGED rows
    /\ \E next \in RowStatements \union LedgerStatements(jobs[j].message.type) \union {"answered"} :
        /\ Follows(jobs[j].pc, jobs[j].message.type, next)
        /\ jobs' = IF next = "answered" THEN Answered(j, TRUE, jobs[j].providerStatus)
                   ELSE [jobs EXCEPT ![j].pc = next]
    /\ UNCHANGED <<database, form, beacons, buckets, admitted, now>>

FailStoreQuietly(j) ==
    /\ Storing(j)
    /\ jobs' = Answered(j, TRUE, jobs[j].providerStatus)
    /\ UNCHANGED <<database, form, rows, beacons, ledger, buckets, admitted, now>>

\* One statement fails: what was written stays, and the answer is a success
\* that names the store as unavailable, with a request id of its own. The
\* insertion of the steps may fail after some of them.
FailStore(j) ==
    /\ Storing(j)
    /\ \E some \in BOOLEAN :
           rows' = IF jobs[j].pc = "steps" /\ some
                   THEN [rows EXCEPT ![j] = @ \union {"someSteps"}] ELSE rows
    /\ jobs' = Answered(j, TRUE, "event_store_unavailable")
    /\ UNCHANGED <<database, form, beacons, ledger, buckets, admitted, now>>

\* The process stops: what it was doing ends where it was, and it forgets its
\* buckets.
Restart ==
    /\ \E j \in Ids : Storing(j)
    /\ jobs' = [j \in Ids |-> IF Storing(j) THEN [jobs[j] EXCEPT !.pc = "gone"] ELSE jobs[j]]
    /\ buckets' = [k \in Keys |-> {}]
    /\ admitted' = [k \in Keys |-> {}]
    /\ UNCHANGED <<database, form, rows, beacons, ledger, now>>

\* POST /api/events: an event of the card is stored, or it fails, or it never
\* arrives; there is nobody to tell.
StoreEvent(b) ==
    /\ database
    /\ beacons' = beacons \ {b}
    /\ ledger' = ledger \union {[visitor |-> b.visitor, job |-> b.job, type |-> b.type, by |-> "card"]}
    /\ UNCHANGED <<database, form, jobs, rows, buckets, admitted, now>>

LoseEvent(b) ==
    /\ beacons' = beacons \ {b}
    /\ UNCHANGED <<database, form, jobs, rows, ledger, buckets, admitted, now>>

-----------------------------------------------------------------------------
(* The answer comes back, or it does not. *)

FailedEvent(surface) ==
    CASE surface = "calendar" -> {"calendar_request_failed"}
      [] surface = "form" -> {"receptionist_request_failed"}
      [] OTHER -> {}

\* Only the request form resets itself through the event it was submitted with.
\* An event has no current target once its handler has awaited, so the reset
\* fails, and the handler goes on as if the network had.
ResetFails(surface) == surface = "form"

EventsAfter(surface, success) ==
    CASE surface = "chat" -> IF success THEN {"receptionist_request_submitted"}
                             ELSE {"receptionist_request_failed"}
      [] surface = "calendar" -> IF success THEN {"calendar_request_submitted"}
                                 ELSE {"calendar_request_failed"}
      [] OTHER -> {"receptionist_request_failed"}

Show(j, status, events) ==
    /\ ~jobs[j].seen
    /\ jobs' = [jobs EXCEPT ![j].seen = TRUE]
    /\ form' = IF jobs[j].surface \in Pages
               THEN [form EXCEPT ![jobs[j].visitor].status = status] ELSE form
    /\ beacons' = IF jobs[j].surface \in Pages
                  THEN Emit(jobs[j].visitor, j, events) ELSE beacons
    /\ UNCHANGED <<database, rows, ledger, buckets, admitted, now>>

\* An answer that is no JSON counts as a failure.
Receive(j) ==
    /\ jobs[j].pc = "answered"
    /\ \E readable \in BOOLEAN :
           LET success == readable /\ jobs[j].success
           IN  Show(j, IF success /\ ~ResetFails(jobs[j].surface) THEN "success" ELSE "error",
                    EventsAfter(jobs[j].surface, success))

\* The connection breaks, at any moment: the server may not have the request,
\* may be at work on it, or may be done with it, and goes on regardless.
Lose(j) == Show(j, "error", FailedEvent(jobs[j].surface))

Next ==
    \/ Tick
    \/ \E v \in Visitors :
           \/ "form" \in Surfaces /\ (LogStarted(v) \/ SubmitWithoutConsent(v))
           \/ \E s \in Surfaces, r \in Messages : Submit(v, s, r) \/ PostDirectly(v, s, r)
    \/ \E j \in Ids : Reject(j) \/ Handle(j) \/ Store(j) \/ FailStore(j) \/ Receive(j) \/ Lose(j)
    \/ Restart
    \/ \E b \in beacons : StoreEvent(b) \/ LoseEvent(b)

Spec == Init /\ [][Next]_vars

-----------------------------------------------------------------------------
(* Properties. *)

\* An answer that names no trouble with the store has every row and every
\* ledger event behind it (receptionist-events.ts:280).
ConfirmedIsStored ==
    \A j \in Ids :
        jobs[j].pc = "answered" /\ jobs[j].success
        /\ jobs[j].providerStatus # "event_store_unavailable"
            => /\ rows[j] = RowStatements
               /\ \A e \in LedgerStatements(jobs[j].message.type) : ServerEvent(j, e) \in ledger

\* Whatever fails, no row is left without the rows before it, and no ledger event
\* of the server without all of them (writeRequestRows).
NoOrphanRows ==
    \A j \in Ids :
        /\ \A r \in RowStatements \ {"steps"} : RowAfter[r] \in rows[j] => r \in rows[j]
        /\ "someSteps" \in rows[j] => "events" \in rows[j]
        /\ \A e \in ledger : e.by = "server" /\ e.job = j => "steps" \in rows[j]

\* Nothing is stored of a request that was not valid, not safe, or not asked for
\* with consent, nor where there is no database.
OnlyCheckedIsStored ==
    \A j \in Ids :
        rows[j] # {} => /\ jobs[j].message.valid
                        /\ W!EvaluateReceptionistSafety(jobs[j].message) = {}
                        /\ database

\* Since the server started, no window holds more than Limit requests of a key
\* that were let through (rate-limit-policy.ts).
LimitHolds ==
    \A k \in Keys, t \in 0 .. now :
        Cardinality({a \in admitted[k] : a[1] \in t .. t + Window - 1}) <= Limit

\* A page shows success only for a request the server accepted, however late or
\* lost other answers are; and a page that waits, waits for the request it sent last.
ShownIsTrue ==
    \A v \in Visitors :
        /\ form[v].status = "success" => jobs[form[v].job].success
        /\ form[v].status = "submitting" => ~jobs[form[v].job].seen

\* The start of a form is recorded once; a submission the page records is one the
\* server accepted, and one the server records is one it stored.
EventsAreTrue ==
    /\ \A v \in Visitors :
        Cardinality({e \in ledger : e.visitor = v /\ e.type = "receptionist_request_started"})
        + Cardinality({b \in beacons : b.visitor = v /\ b.type = "receptionist_request_started"}) <= 1
    /\ \A e \in ledger :
           e.type \in {"receptionist_request_submitted", "calendar_request_submitted"}
               => IF e.by = "card" THEN jobs[e.job].success ELSE "task" \in rows[e.job]

\* What the card tells a visitor and what it stores hang together.
IntakeIsSound ==
    /\ ConfirmedIsStored
    /\ NoOrphanRows
    /\ OnlyCheckedIsStored
    /\ LimitHolds
    /\ ShownIsTrue
    /\ EventsAreTrue

-----------------------------------------------------------------------------
(***************************************************************************)
(* The inductive invariant: what a request has stored follows its place    *)
(* among the statements; a page waits for the one request it has open; an  *)
(* event follows what it tells of; and a bucket has every admission that   *)
(* counts.                                                                 *)
(***************************************************************************)

\* What the proofs assume of the constants.
ConstantsAssumed == Limit \in Nat /\ Window \in Nat /\ Configured \subseteq BOOLEAN

Steps ==
    {"posted", "answered", "gone", "receptionist_request_submitted", "receptionist_meeting_requested",
     "receptionist_callback_requested", "receptionist_lead_qualified"} \union RowStatements

Forms == [status : {"idle", "submitting", "success", "error"}, started : BOOLEAN, job : Nat]

ReplyStatuses ==
    {"none", "invalid", "blocked_by_policy", "event_store_unavailable", "provider_unconfigured"}

RequestBodies == {BodyFor(s, m) : s \in Surfaces, m \in Messages}

JobRows ==
    [visitor : Visitors, surface : Surfaces, message : RequestBodies,
     pc : Steps, success : BOOLEAN, providerStatus : ReplyStatuses, seen : BOOLEAN]

RequestsAreWhole ==
    /\ database \in BOOLEAN /\ now \in Nat
    /\ form \in [Visitors -> Forms]
    /\ jobs \in Seq(JobRows)
    /\ rows \in Seq(SUBSET (RowStatements \union {"someSteps"}))
    /\ Len(rows) = Len(jobs)

RowsBefore ==
    [interaction |-> {}, turn |-> {"interaction"}, task |-> {"interaction", "turn"},
     events |-> {"interaction", "turn", "task"}, steps |-> {"interaction", "turn", "task", "events"}]

StoredSoFar(j) ==
    /\ jobs[j].pc = "posted" => rows[j] = {}
    /\ jobs[j].pc \in RowStatements => rows[j] = RowsBefore[jobs[j].pc]
    /\ Storing(j) /\ jobs[j].pc \notin RowStatements =>
        /\ jobs[j].pc \in LedgerStatements(jobs[j].message.type) /\ rows[j] = RowStatements
        /\ jobs[j].pc # "receptionist_request_submitted" =>
               ServerEvent(j, "receptionist_request_submitted") \in ledger
    /\ rows[j] # {} \/ Storing(j) =>
        /\ jobs[j].message.valid /\ W!EvaluateReceptionistSafety(jobs[j].message) = {}
        /\ database
    /\ jobs[j].success => jobs[j].pc = "answered"

NoGap(j) ==
    /\ \A r \in RowStatements \ {"steps"} : RowAfter[r] \in rows[j] => r \in rows[j]
    /\ "someSteps" \in rows[j] => "events" \in rows[j]

Confirmed(j) ==
    jobs[j].pc = "answered" /\ jobs[j].success /\ jobs[j].providerStatus # "event_store_unavailable"
        => /\ rows[j] = RowStatements
           /\ \A e \in LedgerStatements(jobs[j].message.type) : ServerEvent(j, e) \in ledger

\* A page has at most one request it has not heard of, the one it waits for.
PagesFollow ==
    /\ \A j \in Ids :
        jobs[j].surface \in Pages /\ ~jobs[j].seen =>
            form[jobs[j].visitor].status = "submitting" /\ form[jobs[j].visitor].job = j
    /\ \A v \in Visitors :
        /\ form[v].status \in {"submitting", "success"} => form[v].job \in Ids
        /\ form[v].status = "submitting" =>
            /\ jobs[form[v].job].surface \in Pages /\ jobs[form[v].job].visitor = v
            /\ ~jobs[form[v].job].seen
        /\ form[v].status = "success" => jobs[form[v].job].success

Submitted == {"receptionist_request_submitted", "calendar_request_submitted"}
StartOf(v) == [visitor |-> v, job |-> 0, type |-> "receptionist_request_started"]

BeaconFollows(b) ==
    /\ b = [visitor |-> b.visitor, job |-> b.job, type |-> b.type] /\ b.visitor \in Visitors
    /\ b.type = "receptionist_request_started" => b.job = 0 /\ form[b.visitor].started
    /\ b.type \in Submitted => b.job \in Ids /\ jobs[b.job].success

EventFollows(e) ==
    /\ e = [visitor |-> e.visitor, job |-> e.job, type |-> e.type, by |-> e.by]
    /\ e.visitor \in Visitors /\ e.by \in {"card", "server"}
    /\ e.by = "server" =>
        e.job \in Ids /\ "steps" \in rows[e.job] /\ e.type # "receptionist_request_started"
    /\ e.by = "card" /\ e.type \in Submitted => e.job \in Ids /\ jobs[e.job].success
    /\ e.by = "card" /\ e.type = "receptionist_request_started" =>
        e.job = 0 /\ form[e.visitor].started /\ StartOf(e.visitor) \notin beacons

EventsFollow == (\A b \in beacons : BeaconFollows(b)) /\ \A e \in ledger : EventFollows(e)

BucketsFollow ==
    /\ buckets \in [Keys -> SUBSET (Nat \X Nat)] /\ admitted \in [Keys -> SUBSET (Nat \X Nat)]
    /\ \A k \in Keys :
        /\ IsFiniteSet(admitted[k]) /\ buckets[k] \subseteq admitted[k]
        /\ \A a \in admitted[k] :
            /\ a[1] <= now /\ a[2] < Cardinality(admitted[k])
            /\ now - a[1] < Window => a \in buckets[k]

IndInv ==
    /\ RequestsAreWhole
    /\ \A j \in Ids : StoredSoFar(j) /\ NoGap(j) /\ Confirmed(j)
    /\ PagesFollow /\ EventsFollow /\ BucketsFollow /\ LimitHolds
=============================================================================
