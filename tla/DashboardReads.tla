--------------------------- MODULE DashboardReads ---------------------------
(* The pages of the dashboard. A page asks its three to six statements at   *)
(* once, each on a connection of its own and in no transaction, while the   *)
(* services go on writing; it is shown with all the answers or with none.   *)
(* Beside them, the readiness route and the telemetry routes, which write   *)
(* the rows the observability page reads.                                   *)
EXTENDS Integers, Sequences, FiniteSets, FiniteSetsExt, SequencesExt, TLC

CONSTANTS
    Pages,          \* the pages, one of which a behaviour is about
    Rows,           \* [table -> the rows the services may write into it]
    Configured,     \* the values DATABASE_URL may have: is there a database?
    Environments,   \* the telephony settings of the process: [mode, provider, ...]
    RequiredTables, \* what the readiness route looks for
    ListLimit,      \* the "limit" of the statements that list rows
    ReadinessLimit, \* readiness checks in one window
    MaxWrites,      \* bound on inserts and updates
    MaxRequests,    \* bound on the requests
    None

VARIABLES
    page,           \* the page this behaviour is about
    database,       \* DATABASE_URL is set
    env,            \* the telephony settings of the process
    tables,         \* the rows of each table, oldest first
    migrated,       \* the required tables that exist
    read,           \* the answers the page has so far, and the tables when it began
    shown,          \* the page last shown
    checks,         \* readiness checks in this window
    answer,         \* what the last route answered
    writes, requests

vars == <<page, database, env, tables, migrated, read, shown, checks, answer,
          writes, requests>>

Executives == <<"ad-garner", "sean-hall">>
EventTypes == {"qr_scan", "card_view", "vcard_download", "call_click"}
Actions == <<"call_click", "vcard_download">>
Tiers == {"Cold Signal", "Strategic Opportunity"}
EdgeTypes == {"visitor_has_session", "session_viewed_executive"}
Intents == {"meeting", "sales"}
Subsystems == {"dashboard", "system", "telephony", "improvement_engine"}

IsExecutiveSlug(e) == e \in ToSet(Executives)

\* The check constraint of telemetry_events was not extended with the engine.
EventSubsystems == Subsystems \ {"improvement_engine"}

-----------------------------------------------------------------------------
(* What the statements answer. *)

\* select key, count( * ) group by key.
GroupCount(rows, Key(_)) ==
    [k \in {Key(rows[i]) : i \in DOMAIN rows} |->
        Cardinality({i \in DOMAIN rows : Key(rows[i]) = k})]

Count(rows, Test(_)) == Cardinality({i \in DOMAIN rows : Test(rows[i])})

Newest(rows) == SubSeq(Reverse(rows), 1, IF Len(rows) < ListLimit THEN Len(rows) ELSE ListLimit)

\* order by score desc, then the latest; limit.
TopByScore(rows) ==
    Newest(SortSeq(rows, LAMBDA a, b : a.score < b.score \/ (a.score = b.score /\ a.id < b.id)))

Scores(rows) == {rows[i].score : i \in DOMAIN rows}
MaxScore(rows) == IF rows = <<>> THEN 0 ELSE Max(Scores(rows))

\* A left join lateral ... limit 1: the newest matching row, or none.
Latest(rows, Test(_)) ==
    LET found == SelectSeq(rows, Test) IN IF found = <<>> THEN None ELSE Last(found)

InteractionStatements(t) ==
    [eventCounts |-> GroupCount(t.events, LAMBDA r : r.type),
     executiveCounts |-> GroupCount(t.events, LAMBDA r : r.executive),
     recent |-> Newest(t.events),
     daily |-> GroupCount(SelectSeq(t.events, LAMBDA r : r.age < 14), LAMBDA r : r.age)]

IntentStatements(t) ==
    [topSignals |-> TopByScore(t.scores),
     tierCounts |-> GroupCount(t.scores, LAMBDA r : r.tier),
     executiveSummary |->
        [e \in {t.scores[i].executive : i \in DOMAIN t.scores} |->
            LET own == SelectSeq(t.scores, LAMBDA r : r.executive = e)
            IN [signals |-> Len(own), max |-> MaxScore(own)]]]

GraphStatements(t) ==
    [summary |->
        [nodes |-> Len(t.nodes), edges |-> Len(t.edges), snapshots |-> Len(t.snapshots),
         visitors |-> Count(t.nodes, LAMBDA r : r.type = "visitor"),
         sessions |-> Count(t.nodes, LAMBDA r : r.type = "session"),
         highest |-> IF t.snapshots = <<>> THEN None ELSE MaxScore(t.snapshots)],
     snapshots |-> TopByScore(t.snapshots),
     paths |-> Newest(t.edges)]

\* One row of the receptionist page: an interaction, with what its events and
\* its task say of it so far.
JoinInteraction(t, r) ==
    LET Of(kind) == Latest(t.workflow, LAMBDA e : e.interaction = r.id /\ e.event = kind)
        task == Latest(t.tasks, LAMBDA k : k.interaction = r.id)
    IN [row |-> r,
        company |-> Of("intent_classified"),
        provider |-> Of("dashboard_visibility"),
        urgency |-> Of("score_urgency"),
        request |-> IF task = None THEN None
                    ELSE CASE task.type = "schedule_meeting" -> "meeting request queued"
                           [] task.type = "return_call" -> "callback request queued"
                           [] OTHER -> None,
        timeline |-> SelectSeq(t.workflow, LAMBDA e : e.interaction = r.id)]

ReceptionistStatements(t) ==
    [summary |->
        [interactions |-> Len(t.interactions),
         simulated |-> Count(t.interactions, LAMBDA r : r.status = "simulated"),
         tasks |-> Len(t.tasks),
         escalations |-> Count(t.workflow, LAMBDA e : e.event = "escalation_recommended"),
         languages |-> Cardinality({t.interactions[i].language : i \in DOMAIN t.interactions})],
     interactions |-> LET newest == Newest(t.interactions)
                      IN [i \in DOMAIN newest |-> JoinInteraction(t, newest[i])],
     tasks |-> Newest(t.tasks),
     languages |-> GroupCount(t.interactions, LAMBDA r : r.language),
     intents |-> GroupCount(SelectSeq(t.workflow, LAMBDA e : e.event = "intent_classified"),
                            LAMBDA e : e.intent)]

TelephonyStatements(t) ==
    [summary |-> [calls |-> Len(t.calls), sessions |-> Len(t.sessions),
                  pending |-> Count(t.outbound, LAMBDA r : r.approval = "pending")],
     callEvents |-> LET newest == Newest(t.callEvents)
                    IN [i \in DOMAIN newest |->
                           [event |-> newest[i], call |-> t.calls[newest[i].call]]],
     sessions |-> Newest(t.sessions),
     outbound |-> Newest(t.outbound)]

ObservabilityStatements(t) ==
    [summary |->
        [events |-> Len(t.telemetryEvents), metrics |-> Len(t.metrics),
         errors |-> Len(t.errors), gates |-> Len(t.gates),
         blocked |-> Count(t.gates, LAMBDA r : r.decision = "blocked"),
         subsystems |-> Cardinality({t.telemetryEvents[i].subsystem :
                                       i \in DOMAIN t.telemetryEvents})],
     events |-> Newest(t.telemetryEvents),
     metrics |-> GroupCount(t.metrics, LAMBDA r : r.subsystem),
     errors |-> Newest(t.errors),
     gates |-> Newest(t.gates),
     subsystems |->
        [s \in {t.telemetryEvents[i].subsystem : i \in DOMAIN t.telemetryEvents} |->
            [events |-> Count(t.telemetryEvents, LAMBDA r : r.subsystem = s),
             errors |-> Count(t.errors, LAMBDA r : r.subsystem = s),
             blocked |-> Count(t.gates, LAMBDA r : r.subsystem = s /\ r.decision = "blocked")]]]

ImprovementStatements(t) ==
    [summary |->
        [opportunities |-> Len(t.opportunities), candidates |-> Len(t.candidates),
         pending |-> Count(t.candidates, LAMBDA r :
                        r.status \in {"proposed", "needs_review", "sandbox_required"}),
         approved |-> Count(t.candidates, LAMBDA r : r.status = "approved"),
         rejected |-> Count(t.candidates, LAMBDA r : r.status = "rejected"),
         archived |-> Len(t.lineage)],
     opportunities |-> Newest(t.opportunities),
     candidates |-> TopByScore(t.candidates),
     lineage |-> Newest(t.lineage),
     approvals |-> Newest(t.approvals)]

Statements(p, t) ==
    CASE p = "interactions" -> InteractionStatements(t)
      [] p = "intent" -> IntentStatements(t)
      [] p = "graph" -> GraphStatements(t)
      [] p = "receptionist" -> ReceptionistStatements(t)
      [] p = "telephony" -> TelephonyStatements(t)
      [] p = "observability" -> ObservabilityStatements(t)
      [] p = "improvement" -> ImprovementStatements(t)

-----------------------------------------------------------------------------
(* What a page makes of the answers. Rows with a value this build does not  *)
(* know are left out of the lists, but the summaries have counted them.     *)

SumOf(f) == MapThenSumSet(LAMBDA k : f[k], DOMAIN f)
CountOf(counts, k) == IF k \in DOMAIN counts THEN counts[k] ELSE 0

\* A share is kept as its two counts, and is 0 of 1 when there is nothing.
Share(count, total) == IF total > 0 THEN <<count, total>> ELSE <<0, 1>>

NormalizeEventCounts(counts) == [k \in EventTypes |-> CountOf(counts, k)]
NormalizeExecutiveCounts(counts) == [k \in ToSet(Executives) |-> CountOf(counts, k)]

NormalizeRecentInteractions(rows) ==
    SelectSeq(rows, LAMBDA r : r.type \in EventTypes /\ IsExecutiveSlug(r.executive))

\* The first of an ordered list with the largest count, or none if that is 0.
Leader(order, counts) ==
    LET first == CHOOSE i \in DOMAIN order :
                    \A j \in DOMAIN order : \/ counts[order[j]] < counts[order[i]]
                                            \/ counts[order[j]] = counts[order[i]] /\ i <= j
    IN IF counts[order[first]] > 0 THEN order[first] ELSE None

\* Conversions divide an action by the card views of the same statement.
BuildConversion(byType, action) ==
    IF byType["card_view"] > 0 THEN <<byType[action], byType["card_view"]>> ELSE None

BuildDashboardData(byType, byExecutive, recent, daily) ==
    LET total == SumOf(byType)
    IN [total |-> total,
        byType |-> [k \in EventTypes |-> Share(byType[k], total)],
        byExecutive |-> [k \in ToSet(Executives) |-> Share(byExecutive[k], total)],
        conversions |-> [a \in ToSet(Actions) |-> BuildConversion(byType, a)],
        mostActive |-> Leader(Executives, byExecutive),
        highestIntent |-> Leader(Actions, byType),
        recent |-> recent, daily |-> daily]

InteractionData(a) ==
    BuildDashboardData(NormalizeEventCounts(a.eventCounts),
                       NormalizeExecutiveCounts(a.executiveCounts),
                       NormalizeRecentInteractions(a.recent), a.daily)

\* A signal's label counts the rows that were left out before it.
NormalizeSignals(rows) ==
    LET labelled == [i \in DOMAIN rows |-> [label |-> i] @@ rows[i]]
    IN SelectSeq(labelled, LAMBDA r : IsExecutiveSlug(r.executive) /\ r.tier \in Tiers)

\* The total counts the tiers this build does not know.
NormalizeTierBreakdown(counts) == [k \in Tiers |-> Share(CountOf(counts, k), SumOf(counts))]

NormalizeExecutiveIntentSummary(rows) ==
    [e \in ToSet(Executives) |->
        IF e \in DOMAIN rows THEN rows[e] ELSE [signals |-> 0, max |-> 0]]

IntentData(a) ==
    [signals |-> NormalizeSignals(a.topSignals), tiers |-> NormalizeTierBreakdown(a.tierCounts),
     summary |-> NormalizeExecutiveIntentSummary(a.executiveSummary)]

NormalizeSnapshots(rows) ==
    SelectSeq(rows, LAMBDA r : IsExecutiveSlug(r.executive) /\ r.tier \in Tiers \union {None})

NormalizeEngagementPaths(rows) == SelectSeq(rows, LAMBDA r : r.type \in EdgeTypes)

GraphData(a) ==
    [summary |-> a.summary, snapshots |-> NormalizeSnapshots(a.snapshots),
     paths |-> NormalizeEngagementPaths(a.paths)]

\* Type, channel, priority and executive of an interaction must all be known.
NormalizeInteractions(rows) ==
    SelectSeq(rows, LAMBDA r : r.row.known /\ IsExecutiveSlug(r.row.executive))

NormalizeTasks(rows) == SelectSeq(rows, LAMBDA r : r.priority \in {"low", "urgent"})

NormalizeLanguageBreakdown(counts) ==
    [k \in DOMAIN counts |-> Share(counts[k], SumOf(counts))]

NormalizeIntentBreakdown(counts) == [k \in DOMAIN counts \intersect Intents |-> counts[k]]

ReceptionistData(a) ==
    [summary |-> a.summary, interactions |-> NormalizeInteractions(a.interactions),
     tasks |-> NormalizeTasks(a.tasks), languages |-> NormalizeLanguageBreakdown(a.languages),
     intents |-> NormalizeIntentBreakdown(a.intents)]

\* The settings the telephony page shows are read from the environment anew:
\* a mode or a provider it does not know is shown as the safe one.
GetReadinessSummary(counts) ==
    LET mode == IF env.mode \in {"disabled", "mock", "sandbox", "production"} THEN env.mode ELSE "disabled"
        provider == IF env.provider \in {"mock", "twilio"} THEN env.provider ELSE "mock"
    IN [mode |-> mode, sandboxEnabled |-> mode = "sandbox", provider |-> provider,
        providerConfigured |-> provider = "mock" \/ env.credentials,
        outboundEnabled |-> env.outbound = "true",
        requireHumanApproval |-> env.approval \in {None, "true"}, counts |-> counts]

NormalizeCallEvents(rows) ==
    SelectSeq(rows, LAMBDA r : r.event.known /\ r.call.known /\ IsExecutiveSlug(r.call.executive))

NormalizeVoiceSessions(rows) == SelectSeq(rows, LAMBDA r : r.known)

NormalizeOutboundApprovals(rows) ==
    SelectSeq(rows, LAMBDA r : r.approval \in {"pending", "approved"} /\ IsExecutiveSlug(r.executive))

TelephonyData(a) ==
    [summary |-> GetReadinessSummary(a.summary), callEvents |-> NormalizeCallEvents(a.callEvents),
     sessions |-> NormalizeVoiceSessions(a.sessions),
     outbound |-> NormalizeOutboundApprovals(a.outbound)]

NormalizeSubsystemHealth(rows) ==
    [s \in DOMAIN rows \intersect Subsystems |->
        CASE rows[s].errors > 0 -> "attention"
          [] rows[s].blocked > 0 -> "degraded"
          [] OTHER -> "healthy"]

ObservabilityData(a) ==
    [summary |-> a.summary, health |-> NormalizeSubsystemHealth(a.subsystems),
     metrics |-> [s \in DOMAIN a.metrics \intersect Subsystems |-> a.metrics[s]],
     events |-> SelectSeq(a.events, LAMBDA r : r.subsystem \in Subsystems /\ r.known),
     errors |-> SelectSeq(a.errors, LAMBDA r : r.subsystem \in Subsystems),
     gates |-> SelectSeq(a.gates, LAMBDA r :
                  /\ r.subsystem \in Subsystems
                  /\ r.decision \in {"allowed", "blocked", "warning", "skipped"})]

\* Every row is shown as it is; this page drops none.
ImprovementData(a) == a

Data(a) ==
    CASE page = "interactions" -> InteractionData(a)
      [] page = "intent" -> IntentData(a)
      [] page = "graph" -> GraphData(a)
      [] page = "receptionist" -> ReceptionistData(a)
      [] page = "telephony" -> TelephonyData(a)
      [] page = "observability" -> ObservabilityData(a)
      [] page = "improvement" -> ImprovementData(a)

NoRows == [t \in DOMAIN Rows |-> <<>>]
EmptyData == Data(Statements(page, NoRows))

-----------------------------------------------------------------------------
NotShown == [status |-> None, data |-> None, before |-> None, after |-> None, writes |-> 0]

Init ==
    /\ page \in Pages
    /\ database \in Configured
    /\ env \in (IF page = "telephony" THEN Environments ELSE {CHOOSE e \in Environments : TRUE})
    /\ tables = NoRows
    /\ migrated \in (IF page = "observability" THEN {RequiredTables, {}} ELSE {RequiredTables})
    /\ read = None
    /\ shown = NotShown
    /\ checks = 0
    /\ answer = None
    /\ writes = 0
    /\ requests = 0

\* The tables a page reads; what is written elsewhere it cannot tell.
TablesOf(p) ==
    CASE p = "interactions" -> {"events"}
      [] p = "intent" -> {"scores"}
      [] p = "graph" -> {"nodes", "edges", "snapshots"}
      [] p = "receptionist" -> {"interactions", "workflow", "tasks"}
      [] p = "telephony" -> {"calls", "callEvents", "sessions", "outbound"}
      [] p = "observability" -> {"errors", "gates"}
      [] p = "improvement" -> {"opportunities", "candidates", "lineage", "approvals"}

\* Foreign keys: the row it refers to is there.
RefersToARow(t, r) ==
    /\ t \in {"workflow", "tasks"} => r.interaction <= Len(tables.interactions)
    /\ t = "callEvents" => r.call <= Len(tables.calls)
    /\ t = "edges" => r.source <= Len(tables.nodes) /\ r.target <= Len(tables.nodes)
    /\ t = "candidates" => tables.opportunities # <<>>
    /\ t \in {"lineage", "approvals"} => tables.candidates # <<>>

Appended(t, r) == [tables EXCEPT ![t] = Append(@, [id |-> Len(@) + 1] @@ r)]

\* The services insert a row, or change one that is there.
Insert(t, r) ==
    /\ writes < MaxWrites
    /\ RefersToARow(t, r)
    /\ tables' = Appended(t, r)
    /\ writes' = writes + 1
    /\ UNCHANGED <<page, database, env, migrated, read, shown, checks, answer, requests>>

Update(t, i, r) ==
    /\ writes < MaxWrites
    /\ \/ /\ t \in {"scores", "snapshots", "candidates"}
          /\ tables' = [tables EXCEPT ![t][i] = [id |-> i] @@ r]
       \/ /\ t = "edges"      \* an edge seen again is the newest, the rest stays
          /\ tables' = [tables EXCEPT !.edges = Append(RemoveAt(@, i), @[i])]
    /\ tables' # tables
    /\ writes' = writes + 1
    /\ UNCHANGED <<page, database, env, migrated, read, shown, checks, answer, requests>>

\* get...DashboardData: without a database the page is empty at once.
GetDashboardData ==
    /\ read = None
    /\ requests < MaxRequests
    /\ requests' = requests + 1
    /\ IF database
       THEN /\ read' = [answers |-> <<>>, before |-> tables, writes |-> writes]
            /\ shown' = NotShown
       ELSE /\ shown' = [NotShown EXCEPT !.status = "not_configured", !.data = EmptyData]
            /\ UNCHANGED read
    /\ UNCHANGED <<page, database, env, tables, migrated, checks, answer, writes>>

\* One of the statements answers.
Answer(s) ==
    /\ read # None
    /\ s \in DOMAIN Statements(page, tables) \ DOMAIN read.answers
    /\ read' = [read EXCEPT !.answers = @ @@ (s :> Statements(page, tables)[s])]
    /\ UNCHANGED <<page, database, env, tables, migrated, shown, checks, answer, writes, requests>>

Show(status, data) ==
    /\ read' = None
    /\ shown' = [status |-> status, data |-> data, before |-> read.before, after |-> tables,
                 writes |-> writes - read.writes]

\* Only the interactions page reports on itself, and does not care if it fails.
ReportTelemetry(t) ==
    \/ tables' = IF page = "interactions" THEN Appended(t, [subsystem |-> "dashboard"]) ELSE tables
    \/ UNCHANGED tables

ShowReady ==
    /\ read # None
    /\ DOMAIN read.answers = DOMAIN Statements(page, tables)
    /\ Show("ready", Data(read.answers))
    /\ ReportTelemetry("metrics")
    /\ UNCHANGED <<page, database, env, migrated, checks, answer, writes, requests>>

\* Mutant: each statement has a catch of its own, and counts as having no rows.
ShowPartial ==
    /\ read # None
    /\ DOMAIN read.answers # DOMAIN Statements(page, tables)
    /\ Show("ready", Data(read.answers @@ Statements(page, NoRows)))
    /\ ReportTelemetry("errors")
    /\ UNCHANGED <<page, database, env, migrated, checks, answer, writes, requests>>

\* One statement fails: Promise.all rejects, and the answers there are go unused.
ShowFailed ==
    /\ read # None
    /\ DOMAIN read.answers # DOMAIN Statements(page, tables)
    /\ Show("query_failed", EmptyData)
    /\ ReportTelemetry("errors")
    /\ UNCHANGED <<page, database, env, migrated, checks, answer, writes, requests>>

\* GET /api/system/readiness. It answers what it found even when none, or only
\* some, of its three telemetry rows can be written. The gate row says what the
\* voice configuration comes to (prepareVoiceRuntimeReadiness).
Readiness(origin, environment, reachable, voice) ==
    LET missing == RequiredTables \ migrated
        notReady == environment = "failed" \/ ~database \/ missing # {}
        event == [subsystem |-> "system", known |-> TRUE]
    IN /\ page = "observability" /\ requests < MaxRequests
       /\ writes < MaxWrites
       /\ requests' = requests + 1
       /\ checks' = IF checks < ReadinessLimit THEN checks + 1 ELSE checks
       /\ IF checks = ReadinessLimit \/ ~origin \/ (database /\ ~reachable)
          THEN /\ answer' = CASE checks = ReadinessLimit -> "rate_limited"
                              [] checks # ReadinessLimit /\ ~origin -> "forbidden"
                              [] OTHER -> "unavailable"
               /\ UNCHANGED <<tables, writes>>
          ELSE /\ answer' = IF notReady THEN "not_ready" ELSE "healthy"
               /\ writes' = writes + 1
               /\ \E e, m, g \in (IF database THEN BOOLEAN ELSE {FALSE}) :
                    tables' = [tables EXCEPT
                        !.telemetryEvents = IF e THEN Append(@, [id |-> Len(@) + 1] @@ event) ELSE @,
                        !.metrics = IF m THEN Append(@, [id |-> Len(@) + 1, subsystem |-> "system"]) ELSE @,
                        !.gates = IF g THEN Append(@, [id |-> Len(@) + 1, subsystem |-> "telephony",
                                                       decision |-> voice]) ELSE @]
       /\ UNCHANGED <<page, database, env, migrated, read, shown>>

\* The window of the rate limit passes.
NextWindow ==
    /\ checks > 0
    /\ checks' = 0
    /\ UNCHANGED <<page, database, env, tables, migrated, read, shown, answer, writes, requests>>

\* POST /api/telemetry/events: a known subsystem, which the table must know too;
\* what fails is reported as an error of the system, if that can be written.
IngestEvent(subsystem) ==
    /\ page = "observability" /\ requests < MaxRequests /\ writes < MaxWrites
    /\ requests' = requests + 1
    /\ IF ~database \/ subsystem \notin Subsystems
       THEN /\ answer' = IF database THEN "invalid" ELSE "not_configured"
            /\ UNCHANGED <<tables, writes>>
       ELSE /\ writes' = writes + 1
            /\ \/ /\ subsystem \in EventSubsystems
                  /\ tables' = Appended("telemetryEvents", [subsystem |-> subsystem, known |-> TRUE])
                  /\ answer' = "ok"
               \/ /\ answer' = "failed"
                  /\ \/ tables' = Appended("errors", [subsystem |-> "system"])
                     \/ UNCHANGED tables
    /\ UNCHANGED <<page, database, env, migrated, read, shown, checks>>

\* POST /api/telemetry/metrics: what fails is not reported.
IngestMetric(subsystem) ==
    /\ page = "observability" /\ requests < MaxRequests /\ writes < MaxWrites
    /\ requests' = requests + 1
    /\ IF ~database \/ subsystem \notin Subsystems
       THEN /\ answer' = IF database THEN "invalid" ELSE "not_configured"
            /\ UNCHANGED <<tables, writes>>
       ELSE /\ writes' = writes + 1
            /\ \/ tables' = Appended("metrics", [subsystem |-> subsystem]) /\ answer' = "ok"
               \/ UNCHANGED tables /\ answer' = "failed"
    /\ UNCHANGED <<page, database, env, migrated, read, shown, checks>>

Next ==
    \/ \E t \in TablesOf(page), r \in UNION {Rows[u] : u \in TablesOf(page)} :
        r \in Rows[t] /\ (Insert(t, r) \/ \E i \in DOMAIN tables[t] : Update(t, i, r))
    \/ GetDashboardData \/ ShowReady \/ ShowFailed \/ NextWindow
    \/ \E s \in DOMAIN Statements(page, tables) : Answer(s)
    \/ \E o, r \in BOOLEAN, e \in {"passed", "failed"}, v \in {"allowed", "blocked"} :
        Readiness(o, e, r, v)
    \/ \E s \in {"dashboard", "improvement_engine", "unknown"} : IngestEvent(s) \/ IngestMetric(s)

Spec == Init /\ [][Next]_vars

-----------------------------------------------------------------------------
Rendered == shown.status = "ready"
D == shown.data
Abs(n) == IF n < 0 THEN -n ELSE n

\* A list shows rows that are in the table, the newest first, and misses a known
\* row only if as many newer rows as it has places had arrived by the end.
ListIsHonest(list, t, Known(_)) ==
    /\ \A i \in DOMAIN list : list[i].id <= Len(shown.after[t]) /\ Known(list[i])
    /\ \A i, j \in DOMAIN list : i < j => list[i].id > list[j].id
    /\ \A i \in DOMAIN shown.before[t] :
        Known(shown.before[t][i]) =>
            \/ \E j \in DOMAIN list : list[j].id = i
            \/ Len(shown.after[t]) - i >= ListLimit

\* The interactions page sets counts of two statements against each other: they
\* differ by no more than the rows written meanwhile and the rows of a type or
\* an executive it does not know, so an undisturbed page has no share above 1.
InteractionsAgree ==
    LET unknown == Count(shown.after.events, LAMBDA r :
                        r.type \notin EventTypes \/ ~IsExecutiveSlug(r.executive))
        executives == MapThenSumSet(LAMBDA e : D.byExecutive[e][1], ToSet(Executives))
    IN /\ D.total > 0 => Abs(executives - D.total) <= shown.writes + unknown
       /\ shown.writes + unknown = 0 =>
            /\ \A e \in ToSet(Executives) : D.byExecutive[e][1] <= D.byExecutive[e][2]
            /\ SumOf(D.daily) <= D.total
            /\ D.recent # <<>> => D.mostActive # None
       /\ ListIsHonest(D.recent, "events",
                       LAMBDA r : r.type \in EventTypes /\ IsExecutiveSlug(r.executive))

\* Undisturbed, the best signal listed has the score the summary calls the best,
\* unless a row it does not know stands above it.
IntentAgrees ==
    LET scores == shown.after.scores
        top == UNION {{D.summary[e].max} : e \in ToSet(Executives)}
    IN /\ \A i, j \in DOMAIN D.signals : i < j => D.signals[i].label < D.signals[j].label
       /\ \A i \in DOMAIN D.signals : D.signals[i].label <= ListLimit
       /\ shown.writes = 0 /\ (\A i \in DOMAIN scores : scores[i].tier \in Tiers /\ IsExecutiveSlug(scores[i].executive)) =>
            /\ D.signals # <<>> => D.signals[1].score = Max(top) /\ D.signals[1].label = 1
            /\ MapThenSumSet(LAMBDA k : D.tiers[k][1], Tiers) =
                   MapThenSumSet(LAMBDA e : D.summary[e].signals, ToSet(Executives))

\* A path's two ends are among the nodes counted, or arrived meanwhile.
GraphAgrees ==
    /\ D.summary.visitors + D.summary.sessions <= D.summary.nodes
    /\ Len(D.paths) <= D.summary.edges + shown.writes
    /\ \A i \in DOMAIN D.paths :
        {D.paths[i].source, D.paths[i].target} \subseteq 1 .. D.summary.nodes + shown.writes
    /\ \A i \in DOMAIN D.paths : Contains(shown.after.edges, D.paths[i])

\* An interaction is shown with what had been written of it by then: nothing is
\* shown of it that is not there, and what was there at the start is.
ReceptionistAgrees ==
    /\ \A i \in DOMAIN D.interactions :
        LET x == D.interactions[i]
            Mine(t) == SelectSeq(t.workflow, LAMBDA e : e.interaction = x.row.id)
        IN /\ IsPrefix(Mine(shown.before), x.timeline)
           /\ IsPrefix(x.timeline, Mine(shown.after))
           /\ x.urgency # None => Contains(x.timeline, x.urgency)
           /\ x.request # None => \E k \in DOMAIN shown.after.tasks :
                                        shown.after.tasks[k].interaction = x.row.id
    /\ LET languages == MapThenSumSet(LAMBDA k : D.languages[k][1], DOMAIN D.languages)
       IN Abs(languages - D.summary.interactions) <= shown.writes
    /\ ListIsHonest(D.tasks, "tasks", LAMBDA r : r.priority \in {"low", "urgent"})

\* The approvals listed as pending are among the pending ones counted, but for
\* those requested or decided meanwhile.
TelephonyAgrees ==
    /\ Count(D.outbound, LAMBDA r : r.approval = "pending") <= D.summary.counts.pending + shown.writes
    /\ ListIsHonest(D.sessions, "sessions", LAMBDA r : r.known)
    /\ \A i \in DOMAIN D.callEvents : D.callEvents[i].call.id = D.callEvents[i].event.call

\* No subsystem is called healthy that had an error when the page was asked for,
\* and one whose errors are not shown at all had reported no event.
HealthIsNotOverstated ==
    /\ \A s \in DOMAIN D.health :
        D.health[s] = "healthy" =>
            /\ Count(shown.before.errors, LAMBDA r : r.subsystem = s) = 0
            /\ Count(shown.before.gates, LAMBDA r : r.subsystem = s /\ r.decision = "blocked") = 0
    /\ \A i \in DOMAIN shown.before.errors :
        LET s == shown.before.errors[i].subsystem
        IN s \notin DOMAIN D.health => Count(shown.before.telemetryEvents, LAMBDA r : r.subsystem = s) = 0

\* Every candidate is pending, decided or past deciding in one and the same
\* statement; a decision that is listed names a candidate that exists.
ImprovementAgrees ==
    /\ D.summary.pending + D.summary.approved + D.summary.rejected <= D.summary.candidates
    /\ D.approvals # <<>> => shown.after.candidates # <<>>
    /\ Len(D.approvals) <= ListLimit
    /\ D.candidates # <<>> => D.summary.opportunities + shown.writes > 0

\* The dashboard. A page that is shown as ready agrees with itself and with the
\* tables as far as writes during the read allow; one that is not shows nothing;
\* and the system is called healthy only with a database and every table.
DashboardsAreSound ==
    /\ Rendered =>
        /\ page = "interactions" => InteractionsAgree
        /\ page = "intent" => IntentAgrees
        /\ page = "graph" => GraphAgrees
        /\ page = "receptionist" => ReceptionistAgrees
        /\ page = "telephony" => TelephonyAgrees
        /\ page = "observability" => HealthIsNotOverstated
        /\ page = "improvement" => ImprovementAgrees
    /\ shown.status \in {"query_failed", "not_configured"} => D = EmptyData
    /\ answer = "healthy" => database /\ migrated = RequiredTables

=============================================================================
