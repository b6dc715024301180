--------------------------- MODULE EngagementGraph ---------------------------
(***************************************************************************)
(* Intent scoring and the contact graph.  Both are batch jobs over the     *)
(* append-only table of interaction events: recalculateIntentScores writes *)
(* one score for each visitor, session and executive, rebuildContactGraph  *)
(* reads events and scores (two statements, in either order) and writes    *)
(* nodes, edges and snapshots, row by row, with upserts and without a      *)
(* transaction.  Jobs overlap and fail between any two rows.               *)
(*                                                                         *)
(* A visitor's and a session's id is any text a client sends; both jobs    *)
(* make a group of the three ids joined with "::" and the graph takes the  *)
(* joined text apart again.  An id is the sequence of its pieces, ":" and  *)
(* "->" being pieces.                                                      *)
(***************************************************************************)
EXTENDS Integers, Sequences, FiniteSets, SequencesExt, FiniteSetsExt

CONSTANTS
    Groups,        \* <<visitor, session, executive>> triples in use, a sequence in
                   \* the order of the queries
    Executives,    \* known executive slugs
    Kinds,         \* event types in use; one that is not in BaseScore is of another build
    Contexts,      \* whether an event may carry its referrer and device
    Minutes,       \* instants, in minutes
    Jobs,          \* runs of the two scripts
    MaxEvents,     \* bound
    None

VARIABLES
    now,           \* an element of Minutes
    events,        \* interaction_events, in order of creation
    scores,        \* group -> None or its intent_scores row
    nodes,         \* stable keys of contact_graph_nodes
    edges,         \* edge key -> weight
    snapshots,     \* the triples of contact_graph_snapshots -> row
    job,           \* job -> what it is doing
    alone          \* jobs that no other job has overlapped

vars == <<now, events, scores, nodes, edges, snapshots, job, alone>>

Idle == [at |-> "idle"]
InUse == Range(Groups)

BaseScore ==
    [qr_scan |-> 4, card_view |-> 5, website_click |-> 15, share_click |-> 18,
     qr_transfer_detected |-> 4, qr_transfer_success_feedback |-> 1,
     qr_transfer_failure_feedback |-> 0, qr_transfer_haptics_toggled |-> 0,
     qr_transfer_sound_toggled |-> 0, qr_transfer_animation_toggled |-> 0,
     vcard_download |-> 25, email_click |-> 35, call_click |-> 45, calendar_view |-> 18,
     calendar_slot_selected |-> 30, calendar_request_submitted |-> 42,
     calendar_request_failed |-> 0, receptionist_request_started |-> 20,
     receptionist_request_submitted |-> 38, receptionist_request_failed |-> 0,
     receptionist_meeting_requested |-> 42, receptionist_callback_requested |-> 44,
     receptionist_lead_qualified |-> 50]

\* actionDepthScores, where it is not 0.
ActionDepth ==
    [website_click |-> 8, share_click |-> 10, vcard_download |-> 12, email_click |-> 16,
     call_click |-> 20, calendar_view |-> 8, calendar_slot_selected |-> 14,
     calendar_request_submitted |-> 20, receptionist_request_started |-> 10,
     receptionist_request_submitted |-> 16, receptionist_meeting_requested |-> 20,
     receptionist_callback_requested |-> 20, receptionist_lead_qualified |-> 24]

Init ==
    /\ now = Min(Minutes)
    /\ events = <<>>
    /\ scores = [g \in InUse |-> None]
    /\ nodes = {} /\ edges = <<>>
    /\ snapshots = <<>>
    /\ job = [j \in Jobs |-> Idle]
    /\ alone = {}

(***************************************************************************)
(* The key of a group, and what the graph reads from it.                   *)
(***************************************************************************)
GroupKey(g) == g[1] \o <<":", ":">> \o g[2] \o <<":", ":">> \o g[3]

\* The next "::" at or after a position, or the end.
NextBreak(key, from) ==
    Min({i \in from..(Len(key) - 1) : key[i] = ":" /\ key[i + 1] = ":"} \cup {Len(key) + 1})

\* key.split("::"), of which the first three are taken.
SplitKey(key) ==
    LET a == NextBreak(key, 1)
        b == NextBreak(key, a + 2)
        c == NextBreak(key, b + 2)
    IN  <<SubSeq(key, 1, a - 1), SubSeq(key, a + 2, b - 1), SubSeq(key, b + 2, c - 1)>>

(***************************************************************************)
(* scoreEventGroup.                                                        *)
(***************************************************************************)
\* toScoringEvent, toGraphEvent: rows of an unknown type or executive are
\* dropped.
Valid(e) == e.kind \in DOMAIN BaseScore /\ e.group[3] \in Executives

\* The events that share a key, the oldest first.
EventsOf(evs, key) == SelectSeq(evs, LAMBDA e : GroupKey(e.group) = key /\ Valid(e))

KeysOf(evs) == {GroupKey(e.group) : e \in {d \in Range(evs) : Valid(d)}}

\* getGroupIdentity: the ids of the oldest event, of several of one instant the
\* first in the query's order.
GetGroupIdentity(es) ==
    Groups[Min({n \in DOMAIN Groups :
                   \E e \in Range(es) : e.group = Groups[n] /\ e.at = es[1].at})]

DepthOf(kind) == IF kind \in DOMAIN ActionDepth THEN ActionDepth[kind] ELSE 0

GetRecencyBonus(last, scoredAt) ==
    LET age == Max({0, scoredAt - last})
    IN  CASE age <= 1440 -> 12
          [] age <= 7 * 1440 -> 6
          [] age <= 30 * 1440 -> 2
          [] OTHER -> 0

GetIntentTier(score) ==
    CASE score <= 24 -> "Cold Signal"
      [] score <= 49 -> "Warm Signal"
      [] score <= 69 -> "Qualified Signal"
      [] score <= 84 -> "Executive Priority"
      [] OTHER -> "Strategic Opportunity"

\* The score of a non-empty group; the session bonus is for three events of
\* two actions within half an hour.
ScoreOf(es, scoredAt) ==
    LET actions == {e.kind : e \in Range(es)} \ {"card_view", "qr_scan"}
        session == /\ Len(es) >= 3 /\ Cardinality(actions) >= 2
                   /\ es[Len(es)].at - es[1].at <= 30
    IN  Min({100,
             FoldLeft(LAMBDA total, e : total + BaseScore[e.kind], 0, es)
             + (IF Len(es) > 1 THEN Min({6 * (Len(es) - 1), 18}) ELSE 0)
             + Max({DepthOf(e.kind) : e \in Range(es)})
             + GetRecencyBonus(es[Len(es)].at, scoredAt)
             + (IF session THEN 10 ELSE 0)
             + (IF \E e \in Range(es) : e.referred THEN 4 ELSE 0)
             + (IF \E e \in Range(es) : e.device THEN 2 ELSE 0)})

ScoreEventGroup(es, scoredAt) ==
    [score |-> ScoreOf(es, scoredAt), tier |-> GetIntentTier(ScoreOf(es, scoredAt)),
     count |-> Len(es), first |-> es[1].at, last |-> es[Len(es)].at]

(***************************************************************************)
(* buildGraphFromEvents.                                                   *)
(***************************************************************************)
Visitor(g) == <<"visitor:">> \o g[1]
Session(g) == <<"session:">> \o g[2]
Executive(g) == <<"executive:">> \o g[3]
EventNode(n) == <<"interaction_event:", n>>
ScoreNode(g) == <<"intent_score:", g>>

CoreNodes(g) == {Visitor(g), Session(g), Executive(g)}
VisitorHasSession(g) == [key |-> <<"visitor_has_session", Visitor(g), Session(g)>>, weight |-> 1]
CoreEdges(g) ==
    {[key |-> <<"session_viewed_executive", Session(g), Executive(g)>>, weight |-> 1],
     [key |-> <<"visitor_engaged_executive", Visitor(g), Executive(g)>>, weight |-> 1]}

\* An edge is kept under the text of its ends; only the ends of this type are
\* both free texts.
EdgeStableKey(e) == e.key[2] \o <<"->">> \o e.key[3]

ValidEvents(evs) == {n \in DOMAIN evs : Valid(evs[n])}
Scored(scs) == {g \in InUse : scs[g] # None /\ g[3] \in Executives}

\* The groups in the order they are met, those of the events first; addEdge
\* keeps the first edge of a stable key.
Met(evs, scs) ==
    SelectSeq(Groups, LAMBDA g : \E n \in ValidEvents(evs) : evs[n].group = g)
    \o SelectSeq(Groups, LAMBDA g : g \in Scored(scs))
SessionEdges(evs, scs) ==
    LET edge == [i \in DOMAIN Met(evs, scs) |-> VisitorHasSession(Met(evs, scs)[i])]
    IN  {edge[i] : i \in {j \in DOMAIN edge :
             \A h \in 1..(j - 1) : EdgeStableKey(edge[h]) # EdgeStableKey(edge[j])}}

NodesOf(evs, scs) ==
    UNION {CoreNodes(evs[n].group) \cup {EventNode(n)} : n \in ValidEvents(evs)}
    \cup UNION {CoreNodes(g) \cup {ScoreNode(g)} : g \in Scored(scs)}

EdgesOf(evs, scs) ==
    SessionEdges(evs, scs)
    \cup UNION {CoreEdges(evs[n].group) \cup
           {[key |-> <<"session_generated_event", Session(evs[n].group), EventNode(n)>>,
             weight |-> 1],
            [key |-> <<"event_targets_executive", EventNode(n), Executive(evs[n].group)>>,
             weight |-> 1]} : n \in ValidEvents(evs)}
    \cup UNION {CoreEdges(g) \cup
           {[key |-> <<"session_has_intent_score", Session(g), ScoreNode(g)>>,
             weight |-> Max({1, scs[g].score})]} : g \in Scored(scs)}

\* getLastActivityAt: the later of the last event and the score's.
LastActivity(es, score) ==
    Max({e.at : e \in Range(es)} \cup (IF score = None THEN {} ELSE {score.last}))

\* The highest of the scores that share a key, of equal ones the first.
HighestScore(scs, key) ==
    LET rows == SelectSeq(Groups, LAMBDA g : g \in Scored(scs) /\ GroupKey(g) = key)
        best == {i \in DOMAIN rows : \A g \in Range(rows) : scs[g].score <= scs[rows[i]].score}
    IN  IF rows = <<>> THEN None ELSE scs[rows[Min(best)]]

SnapshotOf(evs, scs, key) ==
    LET es == EventsOf(evs, key)
        score == HighestScore(scs, key)
    IN  [total |-> Len(es),
         highest |-> IF score = None THEN None ELSE score.score,
         tier |-> IF score = None THEN None ELSE score.tier,
         last |-> LastActivity(es, score)]

\* The keys that have an event or a score.
SnapshotKeys(evs, scs) == KeysOf(evs) \cup {GroupKey(g) : g \in Scored(scs)}

(***************************************************************************)
(* The jobs.                                                               *)
(***************************************************************************)
RecordEvent(g, k, context) ==
    /\ Len(events) < MaxEvents
    /\ events' = Append(events, [group |-> g, kind |-> k, at |-> now,
                                 referred |-> context, device |-> context])
    /\ UNCHANGED <<now, scores, nodes, edges, snapshots, job, alone>>

Tick ==
    /\ \E t \in Minutes : t > now
    /\ now' = Min({t \in Minutes : t > now})
    /\ UNCHANGED <<events, scores, nodes, edges, snapshots, job, alone>>

\* Rows are written in one fixed order.
First(rows) == CHOOSE r \in rows : TRUE

\* Snapshots are sorted by key: one comes after the keys it begins with.
FirstKey(keys) == CHOOSE k \in keys : \A l \in keys : Len(k) <= Len(l)

Started(j) == IF \A i \in Jobs : job[i] = Idle THEN {j} ELSE {}

\* recalculateIntentScores reads every event and scores the groups it finds.
StartScoring(j) ==
    /\ job[j] = Idle
    /\ job' = [job EXCEPT ![j] =
           [at |-> "scoring", events |-> events, scoredAt |-> now,
            todo |-> KeysOf(events)]]
    /\ alone' = Started(j)
    /\ UNCHANGED <<now, events, scores, nodes, edges, snapshots>>

\* MUTANT: on conflict do nothing.
InsertScore(j) ==
    /\ job[j].at = "scoring" /\ job[j].todo # {}
    /\ LET es == EventsOf(job[j].events, First(job[j].todo))
           g == GetGroupIdentity(es)
       IN  scores' = IF scores[g] # None THEN scores
                     ELSE [scores EXCEPT ![g] = ScoreEventGroup(es, job[j].scoredAt)]
    /\ job' = [job EXCEPT ![j].todo = @ \ {First(@)}]
    /\ UNCHANGED <<now, events, nodes, edges, snapshots, alone>>

WriteScore(j) ==
    /\ job[j].at = "scoring" /\ job[j].todo # {}
    /\ LET es == EventsOf(job[j].events, First(job[j].todo))
       IN  scores' = [scores EXCEPT ![GetGroupIdentity(es)] =
                         ScoreEventGroup(es, job[j].scoredAt)]
    /\ job' = [job EXCEPT ![j].todo = @ \ {First(@)}]
    /\ UNCHANGED <<now, events, nodes, edges, snapshots, alone>>

StartRebuild(j) ==
    /\ job[j] = Idle
    /\ job' = [job EXCEPT ![j] = [at |-> "reading", events |-> None, scores |-> None]]
    /\ alone' = Started(j)
    /\ UNCHANGED <<now, events, scores, nodes, edges, snapshots>>

\* The two statements of Promise.all, on two connections.
ReadEvents(j) ==
    /\ job[j].at = "reading" /\ job[j].events = None
    /\ job' = [job EXCEPT ![j].events = events]
    /\ UNCHANGED <<now, events, scores, nodes, edges, snapshots, alone>>

ReadScores(j) ==
    /\ job[j].at = "reading" /\ job[j].scores = None
    /\ job' = [job EXCEPT ![j].scores = scores]
    /\ UNCHANGED <<now, events, scores, nodes, edges, snapshots, alone>>

\* The graph is built in memory.
Build(j) ==
    /\ job[j].at = "reading" /\ job[j].events # None /\ job[j].scores # None
    /\ job' = [job EXCEPT ![j] =
           [at |-> "nodes", events |-> @.events, scores |-> @.scores, known |-> {},
            todo |-> NodesOf(@.events, @.scores)]]
    /\ UNCHANGED <<now, events, scores, nodes, edges, snapshots, alone>>

UpsertNode(j) ==
    /\ job[j].at = "nodes"
    /\ IF job[j].todo = {}
       THEN /\ job' = [job EXCEPT ![j].at = "edges",
                                  ![j].todo = EdgesOf(job[j].events, job[j].scores)]
            /\ UNCHANGED nodes
       ELSE /\ nodes' = nodes \cup {First(job[j].todo)}
            /\ job' = [job EXCEPT ![j].todo = @ \ {First(@)}, ![j].known = @ \cup {First(job[j].todo)}]
    /\ UNCHANGED <<now, events, scores, edges, snapshots, alone>>

\* An edge whose nodes this job did not write is skipped.
UpsertEdge(j) ==
    /\ job[j].at = "edges"
    /\ IF job[j].todo = {}
       THEN /\ job' = [job EXCEPT ![j].at = "snapshots",
                          ![j].todo = SnapshotKeys(job[j].events, job[j].scores)]
            /\ UNCHANGED edges
       ELSE LET e == First(job[j].todo) IN
            /\ edges' = IF {e.key[2], e.key[3]} \subseteq job[j].known
                        THEN [k \in DOMAIN edges \cup {e.key} |->
                                 IF k = e.key THEN e.weight ELSE edges[k]]
                        ELSE edges
            /\ job' = [job EXCEPT ![j].todo = @ \ {First(@)}]
    /\ UNCHANGED <<now, events, scores, nodes, snapshots, alone>>

UpsertSnapshot(j) ==
    /\ job[j].at = "snapshots" /\ job[j].todo # {}
    /\ LET key == FirstKey(job[j].todo)
           row == SplitKey(key)
       IN  snapshots' = [t \in DOMAIN snapshots \cup {row} |->
                            IF t = row THEN SnapshotOf(job[j].events, job[j].scores, key)
                            ELSE snapshots[t]]
    /\ job' = [job EXCEPT ![j].todo = @ \ {FirstKey(@)}]
    /\ UNCHANGED <<now, events, scores, nodes, edges, alone>>

Finished(j) == job[j].at \in {"scoring", "snapshots"} /\ job[j].todo = {}

\* The job ends, or a statement fails and it ends where it is.
End(j) ==
    /\ job[j] # Idle
    /\ job' = [job EXCEPT ![j] = Idle]
    /\ UNCHANGED <<now, events, scores, nodes, edges, snapshots, alone>>

Next ==
    \/ Tick
    \/ \E g \in InUse, k \in Kinds, c \in Contexts : RecordEvent(g, k, c)
    \/ \E j \in Jobs :
        \/ StartScoring(j) \/ WriteScore(j)
        \/ StartRebuild(j) \/ ReadEvents(j) \/ ReadScores(j) \/ Build(j)
        \/ UpsertNode(j) \/ UpsertEdge(j) \/ UpsertSnapshot(j) \/ End(j)

Spec == Init /\ [][Next]_vars
-----------------------------------------------------------------------------
\* A group that shares no text with another: its key is taken apart into its own
\* ids, no other key is taken apart into them, and no other pair of visitor and
\* session reads the same.
Plain(g) ==
    /\ \A h \in InUse : SplitKey(GroupKey(h)) = g <=> h = g
    /\ \A h \in InUse : EdgeStableKey(VisitorHasSession(h)) = EdgeStableKey(VisitorHasSession(g))
                        => h[1] = g[1] /\ h[2] = g[2]

Own(g) == SelectSeq(events, LAMBDA e : e.group = g /\ Valid(e))

\* Every score row is what some earlier state of the events gave: a count of
\* events that exist, the instant of the last of them, and a tier that fits.
\* The events are those of the row's key: of the group alone if it is plain.
TypeOK ==
    \A g \in InUse : scores[g] # None =>
        LET es == EventsOf(events, GroupKey(g)) IN
        /\ scores[g].count \in 1..Len(es)
        /\ scores[g].last = es[scores[g].count].at
        /\ scores[g].score \in 0..100
        /\ scores[g].tier = GetIntentTier(scores[g].score)
        /\ Plain(g) => es = Own(g)

\* Both ends of every edge are nodes, whichever jobs overlapped or failed.
GraphIsClosed ==
    \A k \in DOMAIN edges : {k[2], k[3]} \subseteq nodes /\ edges[k] > 0

\* A snapshot stands for a group whose key reads as the snapshot's ids: it
\* counts no event that the group's key never had and shows a score only where
\* one was written, although events and scores are read at two instants.
SnapshotsAreReal ==
    \A t \in DOMAIN snapshots :
        /\ \E g \in InUse :
            /\ SplitKey(GroupKey(g)) = t
            /\ snapshots[t].total <= Len(EventsOf(events, GroupKey(g)))
            /\ snapshots[t].highest # None =>
                \E h \in InUse : GroupKey(h) = GroupKey(g) /\ scores[h] # None
        /\ snapshots[t].total = 0 => snapshots[t].highest # None

\* A job that nothing overlapped, and that no event came in during, leaves
\* the tables as a computation from scratch would: running it again changes
\* nothing, and what an earlier failed or stale job left is repaired.  Of keys
\* that read alike the longest has the snapshot.
JobsConverge ==
    \A j \in Jobs : (Finished(j) /\ j \in alone /\ job[j].events = events) =>
        IF job[j].at = "scoring"
        THEN \A key \in KeysOf(events) :
                LET es == EventsOf(events, key)
                IN  scores[GetGroupIdentity(es)] = ScoreEventGroup(es, job[j].scoredAt)
        ELSE /\ nodes = NodesOf(events, scores)
             /\ \A e \in EdgesOf(events, scores) : edges[e.key] = e.weight
             /\ \A key \in SnapshotKeys(events, scores) :
                    (\A l \in SnapshotKeys(events, scores) :
                        SplitKey(l) = SplitKey(key) => Len(l) <= Len(key))
                    => snapshots[SplitKey(key)] = SnapshotOf(events, scores, key)

\* Such a job also leaves every plain group with a score, edges and a snapshot of
\* its own events and of no others: ids with a separator in them cost the groups
\* that have them their rows, and no other group.
PlainGroupsAreWhole ==
    \A j \in Jobs, g \in InUse :
        (Finished(j) /\ j \in alone /\ job[j].events = events /\ Plain(g) /\ Own(g) # <<>>) =>
            IF job[j].at = "scoring" THEN scores[g].count = Len(Own(g))
            ELSE /\ {e.key : e \in {VisitorHasSession(g)} \cup CoreEdges(g)} \subseteq DOMAIN edges
                 /\ snapshots[g].total = Len(Own(g))

\* Scores, graph and snapshots are sound (recalculateIntentScores and
\* rebuildContactGraph).
EngagementIsSound ==
    TypeOK /\ GraphIsClosed /\ SnapshotsAreReal /\ JobsConverge /\ PlainGroupsAreWhole
=============================================================================
