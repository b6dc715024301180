---------------------- MODULE CommunicationTransitions ----------------------
(***************************************************************************)
(* The communications aggregate and its append-only transition log, as the *)
(* triggers of migration 0018 keep them for concurrent writers.  A writer  *)
(* reads the aggregate, prepares a transition from what it read, obtains   *)
(* an authorization decision for it and inserts it later; the insert locks *)
(* the aggregate (FOR UPDATE), checks it again and moves it.               *)
(***************************************************************************)
EXTENDS Naturals, FiniteSets, Sequences

CONSTANTS
    Writers, Communications,
    MaxVersion,       \* bound: transitions of one communication
    MaxTime           \* bound: occurred_at, created_at and updated_at

ASSUME BoundsAssumption == MaxVersion \in Nat /\ MaxTime \in Nat

VARIABLES
    rows,             \* communication -> "none" or its row
    log,              \* committed communication_lifecycle_transitions
    draft,            \* writer -> "none" or the transition it prepared
    setBack           \* communications whose updated_at a plain UPDATE lowered

vars == <<rows, log, draft, setBack>>

NoRow == [state |-> "none", version |-> 0, createdAt |-> 0, updatedAt |-> 0]

Lifecycle ==
    INSTANCE CommunicationLifecycle
    WITH state <- [c \in Communications |-> rows[c].state]

States == Lifecycle!States

Row ==
    [state : States \cup {"none"}, version : 0..MaxVersion,
     createdAt : 0..MaxTime, updatedAt : 0..MaxTime]

Draft ==
    [communication : Communications, sequence : 1..MaxVersion,
     from : States, to : States, occurredAt : 0..MaxTime,
     authorized : BOOLEAN]

NoDraft == [sequence |-> 0]

Init ==
    /\ rows = [c \in Communications |-> NoRow]
    /\ log = {}
    /\ draft = [w \in Writers |-> NoDraft]
    /\ setBack = {}

\* An aggregate starts in requested at version 0.
InsertCommunication(c) ==
    \E created, updated \in 0..MaxTime :
        /\ rows[c] = NoRow /\ created <= updated
        /\ rows' = [rows EXCEPT ![c] = [state |-> "requested", version |-> 0,
                                        createdAt |-> created, updatedAt |-> updated]]
        /\ UNCHANGED <<log, draft, setBack>>

\* An UPDATE that is no transition: the trigger keeps state, version, owner and
\* created_at; updated_at may be anything that is not before created_at.
UpdateCommunication(c) ==
    \E t \in 0..MaxTime :
        /\ rows[c] # NoRow /\ rows[c].createdAt <= t
        /\ rows' = [rows EXCEPT ![c].updatedAt = t]
        /\ setBack' = IF t < rows[c].updatedAt THEN setBack \cup {c} ELSE setBack
        /\ UNCHANGED <<log, draft>>

TriggerAllowsReopen(from, to) ==
    \/ from = "requested" /\ to \in {"policy_checking", "blocked", "cancelled"}
    \/ from = "blocked" /\ to = "policy_checking"

\* The transition table the trigger repeats in SQL.
TriggerAllows(from, to) ==
    \/ from = "requested" /\ to \in {"policy_checking", "blocked", "suppressed", "cancelled"}
    \/ from = "policy_checking" /\ to \in {"authorized", "blocked", "suppressed", "expired"}
    \/ from = "authorized" /\ to \in {"queued", "blocked", "suppressed", "cancelled"}
    \/ from = "queued" /\ to \in {"dispatching", "cancelled", "expired", "suppressed"}
    \/ from = "dispatching" /\ to \in {"accepted", "failed", "terminated"}
    \/ from = "accepted" /\ to \in {"active", "completed", "failed", "terminated"}
    \/ from = "active" /\ to \in {"completed", "failed", "terminated"}

\* A writer prepares any transition for what it reads now: nothing but the
\* trigger stops one that the table forbids.
Prepare(w) ==
    \E c \in Communications, to \in States, t \in 0..MaxTime :
        /\ rows[c] # NoRow /\ rows[c].version < MaxVersion
        /\ draft' = [draft EXCEPT ![w] =
                        [communication |-> c, sequence |-> rows[c].version + 1,
                         from |-> rows[c].state, to |-> to, occurredAt |-> t,
                         authorized |-> FALSE]]
        /\ UNCHANGED <<rows, log, setBack>>

\* The communication.authorization_decision audit event that the draft cites:
\* it names the communication and the two states.
Authorize(w) ==
    /\ draft[w] # NoDraft /\ ~draft[w].authorized
    /\ draft' = [draft EXCEPT ![w].authorized = TRUE]
    /\ UNCHANGED <<rows, log, setBack>>

TransitionIgnoresChronology(d) ==
    /\ rows[d.communication] # NoRow
    /\ d.from = rows[d.communication].state
    /\ d.sequence = rows[d.communication].version + 1
    /\ d.authorized
    /\ TriggerAllows(d.from, d.to)

\* enforce_communication_lifecycle_transition_v1 on the locked aggregate.
TransitionAccepted(d) ==
    /\ rows[d.communication] # NoRow
    /\ d.from = rows[d.communication].state
    /\ d.sequence = rows[d.communication].version + 1
    /\ d.occurredAt >= rows[d.communication].updatedAt
    /\ d.authorized
    /\ TriggerAllows(d.from, d.to)

InsertTransition(w) ==
    LET d == draft[w] IN
    /\ d # NoDraft
    /\ TransitionAccepted(d)
    /\ rows' = [rows EXCEPT ![d.communication] =
                    [state |-> d.to, version |-> d.sequence,
                     createdAt |-> @.createdAt, updatedAt |-> d.occurredAt]]
    /\ log' = log \cup {d}
    /\ draft' = [draft EXCEPT ![w] = NoDraft]
    /\ UNCHANGED setBack

\* The trigger raises: the statement has no effect and the draft is dropped.
RejectTransition(w) ==
    /\ draft[w] # NoDraft
    /\ ~TransitionAccepted(draft[w])
    /\ draft' = [draft EXCEPT ![w] = NoDraft]
    /\ UNCHANGED <<rows, log, setBack>>

Next ==
    \/ \E c \in Communications : InsertCommunication(c) \/ UpdateCommunication(c)
    \/ \E w \in Writers : Prepare(w) \/ Authorize(w)
                          \/ InsertTransition(w) \/ RejectTransition(w)

Spec == Init /\ [][Next]_vars
-----------------------------------------------------------------------------
\* Aggregates, log rows and drafts have the shape of their tables; a log row
\* has its authorization decision.
TypeOK ==
    /\ rows \in [Communications -> Row]
    /\ log \subseteq {d \in Draft : d.authorized}
    /\ draft \in [Writers -> Draft \cup {NoDraft}]
    /\ setBack \subseteq Communications

Entries(c) == {d \in log : d.communication = c}

\* The transition log is the aggregate's history: one entry per version, each
\* starting where the one before it ended, and the last one ending where the
\* aggregate is, although writers prepare transitions from stale reads and rows
\* are updated between transitions.
LogIsHistory ==
    \A c \in Communications :
        LET n == rows[c].version IN
        /\ \A i \in 1..n : \E d \in Entries(c) : d.sequence = i
        /\ \A d \in Entries(c) :
            /\ d.sequence <= n
            /\ d.sequence = 1 => d.from = "requested"
            /\ d.sequence = n => d.to = rows[c].state
        /\ \A d, e \in Entries(c) :
            /\ d.sequence = e.sequence => d = e
            /\ e.sequence = d.sequence + 1 => e.from = d.to

\* No transition is older than its communication.  Transitions do not go back in
\* time either, unless an UPDATE has set the aggregate's updated_at back: the
\* trigger compares a transition with that column and not with the log.
LogIsChronological ==
    /\ \A d \in log : rows[d.communication].createdAt <= d.occurredAt
    /\ \A c \in Communications \ setBack :
        /\ \A d \in Entries(c) : d.occurredAt <= rows[c].updatedAt
        /\ \A d, e \in Entries(c) : d.sequence <= e.sequence => d.occurredAt <= e.occurredAt

\* A communication never takes the same transition twice, so an authorization
\* decision, which names the two states and stays valid, never authorises two.
DecisionIsUsedOnce ==
    \A d, e \in log :
        (d.communication = e.communication /\ d.from = e.from /\ d.to = e.to)
        => d = e

\* The triggers implement the lifecycle of the domain package.
ImplementsLifecycle == Lifecycle!Spec

\* The log of a communication is sound (the triggers of migration 0018).
LogIsSound == TypeOK /\ LogIsHistory /\ LogIsChronological /\ DecisionIsUsedOnce
-----------------------------------------------------------------------------
(***************************************************************************)
(* The inductive invariant behind DecisionIsUsedOnce: the trigger's table  *)
(* has no cycle.  Every transition goes up in this order, and what is in   *)
(* the log is below where the aggregate is now.                            *)
(***************************************************************************)
Rank ==
    [s \in States |->
        CASE s = "requested"       -> 0
          [] s = "policy_checking" -> 1
          [] s = "authorized"      -> 2
          [] s = "queued"          -> 3
          [] s = "dispatching"     -> 4
          [] s = "accepted"        -> 5
          [] s = "active"          -> 6
          [] OTHER                 -> 7]

RowsAreWhole ==
    \A c \in Communications :
        /\ rows[c].state = "none" => rows[c] = NoRow
        /\ rows[c].version = 0 => rows[c].state \in {"none", "requested"}
        /\ rows[c].createdAt <= rows[c].updatedAt

LogGoesUp ==
    /\ \A d \in log : /\ Rank[d.from] < Rank[d.to]
                       /\ rows[d.communication] # NoRow
                       /\ Rank[d.to] <= Rank[rows[d.communication].state]
    /\ \A d, e \in log :
        (d.communication = e.communication /\ d.sequence < e.sequence)
        => Rank[d.to] <= Rank[e.from]

IndInv == TypeOK /\ RowsAreWhole /\ LogIsHistory /\ LogIsChronological /\ LogGoesUp
=============================================================================
