----------------------- MODULE CommunicationsDispatch -----------------------
(***************************************************************************)
(* Consent, suppression and dispatch of one participant of one card, as    *)
(* the triggers of migration 0018 enforce them on concurrent PostgreSQL    *)
(* transactions.  Every transaction runs one statement: it takes the       *)
(* advisory locks of its policy subject, evaluates the triggers on what is *)
(* committed, and commits or fails.  now() is the start of a transaction.  *)
(***************************************************************************)
EXTENDS Naturals, Sequences, FiniteSets

CONSTANTS
    Clients,          \* database connections
    Channels,         \* communication channels in use
    Purposes,         \* consent purposes in use
    Wildcard,              \* SQL NULL in the channel or purpose of a suppression
    ReceiptIds, SuppressionIds, AttemptIds,
    PolicyEnd,        \* expires_at of the consent policy
    MaxClock,         \* bound: how far the database clock runs
    MaxTxns           \* bound: transactions that are started

\* What the proofs assume of the constants.
ConstantsAssumed ==
    /\ MaxClock \in Nat /\ MaxTxns \in Nat
    /\ "free" \notin Clients

Instants == 0..MaxClock
Never == MaxClock + 1
Ends  == 1..Never

VARIABLES
    clock,            \* the database clock
    receipts,         \* committed communication_consent_receipts
    suppressions,     \* committed communication_suppressions
    audits,           \* suppressions with a committed release audit event
    attempts,         \* committed communication_dispatch_attempts
    held,             \* advisory lock -> the client that holds it
    txn,              \* client -> its transaction
    started           \* transactions started so far

vars == <<clock, receipts, suppressions, audits, attempts, held, txn, started>>

Subject == (Channels \cup {Wildcard}) \X (Purposes \cup {Wildcard})
Free    == "free"

Receipt ==
    [id : ReceiptIds, status : {"granted", "denied", "revoked"},
     channel : Channels, purpose : Purposes,
     effectiveAt : Instants, expiresAt : Ends]

Suppression ==
    [id : SuppressionIds, status : {"active", "released"},
     channel : Channels \cup {Wildcard}, purpose : Purposes \cup {Wildcard},
     createdAt : Instants, expiresAt : Ends]

AttemptStates == {"queued", "blocked", "failed", "cancelled"}

Attempt ==
    [id : AttemptIds, state : AttemptStates, channel : Channels,
     purpose : Purposes, consent : ReceiptIds \cup {"none"},
     evaluatedAt : Instants]

\* A transaction: its statement, INSERT or UPDATE, with the table and the row,
\* now(), the locks it still has to take, and how far it is.
Idle == [at |-> "idle"]

Transaction ==
    {t \in [at : {"locking", "written"}, statement : {"insert", "update"},
            table : {"receipts", "suppressions", "attempts"},
            row : Receipt \cup Suppression \cup Attempt, now : Instants, todo : Seq(Subject)] :
        t.row \in CASE t.table = "receipts" -> Receipt
                    [] t.table = "suppressions" -> Suppression
                    [] t.table = "attempts" -> Attempt}

Init ==
    /\ clock = 0
    /\ receipts = {} /\ suppressions = {} /\ audits = {} /\ attempts = {}
    /\ held = [s \in Subject |-> Free]
    /\ txn = [c \in Clients |-> Idle]
    /\ started = 0

(***************************************************************************)
(* lock_communication_policy_subject_hierarchy_v1: the exact subject, then *)
(* any channel, then any purpose, then any of both.                        *)
(***************************************************************************)
LockKeysExactOnly(ch, pu) == <<<<ch, pu>>>>

LockKeysWidestSecond(ch, pu) ==
    <<<<ch, pu>>, <<Wildcard, Wildcard>>, <<Wildcard, pu>>, <<ch, Wildcard>>>>

LockKeys(ch, pu) ==
    <<<<ch, pu>>, <<Wildcard, pu>>, <<ch, Wildcard>>, <<Wildcard, Wildcard>>>>

(***************************************************************************)
(* enforce_communication_dispatch_policy_v1: what it counts at time t.     *)
(***************************************************************************)
RevokedAt(ch, pu, t) ==
    \E r \in receipts : /\ r.status = "revoked"
                        /\ r.channel = ch /\ r.purpose = pu
                        /\ r.effectiveAt <= t

ActiveConsents(ch, pu, t) ==
    {r \in receipts : /\ r.status = "granted"
                      /\ r.channel = ch /\ r.purpose = pu
                      /\ r.effectiveAt <= t /\ t < r.expiresAt
                      /\ t < PolicyEnd
                      /\ ~RevokedAt(ch, pu, t)}

ActiveSuppressions(ch, pu, t) ==
    {s \in suppressions : /\ s.status = "active"
                          /\ s.createdAt <= t /\ t < s.expiresAt
                          /\ s.channel \in {Wildcard, ch}
                          /\ s.purpose \in {Wildcard, pu}}

MayQueue(a, t) ==
    /\ \E r \in ActiveConsents(a.channel, a.purpose, t) : r.id = a.consent
    /\ Cardinality(ActiveConsents(a.channel, a.purpose, t)) = 1
    /\ ActiveSuppressions(a.channel, a.purpose, t) = {}

(***************************************************************************)
(* Starting a transaction with its statement.                              *)
(***************************************************************************)
Begin(c, statement, table, row, keys) ==
    /\ txn[c] = Idle
    /\ started < MaxTxns
    /\ started' = started + 1
    /\ txn' = [txn EXCEPT ![c] = [at |-> "locking", statement |-> statement,
                                  table |-> table, row |-> row, now |-> clock,
                                  todo |-> keys]]
    /\ UNCHANGED <<clock, receipts, suppressions, audits, attempts, held>>

\* A receipt is stamped by its writer, never later than it is observed; the
\* policy window bounds effective_at.
InsertReceipt(c) ==
    \E id \in ReceiptIds \ {r.id : r \in receipts},
       st \in {"granted", "denied", "revoked"},
       ch \in Channels, pu \in Purposes, from \in 0..clock, to \in Ends :
        /\ from < to /\ from < PolicyEnd
        /\ Begin(c, "insert", "receipts",
                 [id |-> id, status |-> st, channel |-> ch, purpose |-> pu,
                  effectiveAt |-> from, expiresAt |-> to],
                 LockKeys(ch, pu))

InsertSuppression(c) ==
    \E id \in SuppressionIds \ {s.id : s \in suppressions},
       ch \in Channels \cup {Wildcard}, pu \in Purposes \cup {Wildcard},
       from \in 0..clock, to \in Ends :
        /\ from < to
        /\ Begin(c, "insert", "suppressions",
                 [id |-> id, status |-> "active", channel |-> ch,
                  purpose |-> pu, createdAt |-> from, expiresAt |-> to],
                 LockKeys(ch, pu))

\* The release audit event that a release has to cite, used once.
AuditRelease(c) ==
    /\ txn[c] = Idle
    /\ \E s \in suppressions :
        /\ s.status = "active" /\ s.id \notin audits
        /\ audits' = audits \cup {s.id}
    /\ UNCHANGED <<clock, receipts, suppressions, attempts, held, txn, started>>

ReleaseSuppression(c) ==
    \E s \in suppressions :
        /\ s.status = "active"
        /\ Begin(c, "update", "suppressions", [s EXCEPT !.status = "released"],
                 LockKeys(s.channel, s.purpose))

\* INSERT of an attempt; only a queued one is evaluated and takes the locks.
InsertAttempt(c) ==
    \E id \in AttemptIds \ {a.id : a \in attempts}, st \in AttemptStates,
       ch \in Channels, pu \in Purposes,
       consent \in {r.id : r \in receipts} \cup {"none"} :
        Begin(c, "insert", "attempts",
              [id |-> id, state |-> st, channel |-> ch, purpose |-> pu,
               consent |-> consent, evaluatedAt |-> clock],
              IF st = "queued" THEN LockKeys(ch, pu) ELSE <<>>)

\* UPDATE of an attempt: the authorization fields are immutable, and a row that
\* is queued afterwards is evaluated again, also when it was queued before.
UpdateAttempt(c) ==
    \E a \in attempts, st \in AttemptStates :
        Begin(c, "update", "attempts",
              [a EXCEPT !.state = st,
                        !.evaluatedAt = IF st = "queued" THEN clock ELSE @],
              IF st = "queued" THEN LockKeys(a.channel, a.purpose) ELSE <<>>)

(***************************************************************************)
(* Running it.                                                             *)
(***************************************************************************)

\* pg_advisory_xact_lock waits for another holder, and is re-entrant.
TakeLock(c) ==
    /\ txn[c].at = "locking" /\ txn[c].todo # <<>>
    /\ held[Head(txn[c].todo)] \in {Free, c}
    /\ held' = [held EXCEPT ![Head(txn[c].todo)] = c]
    /\ txn' = [txn EXCEPT ![c].todo = Tail(@)]
    /\ UNCHANGED <<clock, receipts, suppressions, audits, attempts, started>>

Table(name) ==
    CASE name = "receipts" -> receipts
      [] name = "suppressions" -> suppressions
      [] name = "attempts" -> attempts

\* A row that another transaction has written is locked until that one ends;
\* so is the primary key of a row it has inserted.
RowIsFree(c) ==
    \A d \in Clients \ {c} :
        ~(/\ txn[d].at = "written" /\ txn[d].table = txn[c].table
          /\ txn[d].row.id = txn[c].row.id)

\* The verdict of the primary key and of the triggers on the row, on what is
\* committed at this point.
Accepted(c) ==
    LET row == txn[c].row IN
    /\ txn[c].statement = "insert" => row.id \notin {r.id : r \in Table(txn[c].table)}
    /\ (txn[c].table = "suppressions" /\ row.status = "released") =>
        /\ row.id \in audits
        /\ \E s \in suppressions : s.id = row.id /\ s.status = "active"
    /\ (txn[c].table = "attempts" /\ row.state = "queued") => MayQueue(row, txn[c].now)

RunTriggers(c) ==
    /\ txn[c].at = "locking" /\ txn[c].todo = <<>>
    /\ RowIsFree(c)
    /\ Accepted(c)
    /\ txn' = [txn EXCEPT ![c].at = "written"]
    /\ UNCHANGED <<clock, receipts, suppressions, audits, attempts, held, started>>

Unlocked(c) == [s \in Subject |-> IF held[s] = c THEN Free ELSE held[s]]
Replace(table, row) == {r \in table : r.id # row.id} \cup {row}

Commit(c) ==
    /\ txn[c].at = "written"
    /\ LET row == txn[c].row IN
        /\ receipts' = IF txn[c].table = "receipts"
                       THEN Replace(receipts, row) ELSE receipts
        /\ suppressions' = IF txn[c].table = "suppressions"
                           THEN Replace(suppressions, row) ELSE suppressions
        /\ attempts' = IF txn[c].table = "attempts"
                       THEN Replace(attempts, row) ELSE attempts
    /\ held' = Unlocked(c)
    /\ txn' = [txn EXCEPT ![c] = Idle]
    /\ UNCHANGED <<clock, audits, started>>

\* A trigger raised an exception, or the connection was lost.
Rollback(c) ==
    /\ txn[c].at \in {"locking", "written"}
    /\ \/ txn[c].at = "locking" /\ txn[c].todo = <<>> /\ RowIsFree(c) /\ ~Accepted(c)
       \/ txn[c].at = "written"
    /\ held' = Unlocked(c)
    /\ txn' = [txn EXCEPT ![c] = Idle]
    /\ UNCHANGED <<clock, receipts, suppressions, audits, attempts, started>>

Tick ==
    /\ clock < MaxClock
    /\ clock' = clock + 1
    /\ UNCHANGED <<receipts, suppressions, audits, attempts, held, txn, started>>

Step(c) == TakeLock(c) \/ RunTriggers(c) \/ Commit(c) \/ Rollback(c)

Next ==
    \/ Tick
    \/ \E c \in Clients :
        \/ InsertReceipt(c) \/ InsertSuppression(c) \/ AuditRelease(c)
        \/ ReleaseSuppression(c) \/ InsertAttempt(c) \/ UpdateAttempt(c)
        \/ Step(c)

Spec == Init /\ [][Next]_vars

\* A transaction whose lock is free goes on: PostgreSQL queues the waiters of
\* a lock, so a lock that is free again and again is granted.
FairSpec == Spec /\ \A c \in Clients : SF_vars(Step(c))
-----------------------------------------------------------------------------
\* Rows, locks and transactions have the shape the tables give them.
TypeOK ==
    /\ clock \in Instants /\ started \in 0..MaxTxns
    /\ receipts \subseteq Receipt /\ suppressions \subseteq Suppression
    /\ attempts \subseteq Attempt /\ audits \subseteq SuppressionIds
    /\ held \in [Subject -> Clients \cup {Free}]
    /\ txn \in [Clients -> Transaction \cup {Idle}]

\* A queued attempt is committed only if, of all that is committed by then, the
\* consent it cites was the one active consent and no suppression applied at the
\* time of its evaluation, which is the start of its transaction: no receipt and
\* no suppression, wildcard ones included, that was in effect at that time slips
\* in between the evaluation and the commit.
QueuedIsPermitted ==
    \A a \in attempts' \ attempts :
        a.state = "queued" => MayQueue(a, a.evaluatedAt)

\* What escapes the evaluation: a revocation that is committed before the attempt
\* is, and even before its locks are taken, takes effect after the start of the
\* attempt's transaction.  So whatever consent is granted afterwards, no
\* transaction that starts once a revocation is in effect queues an attempt.
OnlyLateRevocationsEscape ==
    \A a \in attempts' \ attempts, r \in receipts :
        (/\ a.state = "queued" /\ r.status = "revoked"
         /\ r.channel = a.channel /\ r.purpose = a.purpose)
        => a.evaluatedAt < r.effectiveAt

\* Every step keeps both: nothing is queued but what consent and suppressions
\* permitted when the transaction began, and nothing by a transaction that began
\* after a revocation (enforce_communication_dispatch_policy_v1).
DispatchIsPermitted == [][QueuedIsPermitted /\ OnlyLateRevocationsEscape]_vars

\* Every transaction ends: the lock order of the hierarchy admits no cycle of
\* waiting transactions.
TransactionsEnd == \A c \in Clients : (txn[c] # Idle) ~> (txn[c] = Idle)
-----------------------------------------------------------------------------
(***************************************************************************)
(* The inductive invariant.  Whatever the subject, the last lock of the    *)
(* hierarchy is the one of any channel and any purpose: of the             *)
(* transactions that take locks, one at a time is between its triggers and *)
(* its commit, and what it was permitted it still is.                      *)
(***************************************************************************)
TakesLocks(t) == t.table = "attempts" => t.row.state = "queued"

WidestIsLast ==
    \A c \in Clients :
        (txn[c] # Idle /\ TakesLocks(txn[c])) =>
            LET todo == txn[c].todo IN
            IF todo = <<>> THEN held[<<Wildcard, Wildcard>>] = c
            ELSE todo[Len(todo)] = <<Wildcard, Wildcard>>

WrittenIsPermitted ==
    \A c \in Clients :
        (txn[c] # Idle /\ txn[c].at = "written") =>
            /\ txn[c].todo = <<>>
            /\ (txn[c].table = "attempts" /\ txn[c].row.state = "queued") =>
                MayQueue(txn[c].row, txn[c].now)

EvaluatedAtStart ==
    \A c \in Clients :
        (txn[c] # Idle /\ txn[c].table = "attempts" /\ txn[c].row.state = "queued") =>
            txn[c].row.evaluatedAt = txn[c].now

IndInv == TypeOK /\ WidestIsLast /\ WrittenIsPermitted /\ EvaluatedAtStart
=============================================================================
