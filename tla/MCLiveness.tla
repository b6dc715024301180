----------------------------- MODULE MCLiveness -----------------------------
(* Submissions under idempotency keys, which is the module it extends, and   *)
(* what must eventually happen, for TLC. A behaviour follows the component   *)
(* that "part" names.                                                        *)
EXTENDS SettingsIdempotentPublish, TLC

CONSTANTS
    Parts,
    sub1, retry, reuse, other, invalid,    \* submissions
    k1, k2, k3,                             \* their keys
    t1, c1, c2,                             \* a tenant, a card or connections
    p1, p2, good,                           \* publishers, a snapshot
    voice, callback, any, r1, s1, s2, a1    \* dispatch

VARIABLES
    part,
    versions, events, chain, cardLock, publisherPc, req, built, tx,
    clock, receipts, suppressions, audits, attempts, held, txn, started

publishVars == <<versions, events, chain, cardLock, publisherPc, req, built, tx>>
dispatchVars == <<clock, receipts, suppressions, audits, attempts, held, txn, started>>

\* Three submissions under one key (two of them the same request, one with
\* other content), one under another key and one that is not valid.
SomeKeyOf == [s \in Submissions |-> CASE s = other -> k2 [] s = invalid -> k3 [] OTHER -> k1]
SomeHashOf == [s \in Submissions |-> CASE s \in {sub1, retry} -> 1 [] s = reuse -> 2 [] s = other -> 3 [] OTHER -> 4]

\* A poor hash that separates neither snapshots nor times: what replaces 3 is 3.
CollidingId(st, s, t, v) ==
  IF v # None THEN 3 ELSE IF st = "published" THEN 2 ELSE 1

\* Archivals share one id.
CollidingEventId(e) == IF e.type = "published" THEN e.version ELSE 0

\* Two publishers of one card.
Publish == INSTANCE SettingsPublish WITH
    Cards <- {c1}, Tenants <- {t1}, Owner <- [c \in {c1} |-> t1], Snapshots <- {good},
    ValidSnapshots <- {good}, Times <- {1}, Keys <- {k1}, VersionIds <- 1..3,
    VersionId <- CollidingId, EventId <- CollidingEventId, Publishers <- {p1, p2}, Signing <- {TRUE, FALSE},
    EvidenceRequired <- FALSE, MaxChainEntries <- 1,
    NoVersion <- None, NoRow <- None, NoOne <- None, NoRequest <- None, NoEntry <- None,
    audit <- events, lock <- cardLock, pc <- publisherPc

\* Two connections whose transactions need several of the advisory locks.
Dispatch == INSTANCE CommunicationsDispatch WITH
    Clients <- {c1, c2}, Channels <- {voice}, Purposes <- {callback}, Wildcard <- any,
    ReceiptIds <- {r1}, SuppressionIds <- {s1, s2}, AttemptIds <- {a1},
    PolicyEnd <- 1, MaxClock <- 0, MaxTxns <- 2

InitOfPart ==
    /\ part \in Parts
    /\ Init
    /\ Publish!Init
    /\ Dispatch!Init

NextOfPart ==
    /\ UNCHANGED part
    /\ \/ part = "submissions" /\ Next /\ UNCHANGED <<publishVars, dispatchVars>>
       \/ part = "publish" /\ Publish!Next /\ UNCHANGED <<vars, dispatchVars>>
       \/ part = "dispatch" /\ Dispatch!Next /\ UNCHANGED <<vars, publishVars>>

\* The fairness of each module, for the component that moves.
SpecOfPart ==
    /\ InitOfPart /\ [][NextOfPart]_<<part, vars, publishVars, dispatchVars>>
    /\ \A p \in {p1, p2} : SF_publishVars(part = "publish" /\ Publish!Proceeds(p))
    /\ \A c \in {c1, c2} : SF_dispatchVars(part = "dispatch" /\ Dispatch!Step(c))

\* SettingsPublish: colliding ids leave no more behind than the card they abandon
\* and the event they drop.
CollisionsAreContained == Publish!CollisionsAreContained

\* SettingsPublish: every publish that was prepared ends, whoever holds the lock.
PublishEnds == Publish!PublishEnds

\* CommunicationsDispatch: every transaction ends, whatever locks it waits for.
TransactionsEnd == Dispatch!TransactionsEnd

=============================================================================
