-------------------------- MODULE SettingsPublish --------------------------
(***************************************************************************)
(* The settings publish transaction of @bidayax/settings.                  *)
(*                                                                         *)
(* Several publishers (API requests) publish new settings of executive     *)
(* cards at the same time.  Each one lists the card's versions, computes   *)
(* the publish result in memory (publishSettingsVersion) and then persists *)
(* it in one READ COMMITTED transaction                                    *)
(* (persistTrustedSettingsPublishTransactionally): build the trust         *)
(* evidence, lock the card row, archive the previous published version,    *)
(* insert the preview and the published version, insert the audit events,  *)
(* insert the evidence, commit.  Everything read before the lock (the      *)
(* version list and the audit chain) may be stale when it is used.         *)
(*                                                                         *)
(* The rows a transaction has written and not committed are in tx[p]; the  *)
(* committed tables are versions, audit and chain.  Drafts, previews and   *)
(* archived rows are never updated, so the result's re-inserts of the      *)
(* versions it listed are no-ops and only the published one can conflict.  *)
(***************************************************************************)
EXTENDS Naturals, Sequences, FiniteSets

CONSTANTS
  Cards,             \* rows of executive_card_profiles
  Tenants,
  Owner,             \* Owner[c]: tenant_id of card c
  Snapshots,         \* settings snapshots; a snapshot stands for its hash
  ValidSnapshots,    \* those that pass validateSettingsForPublish
  Times,             \* values of publishedAt
  Keys,              \* idempotency keys of trusted publishes
  VersionIds,        \* values of version_id
  VersionId(_,_,_,_),\* the 32-bit hash that names a version; may collide
  EventId(_),        \* the 32-bit hash that names an audit event; may collide
  Publishers,        \* concurrent publish requests
  Signing,           \* whether publishes have trust.signing: {TRUE}, {FALSE} or both
  EvidenceRequired,  \* trust.evidenceRequired of the deployment
  MaxChainEntries,   \* auditChainVerificationLimits.maxEntries
  NoVersion, NoRow, NoOne, NoRequest, NoEntry

Statuses == {"draft", "preview", "published", "archived"}
MaybeVersion == VersionIds \cup {NoVersion}

ASSUME ConstantsAssumption ==
  /\ Owner \in [Cards -> Tenants]
  /\ ValidSnapshots \subseteq Snapshots
  /\ Signing \subseteq BOOLEAN
  /\ EvidenceRequired \in BOOLEAN
  /\ MaxChainEntries \in Nat
  /\ NoVersion \notin VersionIds
  /\ NoOne \notin Publishers

\* createVersionId and createPublishedVersion always return a version_id.
ASSUME VersionIdAssumption ==
  \A st \in Statuses, s \in Snapshots, t \in Times, v \in MaybeVersion :
     VersionId(st, s, t, v) \in VersionIds

VARIABLES
  versions,   \* card_settings_versions: version_id -> row
  audit,      \* settings_audit_events
  chain,      \* chain[c]: the audit chain entries of stream settings:c, each
              \* with its trust event, envelope and provenance manifest
  lock,       \* lock[c]: who holds the FOR UPDATE lock on the card row
  pc,         \* where each publisher is
  req,        \* the publish result each publisher is persisting
  built,      \* sequence number of the evidence built, 0 for none
  tx          \* uncommitted writes of each publisher

vars == <<versions, audit, chain, lock, pc, req, built, tx>>

Row == [card : Cards, tenant : Tenants, snap : Snapshots,
        status : Statuses, prev : MaybeVersion]
AuditEvent == [type : {"published", "version.archived"}, card : Cards, version : VersionIds]
Entry == [version : VersionIds, at : Times, key : Keys]
Request == [card : Cards, tenant : Tenants, at : Times, key : Keys,
            signing : BOOLEAN, generated : BOOLEAN, ok : BOOLEAN,
            seen : MaybeVersion, previewId : VersionIds, preview : Row]
Steps == {"idle", "prepared", "built", "locked", "archived", "previewed",
          "released", "audited", "evidenced"}
Writes == [rows : [VersionIds -> Row \cup {NoRow}],
           audit : SUBSET AuditEvent, entry : Entry \cup {NoEntry}]

\* The null values are no rows.
ASSUME NullAssumption == NoRow \notin Row /\ NoRequest \notin Request /\ NoEntry \notin Entry

NoWrites == [rows |-> [v \in VersionIds |-> NoRow],
             audit |-> {}, entry |-> NoEntry]

Init ==
  /\ versions = [v \in VersionIds |-> NoRow]
  /\ audit = {}
  /\ chain = [c \in Cards |-> <<>>]
  /\ lock = [c \in Cards |-> NoOne]
  /\ pc = [p \in Publishers |-> "idle"]
  /\ req = [p \in Publishers |-> NoRequest]
  /\ built = [p \in Publishers |-> 0]
  /\ tx = [p \in Publishers |-> NoWrites]

-----------------------------------------------------------------------------
(***************************************************************************)
(* The tables as a transaction sees them, and the insert every version     *)
(* goes through.                                                           *)
(***************************************************************************)

\* The row of v that p's next statement reads: its own write, if any, or the
\* committed row (READ COMMITTED).
View(p, v) == IF tx[p].rows[v] # NoRow THEN tx[p].rows[v] ELSE versions[v]

\* row is the published version of tenant t's card c.
IsPublished(row, c, t) ==
  row # NoRow /\ row.card = c /\ row.tenant = t /\ row.status = "published"

\* Mutant: the index is missing.
PublishedIndexMissing(p, row) == TRUE

\* The partial unique index: one published row for a card and tenant.
PublishedIndexAllows(p, row) ==
  row.status = "published" =>
    \A v \in VersionIds : ~IsPublished(View(p, v), row.card, row.tenant)

\* The insert succeeds: the primary key is free (an uncommitted row of another
\* transaction with that key makes it wait), the previous version exists, the
\* tenant owns the card and the unique index has room.
Inserts(p, v, row) ==
  /\ View(p, v) = NoRow
  /\ \A q \in Publishers \ {p} : tx[q].rows[v] = NoRow
  /\ row.prev # NoVersion => View(p, row.prev) # NoRow
  /\ Owner[row.card] = row.tenant
  /\ PublishedIndexAllows(p, row)

\* The primary key is taken by a row that saveCardSettingsVersion accepts as
\* the same version.  Anything else is a SettingsPersistenceConflictError.
AlreadySaved(p, v, row) ==
  /\ View(p, v) # NoRow
  /\ View(p, v).card = row.card
  /\ View(p, v).tenant = row.tenant
  /\ View(p, v).snap = row.snap
  /\ View(p, v).status = row.status

WriteRow(p, v, row) == tx' = [tx EXCEPT ![p].rows[v] = row]

\* Mutant: ON CONFLICT DO UPDATE instead of DO NOTHING.
UpsertVersion(p, v, row) ==
  /\ Owner[row.card] = row.tenant
  /\ PublishedIndexAllows(p, row)
  /\ WriteRow(p, v, row)

SaveVersion(p, v, row) ==
  \/ /\ Inserts(p, v, row)
     /\ WriteRow(p, v, row)
  \/ /\ AlreadySaved(p, v, row)
     /\ UNCHANGED tx

-----------------------------------------------------------------------------
(***************************************************************************)
(* In memory: publishSettingsVersion                                       *)
(***************************************************************************)

PublishedId(r) == VersionId("published", r.preview.snap, r.at, r.seen)

\* Mutant: a version names the preview it was made from as its previous one.
PublishedRowOfPreview(r) == [r.preview EXCEPT !.status = "published", !.prev = r.previewId]

PublishedRow(r) == [r.preview EXCEPT !.status = "published", !.prev = r.seen]

EventOf(type, r, v) == [type |-> type, card |-> r.card, version |-> v]

\* Mutant: the event of an archival is emitted when nothing was archived.
EventsOfWithoutNullCheck(r) ==
  IF r.ok
    THEN {EventOf("published", r, PublishedId(r)), EventOf("version.archived", r, r.seen)}
    ELSE {}

\* The audit events of the result about released versions.  Events that are
\* always emitted together (the settings event and its receptionist twin) are
\* one element; those of a generated preview and of a failed validation say
\* nothing about a release and are left out.
EventsOf(r) ==
  (IF r.ok
     THEN {EventOf("published", r, PublishedId(r))}
     ELSE {})
  \cup
  (IF r.ok /\ r.seen # NoVersion
     THEN {EventOf("version.archived", r, r.seen)}
     ELSE {})

\* The published version in the list the caller read, findCurrentPublishedVersion.
\* A caller that passes no existingVersions finds none.
Listed(c, t, passed) ==
  IF passed /\ \E v \in VersionIds : IsPublished(versions[v], c, t)
    THEN CHOOSE v \in VersionIds : IsPublished(versions[v], c, t)
    ELSE NoVersion

\* The common part of a publish result: previewId names the version that is
\* validated and published.
PublishResult(c, t, at, k, signing, generated, seen, v, row) ==
  [card |-> c, tenant |-> t, at |-> at, key |-> k, signing |-> signing,
   generated |-> generated, seen |-> seen, previewId |-> v, preview |-> row,
   ok |-> row.status \in {"draft", "preview"} /\ row.snap \in ValidSnapshots]

\* Publishing a draft first generates its preview version; the draft's own
\* previousVersionId b is the version it was edited from, if any.
ResultFromDraft(c, t, at, k, signing, seen, s, b) ==
  PublishResult(c, t, at, k, signing, TRUE, seen,
    VersionId("preview", s, at, NoVersion),
    [card |-> c, tenant |-> t, snap |-> s, status |-> "preview", prev |-> b])

\* Publishing a stored version: its row as the caller read it.
ResultFromStored(c, t, at, k, signing, seen, v) ==
  PublishResult(c, t, at, k, signing, FALSE, seen, v, versions[v])

-----------------------------------------------------------------------------
(***************************************************************************)
(* The steps of a publisher                                                *)
(***************************************************************************)

\* List the card's versions and compute the publish result.  No transaction is
\* open, so the result may be persisted much later.
Prepare(p) ==
  /\ pc[p] = "idle"
  /\ \E c \in Cards, t \in Tenants, at \in Times, k \in Keys,
        signing \in Signing, passed \in BOOLEAN :
       LET seen == Listed(c, t, passed) IN
       \/ \E s \in Snapshots, b \in {NoVersion, seen} :
            req' = [req EXCEPT ![p] = ResultFromDraft(c, t, at, k, signing, seen, s, b)]
       \/ \E v \in VersionIds :
            /\ versions[v] # NoRow /\ versions[v].card = c /\ versions[v].tenant = t
            /\ req' = [req EXCEPT ![p] = ResultFromStored(c, t, at, k, signing, seen, v)]
  /\ pc' = [pc EXCEPT ![p] = "prepared"]
  /\ UNCHANGED <<versions, audit, chain, lock, built, tx>>

\* The chain read by priorAuditChain verifies, has room, and does not hold the
\* event already; the result is a published version.
CanBuildEvidence(r) ==
  /\ r.ok
  /\ Len(chain[r.card]) <= MaxChainEntries
  /\ \A i \in 1..Len(chain[r.card]) :
       ~ /\ chain[r.card][i].version = PublishedId(r)
         /\ chain[r.card][i].key = r.key

\* BEGIN, then buildEvidence when there is a signing key.  The chain is read
\* here, before the card is locked.
BuildEvidence(p) ==
  /\ pc[p] = "prepared"
  /\ EvidenceRequired => req[p].signing
  /\ req[p].signing => CanBuildEvidence(req[p])
  /\ built' = [built EXCEPT ![p] =
                 IF req[p].signing THEN Len(chain[req[p].card]) + 1 ELSE 0]
  /\ pc' = [pc EXCEPT ![p] = "built"]
  /\ UNCHANGED <<versions, audit, chain, lock, req, tx>>

\* Mutant: SELECT without FOR UPDATE.
ReadCard(p) ==
  /\ pc[p] = "built"
  /\ Owner[req[p].card] = req[p].tenant
  /\ pc' = [pc EXCEPT ![p] = "locked"]
  /\ UNCHANGED <<versions, audit, chain, lock, req, built, tx>>

\* lockExecutiveCardForSettingsPublish: SELECT ... FOR UPDATE waits for the
\* lock and finds no row when the card belongs to another tenant.
LockCard(p) ==
  /\ pc[p] = "built"
  /\ Owner[req[p].card] = req[p].tenant
  /\ lock[req[p].card] = NoOne
  /\ lock' = [lock EXCEPT ![req[p].card] = p]
  /\ pc' = [pc EXCEPT ![p] = "locked"]
  /\ UNCHANGED <<versions, audit, chain, req, built, tx>>

\* archiveCardSettingsVersion: an UPDATE that must find the listed version
\* still published.
ArchivePrevious(p) ==
  /\ pc[p] = "locked"
  /\ \/ /\ req[p].ok
        /\ req[p].seen # NoVersion
        /\ LET row == View(p, req[p].seen) IN
           /\ row # NoRow
           /\ row.card = req[p].card
           /\ row.tenant = req[p].tenant
           /\ row.status = "published"
           /\ WriteRow(p, req[p].seen, [row EXCEPT !.status = "archived"])
     \/ /\ ~req[p].ok \/ req[p].seen = NoVersion
        /\ UNCHANGED tx
  /\ pc' = [pc EXCEPT ![p] = "archived"]
  /\ UNCHANGED <<versions, audit, chain, lock, req, built>>

\* The result archives v: the loop over the result's versions passes by every
\* version with that id, be it the archived one or another whose hash is the same.
IsArchivedId(r, v) == r.ok /\ r.seen # NoVersion /\ v = r.seen

SaveUnlessArchived(p, v, row) ==
  \/ /\ IsArchivedId(req[p], v)
     /\ UNCHANGED tx
  \/ /\ ~IsArchivedId(req[p], v)
     /\ SaveVersion(p, v, row)

\* Save the listed versions and the preview.  Of a result that failed
\* validation the listed published version is saved again, which conflicts if
\* it was archived in the meantime.
SavePreview(p) ==
  /\ pc[p] = "archived"
  /\ ~req[p].ok /\ req[p].seen # NoVersion =>
       View(p, req[p].seen).status = "published"
  /\ SaveUnlessArchived(p, req[p].previewId, req[p].preview)
  /\ pc' = [pc EXCEPT ![p] = "previewed"]
  /\ UNCHANGED <<versions, audit, chain, lock, req, built>>

SavePublished(p) ==
  /\ pc[p] = "previewed"
  /\ \/ /\ req[p].ok
        /\ SaveUnlessArchived(p, PublishedId(req[p]), PublishedRow(req[p]))
     \/ /\ ~req[p].ok
        /\ UNCHANGED tx
  /\ pc' = [pc EXCEPT ![p] = "released"]
  /\ UNCHANGED <<versions, audit, chain, lock, req, built>>

\* Mutant: the audit events are written on another connection.
SaveAuditEventsOutside(p) ==
  /\ pc[p] = "released"
  /\ audit' = audit \cup EventsOf(req[p])
  /\ pc' = [pc EXCEPT ![p] = "audited"]
  /\ UNCHANGED <<versions, chain, lock, req, built, tx>>

\* ON CONFLICT (event_id) DO NOTHING: an event whose id another one has is not
\* stored.  The archival is saved before the release.
StoredEvents(r) ==
  {e \in EventsOf(r) :
     /\ \A f \in audit \ {e} : EventId(f) # EventId(e)
     /\ e.type = "published" => \A f \in EventsOf(r) \ {e} : EventId(f) # EventId(e)}

\* persistSettingsAuditEvents.  An insert waits for an uncommitted event of its
\* id; an event of another card in its place is a SettingsPersistenceConflictError.
SaveAuditEvents(p) ==
  /\ pc[p] = "released"
  /\ \A e \in EventsOf(req[p]) :
       /\ \A q \in Publishers \ {p} : \A f \in tx[q].audit : EventId(f) # EventId(e)
       /\ \A f \in audit : EventId(f) = EventId(e) => f.card = e.card
  /\ tx' = [tx EXCEPT ![p].audit = StoredEvents(req[p])]
  /\ pc' = [pc EXCEPT ![p] = "audited"]
  /\ UNCHANGED <<versions, audit, chain, lock, req, built>>

\* The unique constraints of the trust tables.  trust_events allows an
\* idempotency key once for a tenant (an uncommitted one makes the insert
\* wait); the manifest of a version and time exists once.
KeyIsFree(p) ==
  /\ \A c \in Cards : Owner[c] = req[p].tenant =>
       \A i \in 1..Len(chain[c]) : chain[c][i].key # req[p].key
  /\ \A q \in Publishers \ {p} :
       tx[q].entry # NoEntry /\ req[q].tenant = req[p].tenant =>
         tx[q].entry.key # req[p].key

\* Mutant: the manifest insert ignores conflicts.
ManifestAlwaysFree(r) == TRUE

ManifestIsFree(r) ==
  \A i \in 1..Len(chain[r.card]) :
    ~ /\ chain[r.card][i].version = PublishedId(r)
      /\ chain[r.card][i].at = r.at

\* persistEvidence: manifest, envelope, trust event and chain entry.  The append
\* trigger rejects a sequence number that does not follow the last entry.
PersistEvidence(p) ==
  /\ pc[p] = "audited"
  /\ \/ /\ built[p] # 0
        /\ ManifestIsFree(req[p])
        /\ KeyIsFree(p)
        /\ built[p] = Len(chain[req[p].card]) + 1
        /\ tx' = [tx EXCEPT ![p].entry =
             [version |-> PublishedId(req[p]), at |-> req[p].at, key |-> req[p].key]]
     \/ /\ built[p] = 0
        /\ ~EvidenceRequired
        /\ UNCHANGED tx
  /\ pc' = [pc EXCEPT ![p] = "evidenced"]
  /\ UNCHANGED <<versions, audit, chain, lock, req, built>>

\* Mutant: the connection goes back to the pool with its transaction open.
FinishHoldingLock(p) ==
  /\ pc' = [pc EXCEPT ![p] = "idle"]
  /\ req' = [req EXCEPT ![p] = NoRequest]
  /\ built' = [built EXCEPT ![p] = 0]
  /\ tx' = [tx EXCEPT ![p] = NoWrites]
  /\ UNCHANGED lock

\* The end of a transaction: locks are released and the request is answered.
Finish(p) ==
  /\ lock' = [c \in Cards |-> IF lock[c] = p THEN NoOne ELSE lock[c]]
  /\ pc' = [pc EXCEPT ![p] = "idle"]
  /\ req' = [req EXCEPT ![p] = NoRequest]
  /\ built' = [built EXCEPT ![p] = 0]
  /\ tx' = [tx EXCEPT ![p] = NoWrites]

Commit(p) ==
  /\ pc[p] = "evidenced"
  /\ versions' = [v \in VersionIds |-> View(p, v)]
  /\ audit' = audit \cup tx[p].audit
  /\ chain' = IF tx[p].entry = NoEntry
                THEN chain
                ELSE [chain EXCEPT ![req[p].card] = Append(@, tx[p].entry)]
  /\ Finish(p)

\* A statement failed, or the process or its connection died: nothing the
\* transaction wrote remains.
Rollback(p) ==
  /\ pc[p] # "idle"
  /\ Finish(p)
  /\ UNCHANGED <<versions, audit, chain>>

Step(p) ==
  \/ BuildEvidence(p) \/ LockCard(p) \/ ArchivePrevious(p) \/ SavePreview(p)
  \/ SavePublished(p) \/ SaveAuditEvents(p) \/ PersistEvidence(p) \/ Commit(p)

Next == \E p \in Publishers : Prepare(p) \/ Step(p) \/ Rollback(p)

-----------------------------------------------------------------------------
(***************************************************************************)
(* Fairness.  A statement that does not wait for another transaction       *)
(* returns or throws, and either way the publisher goes on.  PostgreSQL    *)
(* queues the waiters of a lock, so a lock that is released again and      *)
(* again is not refused to one waiter forever: strong fairness.            *)
(***************************************************************************)
WaitsForRow(p, v) == \E q \in Publishers \ {p} : tx[q].rows[v] # NoRow

Waits(p) ==
  \/ pc[p] = "built" /\ lock[req[p].card] \notin {NoOne, p}
  \/ pc[p] = "archived" /\ WaitsForRow(p, req[p].previewId)
  \/ pc[p] = "previewed" /\ WaitsForRow(p, PublishedId(req[p]))
  \/ pc[p] = "released" /\ \E q \in Publishers \ {p} : tx[q].audit # {}
  \/ pc[p] = "audited" /\ \E q \in Publishers \ {p} : tx[q].entry # NoEntry

Proceeds(p) == Step(p) \/ (~Waits(p) /\ Rollback(p))

Spec == Init /\ [][Next]_vars

FairSpec == Spec /\ \A p \in Publishers : SF_vars(Proceeds(p))

-----------------------------------------------------------------------------
(***************************************************************************)
(* Properties                                                              *)
(***************************************************************************)

TypeOK ==
  /\ versions \in [VersionIds -> Row \cup {NoRow}]
  /\ audit \subseteq AuditEvent
  /\ chain \in [Cards -> Seq(Entry)]
  /\ lock \in [Cards -> Publishers \cup {NoOne}]
  /\ pc \in [Publishers -> Steps]
  /\ req \in [Publishers -> Request \cup {NoRequest}]
  /\ built \in [Publishers -> Nat]
  /\ tx \in [Publishers -> Writes]

\* v is a version of card c that is or was published.
IsReleased(row, c) ==
  row # NoRow /\ row.card = c /\ row.status \in {"published", "archived"}

Released(v, c) == IsReleased(versions[v], c)

Current(v, c) == Released(v, c) /\ versions[v].status = "published"

\* The hash of some version that replaces v is v itself.  A publish of that
\* version archives v and inserts nothing.
SelfNamed(v) == \E s \in Snapshots, t \in Times : VersionId("published", s, t, v) = v

\* No release of c can be replaced by a version of its own id.
Intact(c) == \A v \in VersionIds : Released(v, c) => ~SelfNamed(v)

\* Readers of a card (getPublishedCardSettingsVersion) never find two published
\* versions, and, as long as the card is intact, never find it without one once
\* it had one, whatever stale results were persisted and whichever transactions
\* failed half way.
AlwaysOneCurrent ==
  \A c \in Cards :
    /\ \A v, w \in VersionIds : Current(v, c) /\ Current(w, c) => v = w
    /\ Intact(c) /\ (\E v \in VersionIds : Released(v, c)) =>
         \E v \in VersionIds : Current(v, c)

\* The history of an intact card does not fork and no publish is lost: two
\* releases never replace the same version (or both claim to be the first), and
\* what a release replaced is an archived release of the same card.
LinearHistory ==
  \A c \in Cards, v \in VersionIds : Intact(c) /\ Released(v, c) =>
    /\ \A w \in VersionIds :
         Released(w, c) /\ versions[w].prev = versions[v].prev => w = v
    /\ versions[v].prev # NoVersion =>
         /\ Released(versions[v].prev, c)
         /\ versions[versions[v].prev].status = "archived"

\* Different audit events have different ids.
EventIdsDiffer == \A e, f \in AuditEvent : EventId(e) = EventId(f) => e = f

\* The audit trail and the versions agree, unless the ids of two events collide:
\* every release and every archival that took effect was audited, and nothing was
\* audited that did not happen.
AuditMatchesVersions ==
  EventIdsDiffer => \A v \in VersionIds :
    /\ (\E e \in audit : e.type = "published" /\ e.version = v)
         <=> \E c \in Cards : Released(v, c)
    /\ (\E e \in audit : e.type = "version.archived" /\ e.version = v)
         <=> \E c \in Cards : Released(v, c) /\ ~Current(v, c)

\* The trail tells of no release and no archival that did not take effect.
TrailIsTrue ==
  \A e \in audit :
    /\ Released(e.version, e.card)
    /\ e.type = "version.archived" => ~Current(e.version, e.card)

\* Whatever ids collide: the trail may lack an event whose id was taken, and tells
\* of no release and no archival that did not take effect; a card that was
\* published and has no current version was left so by a publish of the id of
\* the version it replaced.
CollisionsAreContained ==
  /\ TrailIsTrue
  /\ \A c \in Cards : (\A v \in VersionIds : ~Current(v, c)) =>
       \A v \in VersionIds : Released(v, c) =>
         \E w \in VersionIds : Released(w, c) /\ SelfNamed(w)

\* Where evidence is required, the tamper-evident chain of a card lists its
\* releases exactly in the order in which they replaced each other, up to the
\* current one, although the chain is read before the card is locked.
EvidenceFollowsHistory ==
  EvidenceRequired =>
    \A c \in Cards :
      LET n == Len(chain[c]) IN
      /\ \A i \in 1..n :
           /\ Released(chain[c][i].version, c)
           /\ versions[chain[c][i].version].prev =
                IF i = 1 THEN NoVersion ELSE chain[c][i-1].version
           /\ i = n <=> Current(chain[c][i].version, c)
      /\ n = 0 => \A v \in VersionIds : ~Released(v, c)

\* The chain stops growing one entry past the limit the verifier accepts.
ChainIsBounded == \A c \in Cards : Len(chain[c]) <= MaxChainEntries + 1

\* A committed version never changes and never disappears; the one exception
\* is that a published version becomes archived with the rest of its row kept.
VersionsAreImmutable ==
  [][\A v \in VersionIds : versions[v] # NoRow =>
       \/ versions'[v] = versions[v]
       \/ /\ versions[v].status = "published"
          /\ versions'[v] = [versions[v] EXCEPT !.status = "archived"]]_vars

\* Every publish that was started is answered: no lock is left behind that
\* makes later publishers of the card wait forever.
PublishEnds == \A p \in Publishers : pc[p] = "prepared" ~> pc[p] = "idle"

-----------------------------------------------------------------------------
(***************************************************************************)
(* The inductive invariant behind AlwaysOneCurrent and LinearHistory.  The *)
(* two speak about committed rows only; they are preserved because the     *)
(* lock makes the writer of a card unique, and because of what a           *)
(* transaction has pending at each of its steps.                           *)
(***************************************************************************)
Writing == {"locked", "archived", "previewed", "released", "audited", "evidenced"}
Archiving == Writing \ {"locked"}
Publishing == {"released", "audited", "evidenced"}

\* A publisher that is under way has a request.
Busy == \A p \in Publishers : pc[p] # "idle" => req[p] \in Request

\* Only the holder of the lock on its card has written anything, and it writes
\* rows of that card only.
WritesLockedCard(p) ==
  /\ pc[p] \in Writing => /\ lock[req[p].card] = p
                          /\ Owner[req[p].card] = req[p].tenant
  /\ \A v \in VersionIds : tx[p].rows[v] # NoRow =>
       /\ pc[p] \in Archiving
       /\ tx[p].rows[v].card = req[p].card
       /\ tx[p].rows[v].tenant = req[p].tenant

\* Versions belong to the owner of their card.
OwnersMatch ==
  \A v \in VersionIds : versions[v] # NoRow => versions[v].tenant = Owner[versions[v].card]

\* What a publisher inserts as its preview is new and not released.
PreviewIsNew(p) == pc[p] # "idle" =>
  /\ req[p].preview.card = req[p].card
  /\ req[p].preview.tenant = req[p].tenant
  /\ req[p].generated => req[p].preview.status = "preview"
  /\ ~req[p].generated => versions[req[p].previewId] # NoRow

\* A pending row is a new one nobody else inserts, or the archived form of the
\* committed published version that the publisher had listed.
PendingRows(p) ==
  \A v \in VersionIds : tx[p].rows[v] # NoRow =>
    IF versions[v] = NoRow
      THEN /\ \A q \in Publishers \ {p} : tx[q].rows[v] = NoRow
           /\ \/ tx[p].rows[v].status = "preview"
              \/ /\ pc[p] \in Publishing /\ req[p].ok
                 /\ v = PublishedId(req[p])
                 /\ tx[p].rows[v] = PublishedRow(req[p])
      ELSE /\ versions[v].status = "published"
           /\ tx[p].rows[v] = [versions[v] EXCEPT !.status = "archived"]
           /\ req[p].ok /\ v = req[p].seen

\* The version that was listed is archived ...
ArchivesListed(p) ==
  pc[p] \in Archiving /\ req[p].ok /\ req[p].seen # NoVersion =>
    tx[p].rows[req[p].seen] # NoRow /\ versions[req[p].seen] # NoRow

\* ... together with the insert of the one that replaces it, unless that one has
\* its id; a repeated first publish inserts and archives nothing.
InsertsReplacement(p) ==
  pc[p] \in Publishing /\ req[p].ok =>
    LET v == PublishedId(req[p]) IN
    \/ /\ versions[v] = NoRow
       /\ tx[p].rows[v] = PublishedRow(req[p])
       /\ \A w \in VersionIds \ {v} : ~IsPublished(View(p, w), req[p].card, req[p].tenant)
    \/ req[p].seen = NoVersion /\ tx[p].rows[v] = NoRow
    \/ IsArchivedId(req[p], v)

PublisherInv(p) ==
  /\ WritesLockedCard(p) /\ PreviewIsNew(p) /\ PendingRows(p)
  /\ ArchivesListed(p) /\ InsertsReplacement(p)

IndInv ==
  /\ TypeOK /\ Busy
  /\ OwnersMatch
  /\ \A p \in Publishers : PublisherInv(p)
  /\ AlwaysOneCurrent
  /\ LinearHistory

-----------------------------------------------------------------------------
(***************************************************************************)
(* What the audit trail and the chain of evidence rest on besides IndInv:  *)
(* what is pending of them at each step, and that a publish which inserted *)
(* nothing repeats a release.                                              *)
(***************************************************************************)
RepeatsRelease(p) ==
  pc[p] \in Publishing /\ req[p].ok /\ tx[p].rows[PublishedId(req[p])] = NoRow =>
    Released(PublishedId(req[p]), req[p].card)

PendingAudit(p) == EventIdsDiffer =>
  tx[p].audit = IF pc[p] \in {"audited", "evidenced"} THEN EventsOf(req[p]) ELSE {}

AuditInv ==
  /\ AuditMatchesVersions
  /\ \A p \in Publishers : RepeatsRelease(p) /\ PendingAudit(p)

\* What is pending of the trail are events of the result that is persisted, whether
\* or not all of them found their ids free.
PendingIsOwn(p) ==
  tx[p].audit \subseteq IF pc[p] \in {"audited", "evidenced"} THEN EventsOf(req[p]) ELSE {}

TrailInv == TrailIsTrue /\ \A p \in Publishers : PendingIsOwn(p)

\* A pending entry is numbered after the chain as it is now, although it was
\* numbered before the card was locked.
PendingEntry(p) ==
  /\ built[p] <= MaxChainEntries + 1
  /\ tx[p].entry # NoEntry =>
       /\ pc[p] = "evidenced"
       /\ built[p] = Len(chain[req[p].card]) + 1
       /\ tx[p].entry = [version |-> PublishedId(req[p]), at |-> req[p].at, key |-> req[p].key]

ChainInv == ChainIsBounded /\ \A p \in Publishers : PendingEntry(p)

\* No version replaces one of its own id.
ReplacementsDiffer == \A v \in VersionIds : ~SelfNamed(v)

\* Published versions of different times have different ids.
TimesSeparate ==
  \A s, z \in Snapshots, t, u \in Times, v, w \in MaybeVersion :
    VersionId("published", s, t, v) = VersionId("published", z, u, w) => t = u

\* Where evidence is required every release has its entry, whose time is the
\* one the release's id was made from, and who has a pending entry a new release.
Covered(v, c) == \E i \in 1..Len(chain[c]) : chain[c][i].version = v

EntriesAreDated ==
  \A c \in Cards : \A i \in 1..Len(chain[c]) :
    \E s \in Snapshots, v \in MaybeVersion :
      chain[c][i].version = VersionId("published", s, chain[c][i].at, v)

WithEvidence(p) ==
  /\ pc[p] \in Writing \cup {"built"} => req[p].ok /\ built[p] # 0
  /\ pc[p] = "evidenced" => /\ tx[p].entry # NoEntry
                            /\ tx[p].rows[PublishedId(req[p])] # NoRow
                            /\ ~IsArchivedId(req[p], PublishedId(req[p]))

EvidenceInv ==
  /\ EvidenceFollowsHistory /\ EntriesAreDated
  /\ \A c \in Cards, v \in VersionIds : Released(v, c) => Covered(v, c)
  /\ \A p \in Publishers : WithEvidence(p)

-----------------------------------------------------------------------------
(***************************************************************************)
(* The publish transaction implements SettingsHistory.                     *)
(***************************************************************************)
HeadOf(c) == IF \E v \in VersionIds : Current(v, c)
               THEN CHOOSE v \in VersionIds : Current(v, c)
               ELSE NoVersion

ReleaseOf(v) == IF \E c \in Cards : Released(v, c)
                  THEN [card |-> versions[v].card, snap |-> versions[v].snap,
                        replaces |-> versions[v].prev]
                  ELSE NoRow

History == INSTANCE SettingsHistory WITH
             head <- [c \in Cards |-> HeadOf(c)],
             release <- [v \in VersionIds |-> ReleaseOf(v)],
             NoRelease <- NoRow

\* A reader sees each card's releases take effect one at a time, each replacing
\* the one that was current when it took effect.
ImplementsHistory == History!Spec

=============================================================================
