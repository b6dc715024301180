----------------------- MODULE SettingsPublish_proofs -----------------------
(***************************************************************************)
(* Proofs about SettingsPublish, for every set of cards, publishers,       *)
(* snapshots, times and keys, and for every version id function, colliding *)
(* or not.                                                                 *)
(***************************************************************************)
EXTENDS SettingsPublish, TLAPS

-----------------------------------------------------------------------------
(***************************************************************************)
(* Types                                                                   *)
(***************************************************************************)

\* The row a statement reads is a row of the table or none.
LEMMA ViewType ==
  ASSUME TypeOK, NEW p \in Publishers, NEW v \in VersionIds
  PROVE  View(p, v) \in Row \cup {NoRow}
BY DEF TypeOK, View, Writes

\* The listed version is a version id or none (findCurrentPublishedVersion).
LEMMA ListedType ==
  ASSUME NEW c, NEW t, NEW passed
  PROVE  Listed(c, t, passed) \in MaybeVersion
BY DEF Listed, MaybeVersion

\* publishSettingsVersion yields ids and rows of the right kind.
LEMMA PrepareType ==
  ASSUME TypeOK, NEW p \in Publishers, Prepare(p)
  PROVE  \E r \in Request : req' = [req EXCEPT ![p] = r]
<1>1. PICK c \in Cards, t \in Tenants, at \in Times, k \in Keys,
           signing \in Signing, passed \in BOOLEAN :
        \/ \E s \in Snapshots, b \in {NoVersion, Listed(c, t, passed)} :
             req' = [req EXCEPT ![p] =
                       ResultFromDraft(c, t, at, k, signing, Listed(c, t, passed), s, b)]
        \/ \E v \in VersionIds :
             /\ versions[v] # NoRow /\ versions[v].card = c /\ versions[v].tenant = t
             /\ req' = [req EXCEPT ![p] =
                       ResultFromStored(c, t, at, k, signing, Listed(c, t, passed), v)]
  BY DEF Prepare
<1> DEFINE seen == Listed(c, t, passed)
<1>2. seen \in MaybeVersion
  BY ListedType
<1> HIDE DEF seen
<1>3. ASSUME NEW s \in Snapshots, NEW b \in {NoVersion, seen}
      PROVE  ResultFromDraft(c, t, at, k, signing, seen, s, b) \in Request
  <2>1. VersionId("preview", s, at, NoVersion) \in VersionIds
    BY VersionIdAssumption DEF Statuses, MaybeVersion
  <2> QED
    BY <1>2, <2>1, ConstantsAssumption DEF ResultFromDraft, PublishResult, Request, Row, Statuses, MaybeVersion
<1>4. ASSUME NEW v \in VersionIds, versions[v] # NoRow
      PROVE  ResultFromStored(c, t, at, k, signing, seen, v) \in Request
  <2>1. versions[v] \in Row
    BY <1>4 DEF TypeOK
  <2> QED
    BY <1>2, <2>1, ConstantsAssumption DEF ResultFromStored, PublishResult, Request
<1> QED
  BY <1>1, <1>3, <1>4 DEF seen

\* The id and the row that createPublishedVersion makes are well typed.
LEMMA PublishedTypes ==
  ASSUME NEW r \in Request
  PROVE  /\ PublishedId(r) \in VersionIds
         /\ PublishedRow(r) \in Row
<1>1. PublishedId(r) \in VersionIds
  BY VersionIdAssumption DEF PublishedId, Request, Row, Statuses
<1>2. PublishedRow(r) \in Row
  BY DEF PublishedRow, Request, Row, Statuses
<1> QED
  BY <1>1, <1>2

\* The audit events of a result are audit events: an archival is only audited
\* when a version was listed.
LEMMA EventsType ==
  ASSUME NEW r \in Request
  PROVE  EventsOf(r) \subseteq AuditEvent
<1>1. r.seen # NoVersion => r.seen \in VersionIds
  BY DEF Request, MaybeVersion
<1> QED
  BY <1>1, PublishedTypes DEF EventsOf, EventOf, AuditEvent, Request

\* Writing one row keeps the pending writes well typed.
LEMMA RowWriteType ==
  ASSUME TypeOK, NEW p \in Publishers, NEW v \in VersionIds, NEW row \in Row,
         WriteRow(p, v, row)
  PROVE  tx' \in [Publishers -> Writes]
<1>1. tx[p] \in Writes
  BY DEF TypeOK
<1>2. [tx[p] EXCEPT !.rows = [@ EXCEPT ![v] = row]] \in Writes
  BY <1>1 DEF Writes
<1> QED
  BY <1>2 DEF TypeOK, WriteRow

\* saveCardSettingsVersion keeps the pending writes well typed.
LEMMA SaveVersionType ==
  ASSUME TypeOK, NEW p \in Publishers, NEW v \in VersionIds, NEW row \in Row,
         SaveVersion(p, v, row)
  PROVE  tx' \in [Publishers -> Writes]
BY RowWriteType DEF SaveVersion, TypeOK

\* So does passing by a version whose id was archived.
LEMMA SaveUnlessArchivedType ==
  ASSUME TypeOK, NEW p \in Publishers, NEW v \in VersionIds, NEW row \in Row,
         SaveUnlessArchived(p, v, row)
  PROVE  tx' \in [Publishers -> Writes]
<1>1. CASE SaveVersion(p, v, row)
  BY <1>1, SaveVersionType
<1>2. CASE UNCHANGED tx
  BY <1>2 DEF TypeOK
<1> QED
  BY <1>1, <1>2 DEF SaveUnlessArchived

\* A transaction that has written nothing is well typed.
LEMMA NoWritesType == NoWrites \in Writes
BY DEF NoWrites, Writes

\* The empty tables are well typed.
LEMMA InitTypes == Init => TypeOK /\ Busy
BY ConstantsAssumption, NoWritesType DEF Init, TypeOK, Busy, Steps

\* The end of a transaction keeps the types.
LEMMA FinishTypes ==
  ASSUME TypeOK, Busy, NEW p \in Publishers, Finish(p)
  PROVE  /\ lock' \in [Cards -> Publishers \cup {NoOne}]
         /\ pc' \in [Publishers -> Steps]
         /\ req' \in [Publishers -> Request \cup {NoRequest}]
         /\ built' \in [Publishers -> Nat]
         /\ tx' \in [Publishers -> Writes]
         /\ Busy'
BY NoWritesType DEF Finish, TypeOK, Busy, Steps

\* Every step of a publisher keeps the types.
LEMMA NextTypes ==
  ASSUME TypeOK, Busy, Next
  PROVE  TypeOK' /\ Busy'
<1> PICK p \in Publishers : Prepare(p) \/ Step(p) \/ Rollback(p)
  BY DEF Next
<1>0. pc[p] # "idle" => req[p] \in Request
  BY DEF Busy
<1>1. CASE Prepare(p)
  <2>1. PICK r \in Request : req' = [req EXCEPT ![p] = r]
    BY <1>1, PrepareType
  <2> QED
    BY <1>1, <2>1 DEF Prepare, TypeOK, Busy, Steps
<1>2. CASE BuildEvidence(p)
  <2>1. req[p].card \in Cards /\ req[p].signing \in BOOLEAN
    BY <1>0, <1>2 DEF BuildEvidence, Request
  <2>2. Len(chain[req[p].card]) + 1 \in Nat
    BY <2>1 DEF TypeOK
  <2> QED
    BY <1>2, <2>2 DEF BuildEvidence, TypeOK, Busy, Steps
<1>3. CASE LockCard(p)
  BY <1>3 DEF LockCard, TypeOK, Busy, Steps
<1>4. CASE ArchivePrevious(p)
  <2>1. req[p] \in Request
    BY <1>0, <1>4 DEF ArchivePrevious
  <2>2. tx' \in [Publishers -> Writes]
    <3>1. CASE UNCHANGED tx
      BY <3>1 DEF TypeOK
    <3>2. CASE /\ req[p].seen # NoVersion
               /\ View(p, req[p].seen) # NoRow
               /\ WriteRow(p, req[p].seen,
                           [View(p, req[p].seen) EXCEPT !.status = "archived"])
      <4>1. req[p].seen \in VersionIds
        BY <2>1, <3>2 DEF Request, MaybeVersion
      <4>2. View(p, req[p].seen) \in Row
        BY <3>2, <4>1, ViewType
      <4>3. [View(p, req[p].seen) EXCEPT !.status = "archived"] \in Row
        BY <4>2 DEF Row, Statuses
      <4> QED
        BY <3>2, <4>1, <4>3, RowWriteType
    <3> QED
      BY <1>4, <3>1, <3>2 DEF ArchivePrevious
  <2> QED
    BY <1>4, <2>2 DEF ArchivePrevious, TypeOK, Busy, Steps
<1>5. CASE SavePreview(p)
  <2>1. req[p].previewId \in VersionIds /\ req[p].preview \in Row
    BY <1>0, <1>5 DEF SavePreview, Request
  <2>2. tx' \in [Publishers -> Writes]
    BY <1>5, <2>1, SaveUnlessArchivedType DEF SavePreview
  <2> QED
    BY <1>5, <2>2 DEF SavePreview, TypeOK, Busy, Steps
<1>6. CASE SavePublished(p)
  <2>1. PublishedId(req[p]) \in VersionIds /\ PublishedRow(req[p]) \in Row
    BY <1>0, <1>6, PublishedTypes DEF SavePublished
  <2>2. tx' \in [Publishers -> Writes]
    <3>1. CASE UNCHANGED tx
      BY <3>1 DEF TypeOK
    <3>2. CASE SaveUnlessArchived(p, PublishedId(req[p]), PublishedRow(req[p]))
      BY <2>1, <3>2, SaveUnlessArchivedType
    <3> QED
      BY <1>6, <3>1, <3>2 DEF SavePublished
  <2> QED
    BY <1>6, <2>2 DEF SavePublished, TypeOK, Busy, Steps
<1>7. CASE SaveAuditEvents(p)
  <2>1. StoredEvents(req[p]) \subseteq AuditEvent
    BY <1>0, <1>7, EventsType DEF SaveAuditEvents, StoredEvents
  <2>10. tx' = [tx EXCEPT ![p].audit = StoredEvents(req[p])]
    BY <1>7 DEF SaveAuditEvents
  <2>11. tx[p] \in Writes /\ tx \in [Publishers -> Writes]
    BY DEF TypeOK
  <2>12. [tx[p] EXCEPT !.audit = StoredEvents(req[p])] \in Writes
    BY <2>1, <2>11 DEF Writes
  <2>2. tx' \in [Publishers -> Writes]
    BY <2>10, <2>11, <2>12
  <2> QED
    BY <1>7, <2>2 DEF SaveAuditEvents, TypeOK, Busy, Steps
<1>8. CASE PersistEvidence(p)
  <2> DEFINE e == [version |-> PublishedId(req[p]), at |-> req[p].at, key |-> req[p].key]
  <2>1. e \in Entry
    BY <1>0, <1>8, PublishedTypes DEF PersistEvidence, Entry, Request
  <2> HIDE DEF e
  <2>2. tx' = [tx EXCEPT ![p].entry = e] \/ UNCHANGED tx
    BY <1>8 DEF PersistEvidence, e
  <2>3. tx' \in [Publishers -> Writes]
    <3>1. tx[p] \in Writes
      BY DEF TypeOK
    <3>2. [tx[p] EXCEPT !.entry = e] \in Writes
      BY <2>1, <3>1 DEF Writes
    <3> QED
      BY <2>2, <3>2 DEF TypeOK
  <2> QED
    BY <1>8, <2>3 DEF PersistEvidence, TypeOK, Busy, Steps
<1>9. CASE Commit(p)
  <2>1. req[p].card \in Cards
    BY <1>0, <1>9 DEF Commit, Request
  <2>2. versions' \in [VersionIds -> Row \cup {NoRow}]
    BY <1>9, ViewType DEF Commit
  <2>3. tx[p].audit \subseteq AuditEvent /\ tx[p].entry \in Entry \cup {NoEntry}
    BY DEF TypeOK, Writes
  <2>4. chain' \in [Cards -> Seq(Entry)]
    BY <1>9, <2>1, <2>3 DEF Commit, TypeOK
  <2>5. audit' \subseteq AuditEvent
    BY <1>9, <2>3 DEF Commit, TypeOK
  <2> QED
    BY <1>9, <2>2, <2>4, <2>5, FinishTypes DEF Commit, TypeOK
<1>10. CASE Rollback(p)
  BY <1>10, FinishTypes DEF Rollback, TypeOK
<1> QED
  BY <1>1, <1>2, <1>3, <1>4, <1>5, <1>6, <1>7, <1>8, <1>9, <1>10 DEF Step

\* A stuttering step keeps the types.
LEMMA StutterTypes ==
  ASSUME TypeOK, Busy, UNCHANGED vars
  PROVE  TypeOK' /\ Busy'
BY DEF TypeOK, Busy, vars

\* Every reachable state of the publish transaction is well typed.
THEOREM TypeCorrect == Spec => []TypeOK
<1>1. Init => TypeOK /\ Busy
  BY InitTypes
<1>2. TypeOK /\ Busy /\ [Next]_vars => (TypeOK /\ Busy)'
  BY NextTypes, StutterTypes
<1> QED
  BY <1>1, <1>2, PTL DEF Spec

-----------------------------------------------------------------------------
(***************************************************************************)
(* The inductive invariant                                                 *)
(***************************************************************************)

\* The empty tables satisfy the inductive invariant.
LEMMA InitInv == Init => IndInv
<1> SUFFICES ASSUME Init PROVE IndInv
  OBVIOUS
<1>1. TypeOK /\ Busy
  BY InitTypes
<1>2. \A v \in VersionIds : versions[v] = NoRow
  BY DEF Init
<1>3. OwnersMatch /\ AlwaysOneCurrent /\ LinearHistory
  BY <1>2 DEF OwnersMatch, AlwaysOneCurrent, LinearHistory, Current, Released, IsReleased
<1>4. \A p \in Publishers : pc[p] = "idle" /\ \A v \in VersionIds : tx[p].rows[v] = NoRow
  BY DEF Init, NoWrites
<1>5. \A p \in Publishers : PublisherInv(p)
  BY <1>4 DEF PublisherInv, WritesLockedCard, PreviewIsNew, PendingRows, ArchivesListed,
     InsertsReplacement, Writing, Archiving, Publishing
<1> QED
  BY <1>1, <1>3, <1>5 DEF IndInv

\* What concerns committed rows only changes with a commit.
LEMMA SameVersions ==
  ASSUME OwnersMatch, AlwaysOneCurrent, LinearHistory, versions' = versions
  PROVE  OwnersMatch' /\ AlwaysOneCurrent' /\ LinearHistory'
BY DEF OwnersMatch, AlwaysOneCurrent, LinearHistory, Current, Released, IsReleased, Intact, SelfNamed

\* A step of p that changes no committed row does not disturb another publisher
\* q, provided that it leaves q's lock alone and writes no row that q inserts.
LEMMA OthersUndisturbed ==
  ASSUME NEW p \in Publishers, NEW q \in Publishers \ {p}, PublisherInv(q),
         versions' = versions, pc'[q] = pc[q], req'[q] = req[q], tx'[q] = tx[q],
         \A c \in Cards : lock[c] = q => lock'[c] = q,
         pc[q] # "idle" => req[q].card \in Cards,
         \A r \in Publishers, v \in VersionIds :
           tx[q].rows[v] # NoRow /\ versions[v] = NoRow /\ r # q /\ tx[r].rows[v] = NoRow
             => tx'[r].rows[v] = NoRow
  PROVE  PublisherInv(q)'
<1>1. WritesLockedCard(q)'
  BY DEF PublisherInv, WritesLockedCard, Writing, Archiving
<1>2. PreviewIsNew(q)'
  BY DEF PublisherInv, PreviewIsNew
<1>3. PendingRows(q)'
  BY DEF PublisherInv, PendingRows
<1>4. ArchivesListed(q)'
  BY DEF PublisherInv, ArchivesListed
<1>5. InsertsReplacement(q)'
  BY DEF PublisherInv, InsertsReplacement, View
<1> QED
  BY <1>1, <1>2, <1>3, <1>4, <1>5 DEF PublisherInv

\* A step of p that keeps its pending rows and moves to a step at which nothing
\* new is claimed about them.
LEMMA QuietStep ==
  ASSUME NEW p \in Publishers, PublisherInv(p), versions' = versions,
         req'[p] = req[p], pc[p] # "idle",
         \A q \in Publishers : tx'[q].rows = tx[q].rows,
         pc'[p] \in Writing => lock'[req[p].card] = p /\ Owner[req[p].card] = req[p].tenant,
         pc[p] \in Archiving => pc'[p] \in Archiving,
         pc[p] \in Publishing => pc'[p] \in Publishing,
         pc'[p] \in Archiving => pc[p] \in Archiving,
         pc'[p] \in Publishing => pc[p] \in Publishing
  PROVE  PublisherInv(p)'
<1>1. WritesLockedCard(p)'
  BY DEF PublisherInv, WritesLockedCard
<1>2. PreviewIsNew(p)'
  BY DEF PublisherInv, PreviewIsNew
<1>3. PendingRows(p)'
  BY DEF PublisherInv, PendingRows
<1>4. ArchivesListed(p)'
  BY DEF PublisherInv, ArchivesListed
<1>5. InsertsReplacement(p)'
  BY DEF PublisherInv, InsertsReplacement, View
<1> QED
  BY <1>1, <1>2, <1>3, <1>4, <1>5 DEF PublisherInv

\* Computing a publish result writes nothing, and its preview is new or stored.
LEMMA PrepareInv ==
  ASSUME IndInv, TypeOK', Busy', NEW p \in Publishers, Prepare(p)
  PROVE  IndInv'
<1>1. OwnersMatch' /\ AlwaysOneCurrent' /\ LinearHistory'
  BY SameVersions DEF Prepare, IndInv
<1>2. ASSUME NEW q \in Publishers \ {p} PROVE PublisherInv(q)'
  <2>1. pc[q] # "idle" => req[q].card \in Cards
    BY DEF IndInv, Busy, Request
  <2>2. pc'[q] = pc[q] /\ req'[q] = req[q]
    BY PrepareType DEF Prepare, IndInv, TypeOK
  <2> QED
    BY <2>1, <2>2, OthersUndisturbed DEF Prepare, IndInv
<1>3. PublisherInv(p)'
  <2>1. pc'[p] = "prepared" /\ tx' = tx /\ pc[p] = "idle"
    BY DEF Prepare, IndInv, TypeOK
  <2>2. \A v \in VersionIds : tx[p].rows[v] = NoRow
    BY <2>1 DEF IndInv, PublisherInv, WritesLockedCard, Archiving, Writing
  <2>3. PreviewIsNew(p)'
    <3>1. PICK c \in Cards, t \in Tenants, at \in Times, k \in Keys,
               signing \in Signing, passed \in BOOLEAN :
            \/ \E s \in Snapshots, b \in {NoVersion, Listed(c, t, passed)} :
                 req' = [req EXCEPT ![p] =
                           ResultFromDraft(c, t, at, k, signing, Listed(c, t, passed), s, b)]
            \/ \E v \in VersionIds :
                 /\ versions[v] # NoRow /\ versions[v].card = c /\ versions[v].tenant = t
                 /\ req' = [req EXCEPT ![p] =
                           ResultFromStored(c, t, at, k, signing, Listed(c, t, passed), v)]
      BY DEF Prepare
    <3>2. versions' = versions /\ p \in DOMAIN req
      BY DEF Prepare, IndInv, TypeOK
    <3> QED
      BY <3>1, <3>2 DEF PreviewIsNew, ResultFromDraft, ResultFromStored, PublishResult
  <2> QED
    BY <2>1, <2>2, <2>3 DEF PublisherInv, WritesLockedCard, PendingRows, ArchivesListed,
       InsertsReplacement, Writing, Archiving, Publishing
<1> QED
  BY <1>1, <1>2, <1>3 DEF IndInv

\* Building the evidence before the lock writes nothing.
LEMMA BuildEvidenceInv ==
  ASSUME IndInv, TypeOK', Busy', NEW p \in Publishers, BuildEvidence(p)
  PROVE  IndInv'
<1>1. OwnersMatch' /\ AlwaysOneCurrent' /\ LinearHistory'
  BY SameVersions DEF BuildEvidence, IndInv
<1>2. ASSUME NEW q \in Publishers \ {p} PROVE PublisherInv(q)'
  <2>1. pc[q] # "idle" => req[q].card \in Cards
    BY DEF IndInv, Busy, Request
  <2> QED
    BY <2>1, OthersUndisturbed DEF BuildEvidence, IndInv, TypeOK
<1>3. PublisherInv(p)'
  BY QuietStep DEF BuildEvidence, IndInv, TypeOK, Writing, Archiving, Publishing
<1> QED
  BY <1>1, <1>2, <1>3 DEF IndInv

\* Taking the card lock makes the publisher the only writer of the card.
LEMMA LockCardInv ==
  ASSUME IndInv, TypeOK', Busy', NEW p \in Publishers, LockCard(p)
  PROVE  IndInv'
<1>1. OwnersMatch' /\ AlwaysOneCurrent' /\ LinearHistory'
  BY SameVersions DEF LockCard, IndInv
<1>2. ASSUME NEW q \in Publishers \ {p} PROVE PublisherInv(q)'
  <2>1. pc[q] # "idle" => req[q].card \in Cards
    BY DEF IndInv, Busy, Request
  <2>2. \A c \in Cards : lock[c] = q => lock'[c] = q
    BY ConstantsAssumption DEF LockCard, IndInv, TypeOK
  <2> QED
    BY <2>1, <2>2, OthersUndisturbed DEF LockCard, IndInv, TypeOK
<1>3. PublisherInv(p)'
  <2>1. req[p].card \in Cards
    BY DEF LockCard, IndInv, Busy, Request
  <2>2. lock'[req[p].card] = p
    BY <2>1 DEF LockCard, IndInv, TypeOK
  <2> QED
    BY <2>2, QuietStep DEF LockCard, IndInv, TypeOK, Writing, Archiving, Publishing
<1> QED
  BY <1>1, <1>2, <1>3 DEF IndInv

\* Saving the audit events leaves the pending versions alone.
LEMMA SaveAuditEventsInv ==
  ASSUME IndInv, TypeOK', Busy', NEW p \in Publishers, SaveAuditEvents(p)
  PROVE  IndInv'
<1>0. \A q \in Publishers : tx'[q].rows = tx[q].rows
  BY DEF SaveAuditEvents, IndInv, TypeOK, Writes
<1>1. OwnersMatch' /\ AlwaysOneCurrent' /\ LinearHistory'
  BY SameVersions DEF SaveAuditEvents, IndInv
<1>2. ASSUME NEW q \in Publishers \ {p} PROVE PublisherInv(q)'
  <2>1. pc[q] # "idle" => req[q].card \in Cards
    BY DEF IndInv, Busy, Request
  <2>2. pc'[q] = pc[q] /\ tx'[q] = tx[q]
    BY DEF SaveAuditEvents, IndInv, TypeOK
  <2> QED
    BY <1>0, <2>1, <2>2, OthersUndisturbed DEF SaveAuditEvents, IndInv
<1>3. PublisherInv(p)'
  <2>1. pc[p] = "released" /\ pc'[p] = "audited" /\ req' = req /\ lock' = lock
    BY DEF SaveAuditEvents, IndInv, TypeOK
  <2>2. lock[req[p].card] = p /\ Owner[req[p].card] = req[p].tenant
    BY <2>1 DEF IndInv, PublisherInv, WritesLockedCard, Writing
  <2> QED
    BY <1>0, <2>1, <2>2, QuietStep
       DEF SaveAuditEvents, IndInv, Writing, Archiving, Publishing
<1> QED
  BY <1>1, <1>2, <1>3 DEF IndInv

\* Writing the chain entry leaves the pending rows alone.
LEMMA EntryWrite ==
  ASSUME TypeOK, NEW p \in Publishers, NEW e, tx' = [tx EXCEPT ![p].entry = e]
  PROVE  \A q \in Publishers : tx'[q].rows = tx[q].rows
<1>1. tx \in [Publishers -> Writes] /\ tx[p] \in Writes
  BY DEF TypeOK
<1>2. tx'[p].rows = tx[p].rows
  BY <1>1 DEF Writes
<1>3. \A q \in Publishers \ {p} : tx'[q] = tx[q]
  BY <1>1
<1> QED
  BY <1>2, <1>3

\* Persisting the evidence leaves the pending versions alone.
LEMMA PersistEvidenceInv ==
  ASSUME IndInv, TypeOK', Busy', NEW p \in Publishers, PersistEvidence(p)
  PROVE  IndInv'
<1> DEFINE e == [version |-> PublishedId(req[p]), at |-> req[p].at, key |-> req[p].key]
<1>0. tx' = [tx EXCEPT ![p].entry = e] \/ tx' = tx
  BY DEF PersistEvidence
<1> HIDE DEF e
<1>1. \A q \in Publishers : tx'[q].rows = tx[q].rows
  BY <1>0, EntryWrite DEF IndInv
<1>2. OwnersMatch' /\ AlwaysOneCurrent' /\ LinearHistory'
  BY SameVersions DEF PersistEvidence, IndInv
<1>3. ASSUME NEW q \in Publishers \ {p} PROVE PublisherInv(q)'
  <2>1. pc[q] # "idle" => req[q].card \in Cards
    BY DEF IndInv, Busy, Request
  <2>2. pc'[q] = pc[q] /\ tx'[q] = tx[q]
    BY <1>0 DEF PersistEvidence, IndInv, TypeOK
  <2> QED
    BY <1>1, <2>1, <2>2, OthersUndisturbed DEF PersistEvidence, IndInv
<1>4. PublisherInv(p)'
  <2>1. pc[p] = "audited" /\ pc'[p] = "evidenced" /\ req' = req /\ lock' = lock
    BY DEF PersistEvidence, IndInv, TypeOK
  <2>2. lock[req[p].card] = p /\ Owner[req[p].card] = req[p].tenant
    BY <2>1 DEF IndInv, PublisherInv, WritesLockedCard, Writing
  <2> QED
    BY <1>1, <2>1, <2>2, QuietStep
       DEF PersistEvidence, IndInv, Writing, Archiving, Publishing
<1> QED
  BY <1>2, <1>3, <1>4 DEF IndInv

-----------------------------------------------------------------------------
(***************************************************************************)
(* The steps that write rows                                               *)
(***************************************************************************)

\* What a row write does to the pending rows.
LEMMA RowWrite ==
  ASSUME TypeOK, NEW p \in Publishers, NEW v \in VersionIds, NEW row,
         WriteRow(p, v, row)
  PROVE  /\ tx'[p].rows[v] = row
         /\ \A w \in VersionIds \ {v} : tx'[p].rows[w] = tx[p].rows[w]
         /\ \A q \in Publishers \ {p} : tx'[q] = tx[q]
BY DEF TypeOK, Writes, WriteRow

\* The archival makes the archived form of the listed version pending.
LEMMA ArchivePreviousInv ==
  ASSUME IndInv, TypeOK', Busy', NEW p \in Publishers, ArchivePrevious(p)
  PROVE  IndInv'
<1> DEFINE s == req[p].seen
           row == [versions[s] EXCEPT !.status = "archived"]
<1>1. /\ pc[p] = "locked" /\ pc' = [pc EXCEPT ![p] = "archived"]
      /\ versions' = versions /\ req' = req /\ lock' = lock
      /\ pc'[p] = "archived"
  BY DEF ArchivePrevious, IndInv, TypeOK
<1>2. \A v \in VersionIds : tx[p].rows[v] = NoRow
  BY <1>1 DEF IndInv, PublisherInv, WritesLockedCard, Archiving, Writing
<1>3. req[p] \in Request
  BY <1>1 DEF IndInv, Busy
<1>4. \/ /\ req[p].ok /\ s \in VersionIds
         /\ versions[s] # NoRow /\ versions[s].status = "published"
         /\ versions[s].card = req[p].card /\ versions[s].tenant = req[p].tenant
         /\ WriteRow(p, s, row)
      \/ (~req[p].ok \/ s = NoVersion) /\ tx' = tx
  <2>1. CASE req[p].ok /\ s # NoVersion
    <3>1. s \in VersionIds
      BY <1>3, <2>1 DEF Request, MaybeVersion
    <3>2. View(p, s) = versions[s]
      BY <1>2, <3>1 DEF View
    <3> QED
      BY <2>1, <3>1, <3>2 DEF ArchivePrevious
  <2>2. CASE ~req[p].ok \/ s = NoVersion
    BY <2>2 DEF ArchivePrevious
  <2> QED
    BY <2>1, <2>2
<1>5. OwnersMatch' /\ AlwaysOneCurrent' /\ LinearHistory'
  BY <1>1, SameVersions DEF IndInv
<1>6. \A q \in Publishers \ {p} : tx'[q] = tx[q]
  BY <1>4, RowWrite DEF IndInv
<1>7. ASSUME NEW q \in Publishers \ {p} PROVE PublisherInv(q)'
  <2>1. pc[q] # "idle" => req[q].card \in Cards
    BY DEF IndInv, Busy, Request
  <2>2. pc'[q] = pc[q] /\ req'[q] = req[q]
    BY <1>1 DEF IndInv, TypeOK
  <2>3. \A r \in Publishers, v \in VersionIds :
          versions[v] = NoRow /\ tx[r].rows[v] = NoRow => tx'[r].rows[v] = NoRow
    BY <1>4, <1>6, RowWrite DEF IndInv
  <2> QED
    BY <1>1, <1>6, <2>1, <2>2, <2>3, OthersUndisturbed DEF IndInv
<1>8. PublisherInv(p)'
  <2>1. lock[req[p].card] = p /\ Owner[req[p].card] = req[p].tenant
    BY <1>1 DEF IndInv, PublisherInv, WritesLockedCard, Writing
  <2>2. PreviewIsNew(p)'
    BY <1>1 DEF IndInv, PublisherInv, PreviewIsNew
  <2>3. InsertsReplacement(p)'
    BY <1>1 DEF InsertsReplacement, Publishing
  <2>4. CASE /\ req[p].ok /\ s \in VersionIds
             /\ versions[s] # NoRow /\ versions[s].status = "published"
             /\ versions[s].card = req[p].card /\ versions[s].tenant = req[p].tenant
             /\ WriteRow(p, s, row)
    <3>1. versions[s] \in Row
      BY <2>4 DEF IndInv, TypeOK
    <3>2. row \in Row /\ row.card = versions[s].card /\ row.tenant = versions[s].tenant
      BY <3>1 DEF Row, Statuses
    <3> HIDE DEF row, s
    <3>3. /\ tx'[p].rows[s] = row
          /\ \A w \in VersionIds \ {s} : tx'[p].rows[w] = NoRow
      BY <1>2, <2>4, RowWrite DEF IndInv
    <3>4. row # NoRow
      BY <3>2, NullAssumption
    <3>5. \A v \in VersionIds : tx'[p].rows[v] # NoRow => v = s /\ tx'[p].rows[v] = row
      BY <3>3
    <3>6. WritesLockedCard(p)'
      <4>1. pc'[p] \in Archiving /\ req'[p] = req[p] /\ lock' = lock
        BY <1>1 DEF Writing, Archiving
      <4>2. row.card = req[p].card /\ row.tenant = req[p].tenant
        BY <2>4, <3>2
      <4> QED
        BY <2>1, <3>5, <4>1, <4>2 DEF WritesLockedCard
    <3>7. PendingRows(p)'
      <4>1. row = [versions[s] EXCEPT !.status = "archived"] /\ s = req'[p].seen
        BY <1>1 DEF row, s
      <4>2. versions' = versions /\ req'[p] = req[p]
        BY <1>1
      <4> QED
        BY <2>4, <3>5, <4>1, <4>2 DEF PendingRows
    <3>8. ArchivesListed(p)'
      BY <1>1, <2>4, <3>3, <3>4 DEF ArchivesListed, s
    <3> QED
      BY <2>2, <2>3, <3>6, <3>7, <3>8 DEF PublisherInv
  <2>5. CASE (~req[p].ok \/ s = NoVersion) /\ tx' = tx
    BY <1>1, <1>2, <2>1, <2>2, <2>3, <2>5 DEF PublisherInv, WritesLockedCard, PendingRows,
       ArchivesListed, Writing, Archiving
  <2> QED
    BY <1>4, <2>4, <2>5
<1> QED
  BY <1>5, <1>7, <1>8 DEF IndInv

\* A row inserted by p conflicts with no pending row of another publisher.
LEMMA InsertOthers ==
  ASSUME IndInv, NEW p \in Publishers, NEW v \in VersionIds, NEW row,
         Inserts(p, v, row), WriteRow(p, v, row),
         versions' = versions, lock' = lock, req' = req,
         NEW q \in Publishers \ {p}, pc'[q] = pc[q]
  PROVE  PublisherInv(q)'
<1>1. pc[q] # "idle" => req[q].card \in Cards
  BY DEF IndInv, Busy, Request
<1>2. /\ \A r \in Publishers \ {p} : tx'[r] = tx[r]
      /\ \A w \in VersionIds \ {v} : tx'[p].rows[w] = tx[p].rows[w]
  BY RowWrite DEF IndInv
<1>3. tx[q].rows[v] = NoRow
  BY DEF Inserts
<1>4. \A r \in Publishers, w \in VersionIds :
        tx[q].rows[w] # NoRow /\ tx[r].rows[w] = NoRow => tx'[r].rows[w] = NoRow
  BY <1>2, <1>3
<1> QED
  BY <1>1, <1>2, <1>4, OthersUndisturbed DEF IndInv

\* What an insert does to the inserting publisher.
LEMMA InsertOwn ==
  ASSUME IndInv, NEW p \in Publishers, NEW v \in VersionIds, NEW row \in Row,
         Inserts(p, v, row), WriteRow(p, v, row),
         versions' = versions, lock' = lock, req' = req,
         pc[p] \in Archiving, pc'[p] \in Archiving, pc[p] \notin Publishing,
         row.card = req[p].card, row.tenant = req[p].tenant,
         \/ row.status = "preview"
         \/ /\ pc'[p] \in Publishing /\ req[p].ok
            /\ v = PublishedId(req[p]) /\ row = PublishedRow(req[p])
  PROVE  WritesLockedCard(p)' /\ PreviewIsNew(p)' /\ PendingRows(p)' /\ ArchivesListed(p)'
<1>1. /\ tx'[p].rows[v] = row
      /\ \A w \in VersionIds \ {v} : tx'[p].rows[w] = tx[p].rows[w]
      /\ \A q \in Publishers \ {p} : tx'[q] = tx[q]
  BY RowWrite DEF IndInv
<1>2. row # NoRow
  BY NullAssumption
<1>3. versions[v] = NoRow /\ tx[p].rows[v] = NoRow
  BY DEF Inserts, View
<1>4. PublisherInv(p)
  BY DEF IndInv
<1>5. WritesLockedCard(p)'
  <2>1. pc[p] \in Writing /\ pc'[p] \in Writing
    BY DEF Archiving
  <2> QED
    BY <1>1, <1>4, <2>1 DEF PublisherInv, WritesLockedCard
<1>6. PreviewIsNew(p)'
  BY <1>4 DEF PublisherInv, PreviewIsNew, Archiving, Writing
<1>7. PendingRows(p)'
  <2> SUFFICES ASSUME NEW w \in VersionIds, tx'[p].rows[w] # NoRow
               PROVE  IF versions[w] = NoRow
                 THEN /\ \A q \in Publishers \ {p} : tx'[q].rows[w] = NoRow
                      /\ \/ tx'[p].rows[w].status = "preview"
                         \/ /\ pc'[p] \in Publishing /\ req[p].ok
                            /\ w = PublishedId(req[p])
                            /\ tx'[p].rows[w] = PublishedRow(req[p])
                 ELSE /\ versions[w].status = "published"
                      /\ tx'[p].rows[w] = [versions[w] EXCEPT !.status = "archived"]
                      /\ req[p].ok /\ w = req[p].seen
    BY DEF PendingRows
  <2>1. CASE w = v
    BY <1>1, <1>3, <2>1 DEF Inserts
  <2>2. CASE w # v
    BY <1>1, <1>4, <2>2 DEF PublisherInv, PendingRows
  <2> QED
    BY <2>1, <2>2
<1>8. ArchivesListed(p)'
  <2>1. req[p] \in Request
    BY DEF IndInv, Busy, Archiving, Writing
  <2> SUFFICES ASSUME req[p].ok, req[p].seen # NoVersion
               PROVE  tx'[p].rows[req[p].seen] # NoRow /\ versions[req[p].seen] # NoRow
    BY DEF ArchivesListed
  <2>2. req[p].seen \in VersionIds
    BY <2>1 DEF Request, MaybeVersion
  <2>3. tx[p].rows[req[p].seen] # NoRow /\ versions[req[p].seen] # NoRow
    BY <1>4 DEF PublisherInv, ArchivesListed
  <2> QED
    BY <1>1, <1>3, <2>2, <2>3
<1> QED
  BY <1>5, <1>6, <1>7, <1>8

\* Saving the preview adds at most one unreleased row.
LEMMA SavePreviewInv ==
  ASSUME IndInv, TypeOK', Busy', NEW p \in Publishers, SavePreview(p)
  PROVE  IndInv'
<1>1. /\ pc[p] = "archived" /\ pc'[p] = "previewed"
      /\ \A q \in Publishers \ {p} : pc'[q] = pc[q]
      /\ versions' = versions /\ req' = req /\ lock' = lock
  BY DEF SavePreview, IndInv, TypeOK
<1>2. /\ req[p] \in Request /\ req[p].previewId \in VersionIds /\ req[p].preview \in Row
      /\ PublisherInv(p)
  BY <1>1 DEF IndInv, Busy, Request
<1>3. OwnersMatch' /\ AlwaysOneCurrent' /\ LinearHistory'
  BY <1>1, SameVersions DEF IndInv
<1>4. \A q \in Publishers : PublisherInv(q)'
  <2>1. CASE /\ Inserts(p, req[p].previewId, req[p].preview)
             /\ WriteRow(p, req[p].previewId, req[p].preview)
    <3>1. ASSUME NEW q \in Publishers \ {p} PROVE PublisherInv(q)'
      BY <1>1, <1>2, <2>1, InsertOthers
    <3>2. versions[req[p].previewId] = NoRow
      BY <2>1 DEF Inserts, View
    <3>3. /\ req[p].preview.status = "preview"
          /\ req[p].preview.card = req[p].card /\ req[p].preview.tenant = req[p].tenant
      BY <1>1, <1>2, <3>2 DEF PublisherInv, PreviewIsNew, Request
    <3>4. pc[p] \in Archiving /\ pc'[p] \in Archiving
          /\ pc[p] \notin Publishing /\ pc'[p] \notin Publishing
      BY <1>1 DEF Writing, Archiving, Publishing
    <3>5. WritesLockedCard(p)' /\ PreviewIsNew(p)' /\ PendingRows(p)' /\ ArchivesListed(p)'
      BY <1>1, <1>2, <2>1, <3>3, <3>4, InsertOwn
    <3>6. InsertsReplacement(p)'
      BY <3>4 DEF InsertsReplacement
    <3> QED
      BY <3>1, <3>5, <3>6 DEF PublisherInv
  <2>2. CASE tx' = tx
    <3>1. ASSUME NEW q \in Publishers \ {p} PROVE PublisherInv(q)'
      <4>1. pc[q] # "idle" => req[q].card \in Cards
        BY DEF IndInv, Busy, Request
      <4> QED
        BY <1>1, <2>2, <4>1, OthersUndisturbed DEF IndInv
    <3>2. lock[req[p].card] = p /\ Owner[req[p].card] = req[p].tenant
      BY <1>1, <1>2 DEF PublisherInv, WritesLockedCard, Writing
    <3>3. PublisherInv(p)'
      BY <1>1, <1>2, <2>2, <3>2, QuietStep DEF Writing, Archiving, Publishing
    <3> QED
      BY <3>1, <3>3
  <2> QED
    BY <2>1, <2>2 DEF SavePreview, SaveUnlessArchived, SaveVersion
<1> QED
  BY <1>3, <1>4 DEF IndInv

\* The version p archives is the current one of its card.
LEMMA ListedIsCurrent ==
  ASSUME IndInv, NEW p \in Publishers, pc[p] \in Archiving, req[p].ok,
         req[p].seen # NoVersion
  PROVE  /\ req[p].seen \in VersionIds
         /\ Current(req[p].seen, req[p].card)
         /\ tx[p].rows[req[p].seen] = [versions[req[p].seen] EXCEPT !.status = "archived"]
         /\ tx[p].rows[req[p].seen] # NoRow
<1> DEFINE s == req[p].seen
<1>1. req[p] \in Request /\ PublisherInv(p)
  BY DEF IndInv, Busy, Archiving, Writing
<1>2. s \in VersionIds
  BY <1>1 DEF Request, MaybeVersion
<1>3. tx[p].rows[s] # NoRow /\ versions[s] # NoRow
  BY <1>1 DEF PublisherInv, ArchivesListed
<1> HIDE DEF s
<1>4. /\ versions[s].status = "published"
      /\ tx[p].rows[s] = [versions[s] EXCEPT !.status = "archived"]
      /\ tx[p].rows[s].card = req[p].card
  BY <1>1, <1>2, <1>3 DEF PublisherInv, PendingRows, WritesLockedCard
<1>5. versions[s] \in Row
  BY <1>2, <1>3 DEF IndInv, TypeOK
<1>6. versions[s].card = req[p].card
  BY <1>4, <1>5 DEF Row
<1> QED
  BY <1>2, <1>3, <1>4, <1>6 DEF Current, Released, IsReleased, s

\* Saving the published version adds the replacement of the archived one, or
\* repeats a first publish.
LEMMA SavePublishedInv ==
  ASSUME IndInv, TypeOK', Busy', NEW p \in Publishers, SavePublished(p)
  PROVE  IndInv'
<1> DEFINE v == PublishedId(req[p])
           row == PublishedRow(req[p])
<1>1. /\ pc[p] = "previewed" /\ pc'[p] = "released"
      /\ \A q \in Publishers \ {p} : pc'[q] = pc[q]
      /\ versions' = versions /\ req' = req /\ lock' = lock
  BY DEF SavePublished, IndInv, TypeOK
<1>2. req[p] \in Request /\ PublisherInv(p) /\ v \in VersionIds /\ row \in Row
  BY <1>1, PublishedTypes DEF IndInv, Busy
<1>3. /\ row.card = req[p].card /\ row.tenant = req[p].tenant
      /\ row.status = "published"
  BY <1>1, <1>2 DEF PublisherInv, PreviewIsNew, PublishedRow, Request, Row
<1>4. OwnersMatch' /\ AlwaysOneCurrent' /\ LinearHistory'
  BY <1>1, SameVersions DEF IndInv
<1>5. /\ pc[p] \in Archiving /\ pc'[p] \in Archiving
      /\ pc[p] \notin Publishing /\ pc'[p] \in Publishing
  BY <1>1 DEF Writing, Archiving, Publishing
<1>6. \/ req[p].ok /\ Inserts(p, v, row) /\ WriteRow(p, v, row)
      \/ req[p].ok /\ AlreadySaved(p, v, row) /\ tx' = tx
      \/ (req[p].ok => IsArchivedId(req[p], v)) /\ tx' = tx
  BY DEF SavePublished, SaveUnlessArchived, SaveVersion
<1> HIDE DEF v, row
<1>7. CASE req[p].ok /\ Inserts(p, v, row) /\ WriteRow(p, v, row)
  <2>1. ASSUME NEW q \in Publishers \ {p} PROVE PublisherInv(q)'
    BY <1>1, <1>2, <1>7, InsertOthers
  <2>2. v = PublishedId(req[p]) /\ row = PublishedRow(req[p])
    BY DEF v, row
  <2>3. WritesLockedCard(p)' /\ PreviewIsNew(p)' /\ PendingRows(p)' /\ ArchivesListed(p)'
    BY <1>1, <1>2, <1>3, <1>5, <1>7, <2>2, InsertOwn
  <2>4. InsertsReplacement(p)'
    <3>1. /\ tx'[p].rows[v] = row
          /\ \A w \in VersionIds \ {v} : tx'[p].rows[w] = tx[p].rows[w]
      BY <1>2, <1>7, RowWrite DEF IndInv
    <3>2. versions[v] = NoRow
      BY <1>7 DEF Inserts, View
    <3>3. \A w \in VersionIds : ~IsPublished(View(p, w), req[p].card, req[p].tenant)
      BY <1>3, <1>7 DEF Inserts, PublishedIndexAllows
    <3>4. \A w \in VersionIds \ {v} : View(p, w)' = View(p, w)
      BY <1>1, <3>1 DEF View
    <3>5. \A w \in VersionIds \ {v} : ~IsPublished(View(p, w)', req[p].card, req[p].tenant)
      BY <3>3, <3>4
    <3> QED
      BY <1>1, <2>2, <3>1, <3>2, <3>5 DEF InsertsReplacement, IsPublished
  <2> QED
    BY <1>4, <2>1, <2>3, <2>4 DEF IndInv, PublisherInv
<1>8. ASSUME tx' = tx,
             req[p].ok => \/ req[p].seen = NoVersion /\ tx[p].rows[v] = NoRow
                          \/ IsArchivedId(req[p], v)
      PROVE  IndInv'
  <2>1. ASSUME NEW q \in Publishers \ {p} PROVE PublisherInv(q)'
    <3>1. pc[q] # "idle" => req[q].card \in Cards
      BY DEF IndInv, Busy, Request
    <3> QED
      BY <1>1, <1>8, <3>1, OthersUndisturbed DEF IndInv
  <2>2. WritesLockedCard(p)' /\ PreviewIsNew(p)' /\ ArchivesListed(p)'
    <3>1. lock[req[p].card] = p /\ Owner[req[p].card] = req[p].tenant
      BY <1>1, <1>2 DEF PublisherInv, WritesLockedCard, Writing
    <3> QED
      BY <1>1, <1>2, <1>5, <1>8, <3>1 DEF PublisherInv, WritesLockedCard, PreviewIsNew, ArchivesListed
  <2>3. PendingRows(p)'
    BY <1>1, <1>2, <1>5, <1>8 DEF PublisherInv, PendingRows
  <2>4. InsertsReplacement(p)'
    BY <1>1, <1>8 DEF InsertsReplacement, IsArchivedId, PublishedId, v
  <2> QED
    BY <1>4, <2>1, <2>2, <2>3, <2>4 DEF IndInv, PublisherInv
<1>9. CASE req[p].ok /\ AlreadySaved(p, v, row) /\ tx' = tx
  <2>1. View(p, v) # NoRow /\ View(p, v).card = req[p].card /\ View(p, v).status = "published"
    BY <1>3, <1>9 DEF AlreadySaved
  <2>2. tx[p].rows[v] = NoRow
    <3> SUFFICES ASSUME tx[p].rows[v] # NoRow PROVE FALSE
      OBVIOUS
    <3>1. tx[p].rows[v].status = "published"
      BY <2>1 DEF View
    <3>2. CASE versions[v] = NoRow
      BY <1>2, <1>5, <3>1, <3>2 DEF PublisherInv, PendingRows
    <3>3. CASE versions[v] # NoRow
      <4>1. versions[v] \in Row
        BY <1>2, <3>3 DEF IndInv, TypeOK
      <4>2. tx[p].rows[v] = [versions[v] EXCEPT !.status = "archived"]
        BY <1>2, <3>3 DEF PublisherInv, PendingRows
      <4> QED
        BY <3>1, <4>1, <4>2 DEF Row
    <3> QED
      BY <3>2, <3>3
  <2>3. Current(v, req[p].card)
    BY <2>1, <2>2 DEF View, Current, Released, IsReleased
  <2>4. req[p].seen = NoVersion
    <3> SUFFICES ASSUME req[p].seen # NoVersion PROVE FALSE
      OBVIOUS
    <3>1. /\ req[p].seen \in VersionIds /\ Current(req[p].seen, req[p].card)
          /\ tx[p].rows[req[p].seen] # NoRow
      BY <1>5, <1>9, ListedIsCurrent
    <3>2. req[p].card \in Cards
      BY <1>2 DEF Request
    <3> QED
      BY <1>2, <2>2, <2>3, <3>1, <3>2 DEF IndInv, AlwaysOneCurrent
  <2> QED
    BY <1>8, <1>9, <2>2, <2>4
<1> QED
  BY <1>6, <1>7, <1>8, <1>9

\* The end of a transaction, as far as the publishers are concerned.
LEMMA FinishPublisher ==
  ASSUME IndInv, NEW p \in Publishers, Finish(p)
  PROVE  /\ PublisherInv(p)'
         /\ \A v \in VersionIds : tx'[p].rows[v] = NoRow
         /\ \A q \in Publishers \ {p} : /\ pc'[q] = pc[q] /\ req'[q] = req[q] /\ tx'[q] = tx[q]
                                        /\ \A c \in Cards : lock[c] = q => lock'[c] = q
<1>1. tx'[p] = NoWrites /\ pc'[p] = "idle"
  BY DEF Finish, IndInv, TypeOK
<1>2. \A v \in VersionIds : tx'[p].rows[v] = NoRow
  BY <1>1 DEF NoWrites
<1>3. PublisherInv(p)'
  BY <1>1, <1>2 DEF PublisherInv, WritesLockedCard, PreviewIsNew, PendingRows,
     ArchivesListed, InsertsReplacement, Writing, Archiving, Publishing
<1>4. ASSUME NEW q \in Publishers \ {p}
      PROVE  /\ pc'[q] = pc[q] /\ req'[q] = req[q] /\ tx'[q] = tx[q]
             /\ \A c \in Cards : lock[c] = q => lock'[c] = q
  BY DEF Finish, IndInv, TypeOK
<1> QED
  BY <1>2, <1>3, <1>4

\* A rollback or crash leaves the committed tables and the other publishers alone.
LEMMA RollbackInv ==
  ASSUME IndInv, TypeOK', Busy', NEW p \in Publishers, Rollback(p)
  PROVE  IndInv'
<1>1. versions' = versions /\ Finish(p)
  BY DEF Rollback
<1>2. OwnersMatch' /\ AlwaysOneCurrent' /\ LinearHistory'
  BY <1>1, SameVersions DEF IndInv
<1>3. ASSUME NEW q \in Publishers \ {p} PROVE PublisherInv(q)'
  <2>1. pc[q] # "idle" => req[q].card \in Cards
    BY DEF IndInv, Busy, Request
  <2>2. \A r \in Publishers, v \in VersionIds : tx[r].rows[v] = NoRow => tx'[r].rows[v] = NoRow
    BY <1>1, FinishPublisher
  <2>3. /\ pc'[q] = pc[q] /\ req'[q] = req[q] /\ tx'[q] = tx[q]
        /\ \A c \in Cards : lock[c] = q => lock'[c] = q
    BY <1>1, FinishPublisher
  <2> QED
    BY <1>1, <2>1, <2>2, <2>3, OthersUndisturbed DEF IndInv
<1> QED
  BY <1>1, <1>2, <1>3, FinishPublisher DEF IndInv

-----------------------------------------------------------------------------
(***************************************************************************)
(* The commit                                                              *)
(***************************************************************************)

\* Two publishers that write hold the locks of two cards.
LEMMA DifferentCards ==
  ASSUME IndInv, NEW p \in Publishers, NEW q \in Publishers \ {p},
         pc[p] \in Writing, pc[q] \in Writing
  PROVE  req[p].card # req[q].card
BY DEF IndInv, PublisherInv, WritesLockedCard

\* Two publishers never have a row of the same id pending.
LEMMA DisjointWrites ==
  ASSUME IndInv, NEW p \in Publishers, NEW q \in Publishers \ {p},
         NEW v \in VersionIds, tx[p].rows[v] # NoRow
  PROVE  tx[q].rows[v] = NoRow
<1> SUFFICES ASSUME tx[q].rows[v] # NoRow PROVE FALSE
  OBVIOUS
<1>1. PublisherInv(p) /\ PublisherInv(q)
  BY DEF IndInv
<1>2. versions[v] # NoRow
  BY <1>1 DEF PublisherInv, PendingRows
<1>3. versions[v] \in Row
  BY <1>2 DEF IndInv, TypeOK
<1>4. /\ tx[p].rows[v] = [versions[v] EXCEPT !.status = "archived"]
      /\ tx[q].rows[v] = [versions[v] EXCEPT !.status = "archived"]
  BY <1>1, <1>2 DEF PublisherInv, PendingRows
<1>5. /\ tx[p].rows[v].card = req[p].card /\ tx[q].rows[v].card = req[q].card
      /\ pc[p] \in Writing /\ pc[q] \in Writing
  BY <1>1 DEF PublisherInv, WritesLockedCard, Archiving
<1> QED
  BY <1>4, <1>5, DifferentCards

\* What a commit makes of each row, for every version v: it stays, or a version
\* of the publisher's card becomes visible or archived.
LEMMA CommittedRows ==
  ASSUME IndInv, NEW p \in Publishers, Commit(p), NEW v \in VersionIds
  PROVE  \/ tx[p].rows[v] = NoRow /\ versions'[v] = versions[v]
         \/ /\ tx[p].rows[v] # NoRow /\ versions'[v] = tx[p].rows[v]
            /\ versions[v] = NoRow
            /\ tx[p].rows[v].card = req[p].card /\ tx[p].rows[v].tenant = req[p].tenant
            /\ \/ tx[p].rows[v].status = "preview"
               \/ /\ req[p].ok /\ v = PublishedId(req[p])
                  /\ tx[p].rows[v] = PublishedRow(req[p])
         \/ /\ tx[p].rows[v] # NoRow /\ versions'[v] = tx[p].rows[v]
            /\ versions[v] \in Row /\ versions[v] # NoRow
            /\ versions[v].card = req[p].card /\ versions[v].tenant = req[p].tenant
            /\ versions[v].status = "published"
            /\ versions'[v].card = req[p].card /\ versions'[v].tenant = req[p].tenant
            /\ versions'[v].prev = versions[v].prev /\ versions'[v].snap = versions[v].snap
            /\ versions'[v].status = "archived"
            /\ req[p].ok /\ v = req[p].seen
<1>1. versions'[v] = View(p, v) /\ PublisherInv(p)
  BY DEF Commit, IndInv
<1>2. CASE tx[p].rows[v] = NoRow
  BY <1>1, <1>2 DEF View
<1>3. CASE tx[p].rows[v] # NoRow /\ versions[v] = NoRow
  BY <1>1, <1>3 DEF View, PublisherInv, PendingRows, WritesLockedCard
<1>4. CASE tx[p].rows[v] # NoRow /\ versions[v] # NoRow
  <2>1. versions[v] \in Row
    BY <1>4 DEF IndInv, TypeOK
  <2>2. /\ versions'[v] = tx[p].rows[v]
        /\ tx[p].rows[v] = [versions[v] EXCEPT !.status = "archived"]
        /\ tx[p].rows[v].card = req[p].card /\ tx[p].rows[v].tenant = req[p].tenant
        /\ versions[v].status = "published"
        /\ req[p].ok /\ v = req[p].seen
    BY <1>1, <1>4 DEF View, PublisherInv, PendingRows, WritesLockedCard
  <2>3. /\ tx[p].rows[v].card = versions[v].card /\ tx[p].rows[v].tenant = versions[v].tenant
        /\ tx[p].rows[v].prev = versions[v].prev /\ tx[p].rows[v].snap = versions[v].snap
        /\ tx[p].rows[v].status = "archived"
    BY <2>1, <2>2 DEF Row
  <2> QED
    BY <1>4, <2>1, <2>2, <2>3
<1> QED
  BY <1>2, <1>3, <1>4

\* A commit of p disturbs no other publisher.
LEMMA CommitOthers ==
  ASSUME IndInv, NEW p \in Publishers, Commit(p), NEW q \in Publishers \ {p}
  PROVE  PublisherInv(q)'
<1>1. /\ pc'[q] = pc[q] /\ req'[q] = req[q] /\ tx'[q] = tx[q]
      /\ \A c \in Cards : lock[c] = q => lock'[c] = q
      /\ \A v \in VersionIds : tx'[p].rows[v] = NoRow
      /\ \A r \in Publishers \ {p} : tx'[r] = tx[r]
  BY FinishPublisher DEF Commit
<1>2. PublisherInv(q) /\ (pc[q] # "idle" => req[q] \in Request)
  BY DEF IndInv, Busy
<1>3. ASSUME NEW v \in VersionIds, tx[q].rows[v] # NoRow
      PROVE  versions'[v] = versions[v]
  <2>1. tx[p].rows[v] = NoRow
    BY <1>3, DisjointWrites
  <2> QED
    BY <2>1 DEF Commit, View
<1>4. \A v \in VersionIds : versions[v] # NoRow => versions'[v] # NoRow
  BY DEF Commit, View
<1>5. WritesLockedCard(q)'
  <2>1. pc[q] \in Writing => req[q].card \in Cards
    BY <1>2 DEF Request, Writing
  <2> QED
    BY <1>1, <1>2, <2>1 DEF PublisherInv, WritesLockedCard
<1>6. PreviewIsNew(q)'
  <2>1. pc[q] # "idle" => req[q].previewId \in VersionIds
    BY <1>2 DEF Request
  <2> QED
    BY <1>1, <1>2, <1>4, <2>1 DEF PublisherInv, PreviewIsNew
<1>7. PendingRows(q)'
  <2>1. \A r \in Publishers, v \in VersionIds : tx[r].rows[v] = NoRow => tx'[r].rows[v] = NoRow
    BY <1>1
  <2> QED
    BY <1>1, <1>2, <1>3, <2>1 DEF PublisherInv, PendingRows
<1>8. ArchivesListed(q)'
  <2>1. pc[q] \in Archiving /\ req[q].seen # NoVersion => req[q].seen \in VersionIds
    BY <1>2 DEF Request, MaybeVersion, Archiving, Writing
  <2> QED
    BY <1>1, <1>2, <1>4, <2>1 DEF PublisherInv, ArchivesListed
<1>9. InsertsReplacement(q)'
  <2> DEFINE v == PublishedId(req[q])
  <2> SUFFICES ASSUME pc[q] \in Publishing, req[q].ok
               PROVE  \/ /\ versions'[v] = NoRow
                         /\ tx[q].rows[v] = PublishedRow(req[q])
                         /\ \A w \in VersionIds \ {v} :
                              ~IsPublished(View(q, w)', req[q].card, req[q].tenant)
                      \/ req[q].seen = NoVersion /\ tx[q].rows[v] = NoRow
                      \/ IsArchivedId(req[q], v)
    BY <1>1 DEF InsertsReplacement, IsPublished, IsArchivedId, PublishedId
  <2>1. req[q] \in Request /\ pc[q] \in Writing /\ pc[p] \in Writing
    BY <1>2 DEF Publishing, Writing, Commit
  <2>2. v \in VersionIds /\ PublishedRow(req[q]) \in Row
    BY <2>1, PublishedTypes
  <2>3. req[p].card # req[q].card
    BY <2>1, DifferentCards
  <2> HIDE DEF v
  <2>4. CASE req[q].seen = NoVersion /\ tx[q].rows[v] = NoRow
    BY <2>4
  <2>5. CASE /\ versions[v] = NoRow
             /\ tx[q].rows[v] = PublishedRow(req[q])
             /\ \A w \in VersionIds \ {v} : ~IsPublished(View(q, w), req[q].card, req[q].tenant)
    <3>1. versions'[v] = NoRow
      BY <1>3, <2>2, <2>5, NullAssumption
    <3>2. ASSUME NEW w \in VersionIds \ {v}
          PROVE  ~IsPublished(View(q, w)', req[q].card, req[q].tenant)
      <4>1. View(q, w)' = IF tx[q].rows[w] # NoRow THEN tx[q].rows[w] ELSE versions'[w]
        BY <1>1 DEF View
      <4>2. \/ versions'[w] = versions[w] \/ versions'[w].card = req[p].card
        <5>1. tx[p].rows[w] # NoRow => tx[p].rows[w].card = req[p].card
          BY DEF IndInv, PublisherInv, WritesLockedCard
        <5> QED
          BY <5>1 DEF Commit, View
      <4>3. View(q, w)' = View(q, w) \/ View(q, w)'.card = req[p].card
        BY <4>1, <4>2 DEF View
      <4> QED
        BY <2>3, <2>5, <4>3 DEF IsPublished
    <3> QED
      BY <2>5, <3>1, <3>2
  <2> QED
    BY <1>2, <2>4, <2>5 DEF PublisherInv, InsertsReplacement, v
<1> QED
  BY <1>5, <1>6, <1>7, <1>8, <1>9 DEF PublisherInv

\* A commit that releases nothing, only previews, or repeats a first publish
\* leaves every released version as it was.
LEMMA NothingReleased ==
  ASSUME IndInv, NEW p \in Publishers, Commit(p),
         ~req[p].ok \/ (req[p].seen = NoVersion /\ tx[p].rows[PublishedId(req[p])] = NoRow),
         NEW v \in VersionIds, NEW c
  PROVE  /\ Released(v, c)' <=> Released(v, c)
         /\ Current(v, c)' <=> Current(v, c)
         /\ Released(v, c) => versions'[v] = versions[v]
<1>1. \/ versions'[v] = versions[v]
      \/ versions[v] = NoRow /\ versions'[v].status = "preview"
  BY ConstantsAssumption, CommittedRows
<1> QED
  BY <1>1 DEF Released, IsReleased, Current

\* ... so the history stays as it was.
LEMMA CommitWithoutRelease ==
  ASSUME IndInv, NEW p \in Publishers, Commit(p),
         ~req[p].ok \/ (req[p].seen = NoVersion /\ tx[p].rows[PublishedId(req[p])] = NoRow)
  PROVE  AlwaysOneCurrent' /\ LinearHistory'
<1>2. ASSUME NEW v \in VersionIds, NEW c
      PROVE  /\ Released(v, c)' <=> Released(v, c)
             /\ Current(v, c)' <=> Current(v, c)
             /\ Released(v, c) => versions'[v] = versions[v]
  BY NothingReleased
<1>0. ASSUME NEW c \in Cards PROVE Intact(c)' <=> Intact(c)
  BY <1>2 DEF Intact, SelfNamed
<1>3. AlwaysOneCurrent'
  BY <1>0, <1>2 DEF IndInv, AlwaysOneCurrent
<1>4. LinearHistory'
  <2> SUFFICES ASSUME NEW c \in Cards, NEW v \in VersionIds, Intact(c)', Released(v, c)'
               PROVE  /\ \A w \in VersionIds :
                           Released(w, c)' /\ versions'[w].prev = versions'[v].prev => w = v
                      /\ versions'[v].prev # NoVersion =>
                           /\ IsReleased(versions'[versions'[v].prev], c)
                           /\ versions'[versions'[v].prev].status = "archived"
    BY DEF LinearHistory, Released, IsReleased
  <2>0. Intact(c)
    BY <1>0
  <2>1. Released(v, c) /\ versions'[v] = versions[v] /\ versions[v] \in Row
    BY <1>2 DEF Released, IsReleased, IndInv, TypeOK
  <2>2. versions[v].prev # NoVersion => versions[v].prev \in VersionIds
    BY <2>1 DEF Row, MaybeVersion
  <2>3. \A w \in VersionIds : Released(w, c)' /\ versions'[w].prev = versions'[v].prev => w = v
    BY <1>2, <2>0, <2>1 DEF IndInv, LinearHistory
  <2>4. ASSUME versions[v].prev # NoVersion
        PROVE  /\ IsReleased(versions'[versions[v].prev], c)
               /\ versions'[versions[v].prev].status = "archived"
    <3>1. /\ Released(versions[v].prev, c)
          /\ versions[versions[v].prev].status = "archived"
      BY <2>0, <2>1, <2>4 DEF IndInv, LinearHistory
    <3> QED
      BY <1>2, <2>2, <2>4, <3>1 DEF Released
  <2> QED
    BY <2>1, <2>3, <2>4
<1> QED
  BY <1>3, <1>4

\* A commit that releases a version: v replaces what p had listed.
LEMMA CommitRelease ==
  ASSUME IndInv, NEW p \in Publishers, Commit(p), req[p].ok,
         OwnersMatch', TypeOK',
         NEW v \in VersionIds, v = PublishedId(req[p]),
         NEW k, k = req[p].card, NEW s, s = req[p].seen,
         versions[v] = NoRow, tx[p].rows[v] = PublishedRow(req[p]),
         \A w \in VersionIds \ {v} : ~IsPublished(View(p, w), req[p].card, req[p].tenant)
  PROVE  /\ AlwaysOneCurrent' /\ LinearHistory'
         /\ Current(v, k)' /\ versions'[v] = PublishedRow(req[p])
         /\ IF s = NoVersion THEN \A w \in VersionIds : ~Current(w, k) ELSE Current(s, k)
         /\ s = NoVersion /\ Intact(k) => \A w \in VersionIds : ~Released(w, k)
         /\ \A w \in VersionIds, c \in Cards : w # v =>
              /\ Released(w, c)' <=> Released(w, c)
              /\ c # k => (Current(w, c)' <=> Current(w, c))
              /\ Released(w, c) => /\ versions'[w].card = versions[w].card
                                  /\ versions'[w].snap = versions[w].snap
                                  /\ versions'[w].prev = versions[w].prev
<1>1. /\ req[p] \in Request /\ k \in Cards /\ PublisherInv(p)
      /\ pc[p] \in Archiving /\ Owner[k] = req[p].tenant
  BY DEF Commit, IndInv, Busy, Request, Archiving, Writing, PublisherInv, WritesLockedCard
<1>2. /\ versions'[v] # NoRow /\ versions'[v] = PublishedRow(req[p]) /\ versions'[v].card = k
      /\ versions'[v].status = "published" /\ versions'[v].prev = s
  <2>1. PublishedRow(req[p]) \in Row
    BY <1>1, PublishedTypes
  <2>2. versions'[v] = PublishedRow(req[p])
    BY <2>1, NullAssumption DEF Commit, View
  <2>3. req[p].preview \in Row /\ req[p].preview.card = k
    BY <1>1 DEF Request, PublisherInv, PreviewIsNew, Archiving, Writing
  <2> QED
    BY <2>1, <2>2, <2>3, NullAssumption DEF PublishedRow, Row
<1>3. ASSUME NEW w \in VersionIds, w # v
      PROVE  \/ versions'[w] = versions[w]
             \/ /\ versions[w] = NoRow /\ versions'[w].status = "preview"
                /\ versions'[w].card = k
             \/ /\ versions[w] # NoRow /\ versions[w].card = k
                /\ versions[w].status = "published"
                /\ versions'[w] # NoRow /\ versions'[w].card = k
                /\ versions'[w].status = "archived"
                /\ versions'[w].prev = versions[w].prev /\ versions'[w].snap = versions[w].snap
                /\ w = s
  BY <1>3, CommittedRows
<1>4. ASSUME s # NoVersion
      PROVE  /\ s \in VersionIds /\ s # v
             /\ Current(s, k) /\ Released(s, k)' /\ versions'[s].status = "archived"
  <2>1. /\ s \in VersionIds /\ Current(s, k) /\ tx[p].rows[s] # NoRow
    BY <1>1, <1>4, ListedIsCurrent
  <2>2. s # v
    BY <2>1 DEF Current, Released, IsReleased
  <2>3. /\ versions'[s] # NoRow /\ versions'[s].card = k /\ versions'[s].status = "archived"
    BY <2>1, CommittedRows DEF Current, Released, IsReleased
  <2> QED
    BY <2>1, <2>2, <2>3 DEF Released, IsReleased
<1>5. ASSUME NEW w \in VersionIds, w # v PROVE ~Current(w, k)'
  <2>1. versions'[w] = View(p, w)
    BY DEF Commit
  <2>2. ~IsPublished(versions'[w], k, req[p].tenant)
    BY <1>5, <2>1
  <2> QED
    BY <1>1, <2>2 DEF OwnersMatch, Current, Released, IsReleased, IsPublished
<1>6. s = NoVersion => \A w \in VersionIds : ~Current(w, k)
  <2> SUFFICES ASSUME s = NoVersion, NEW w \in VersionIds, Current(w, k)
               PROVE  FALSE
    OBVIOUS
  <2>1. w # v
    BY DEF Current, Released, IsReleased
  <2>2. versions'[w] = versions[w]
    BY <1>3, <2>1, ConstantsAssumption DEF Current, Released, IsReleased
  <2> QED
    BY <1>5, <2>1, <2>2 DEF Current, Released, IsReleased
<1>60. s = NoVersion /\ Intact(k) => \A w \in VersionIds : ~Released(w, k)
  BY <1>1, <1>6 DEF IndInv, AlwaysOneCurrent
<1>61. ASSUME NEW c \in Cards, Intact(c)' PROVE Intact(c)
  <2>1. ASSUME NEW w \in VersionIds, Released(w, c) PROVE Released(w, c)'
    <3>1. w # v
      BY <2>1 DEF Released, IsReleased
    <3> QED
      BY <1>3, <2>1, <3>1 DEF Released, IsReleased
  <2> QED
    BY <1>61, <2>1 DEF Intact, SelfNamed
<1>7. AlwaysOneCurrent'
  <2> SUFFICES ASSUME NEW c \in Cards
               PROVE  /\ \A w, x \in VersionIds : Current(w, c)' /\ Current(x, c)' => w = x
                      /\ Intact(c)' /\ (\E w \in VersionIds : Released(w, c)') =>
                           \E w \in VersionIds : Current(w, c)'
    BY DEF AlwaysOneCurrent
  <2>1. CASE c = k
    <3>1. Current(v, k)'
      BY <1>2 DEF Current, Released, IsReleased
    <3> QED
      BY <1>5, <2>1, <3>1
  <2>2. CASE c # k
    <3>1. ASSUME NEW w \in VersionIds
          PROVE  (Released(w, c)' <=> Released(w, c)) /\ (Current(w, c)' <=> Current(w, c))
      <4>1. CASE w = v
        BY <1>2, <2>2, <4>1 DEF Released, IsReleased, Current
      <4>2. CASE w # v
        BY <1>3, <2>2, <4>2 DEF Released, IsReleased, Current
      <4> QED
        BY <4>1, <4>2
    <3> QED
      BY <1>61, <3>1 DEF IndInv, AlwaysOneCurrent
  <2> QED
    BY <2>1, <2>2
<1>8. ASSUME NEW c \in Cards, NEW w \in VersionIds, Released(w, c)', w # v
      PROVE  /\ Released(w, c) /\ versions'[w].prev = versions[w].prev
             /\ versions[w].prev \in MaybeVersion
  <2>1. Released(w, c) /\ versions'[w].prev = versions[w].prev
    BY <1>3, <1>8 DEF Released, IsReleased
  <2>2. versions[w] \in Row
    BY <2>1 DEF Released, IsReleased, IndInv, TypeOK
  <2> QED
    BY <2>1, <2>2 DEF Row
<1>9. ASSUME NEW c \in Cards, NEW w \in VersionIds, Intact(c)', Released(w, c)', w # v,
             versions'[w].prev = versions'[v].prev, Released(v, c)'
      PROVE  FALSE
  <2>1. c = k
    BY <1>2, <1>9 DEF Released, IsReleased
  <2>2. Released(w, k) /\ versions[w].prev = s
    BY <1>2, <1>8, <1>9, <2>1
  <2>20. Intact(k)
    BY <1>9, <1>61, <2>1
  <2>3. CASE s = NoVersion
    BY <1>60, <2>2, <2>20, <2>3
  <2>4. CASE s # NoVersion
    <3>1. versions[s].status = "archived"
      BY <1>1, <2>2, <2>20, <2>4 DEF IndInv, LinearHistory
    <3> QED
      BY <1>4, <2>4, <3>1 DEF Current
  <2> QED
    BY <2>3, <2>4
<1>10. LinearHistory'
  <2> SUFFICES ASSUME NEW c \in Cards, NEW w \in VersionIds, Intact(c)', Released(w, c)'
               PROVE  /\ \A x \in VersionIds :
                           Released(x, c)' /\ versions'[x].prev = versions'[w].prev => x = w
                      /\ versions'[w].prev # NoVersion =>
                           /\ IsReleased(versions'[versions'[w].prev], c)
                           /\ versions'[versions'[w].prev].status = "archived"
    BY DEF LinearHistory, Released, IsReleased
  <2>0. Intact(c)
    BY <1>61
  <2>1. CASE w = v
    <3>1. c = k
      BY <1>2, <2>1 DEF Released, IsReleased
    <3>2. s # NoVersion => IsReleased(versions'[s], c) /\ versions'[s].status = "archived"
      BY <1>4, <3>1 DEF Released
    <3>3. \A x \in VersionIds : Released(x, c)' /\ versions'[x].prev = versions'[v].prev => x = v
      BY <1>9, <2>1
    <3> QED
      BY <1>2, <2>1, <3>2, <3>3
  <2>2. CASE w # v
    <3>1. Released(w, c) /\ versions'[w].prev = versions[w].prev
          /\ versions[w].prev \in MaybeVersion
      BY <1>8, <2>2
    <3>2. ASSUME NEW x \in VersionIds, Released(x, c)', versions'[x].prev = versions'[w].prev
          PROVE  x = w
      <4>1. CASE x = v
        BY <1>9, <2>2, <3>2, <4>1
      <4>2. CASE x # v
        <5>1. Released(x, c) /\ versions[x].prev = versions[w].prev
          BY <1>8, <3>1, <3>2, <4>2
        <5> QED
          BY <2>0, <3>1, <5>1 DEF IndInv, LinearHistory
      <4> QED
        BY <4>1, <4>2
    <3>3. ASSUME versions[w].prev # NoVersion
          PROVE  /\ IsReleased(versions'[versions[w].prev], c)
                 /\ versions'[versions[w].prev].status = "archived"
      <4> DEFINE u == versions[w].prev
      <4>1. u \in VersionIds /\ Released(u, c) /\ versions[u].status = "archived"
        BY <2>0, <3>1, <3>3 DEF IndInv, LinearHistory, MaybeVersion
      <4> HIDE DEF u
      <4>2. u # v
        BY <4>1 DEF Released, IsReleased
      <4>3. versions'[u] = versions[u]
        BY <1>3, <4>1, <4>2 DEF Released, IsReleased
      <4>4. IsReleased(versions'[u], c) /\ versions'[u].status = "archived"
        BY <4>1, <4>3 DEF Released, IsReleased
      <4> QED
        BY <4>4 DEF u
    <3> QED
      BY <3>1, <3>2, <3>3
  <2> QED
    BY <2>1, <2>2
<1>11. ASSUME NEW w \in VersionIds, NEW c \in Cards, w # v
       PROVE  /\ Released(w, c)' <=> Released(w, c)
              /\ c # k => (Current(w, c)' <=> Current(w, c))
              /\ Released(w, c) => /\ versions'[w].card = versions[w].card
                                  /\ versions'[w].snap = versions[w].snap
                                  /\ versions'[w].prev = versions[w].prev
  BY <1>3, <1>11 DEF Released, IsReleased, Current
<1>12. Current(v, k)'
  BY <1>2 DEF Current, Released, IsReleased
<1> QED
  BY <1>2, <1>4, <1>6, <1>60, <1>7, <1>10, <1>11, <1>12

\* A commit whose release has the id of the version it replaces: that version is
\* archived, nothing is released, and the card is not intact.
LEMMA CommitOfSameId ==
  ASSUME IndInv, NEW p \in Publishers, Commit(p), NEW v, v = PublishedId(req[p]),
         NEW k, k = req[p].card, IsArchivedId(req[p], v)
  PROVE  /\ v \in VersionIds /\ k \in Cards /\ Current(v, k) /\ SelfNamed(v)
         /\ \A w \in VersionIds, c \in Cards :
              /\ Released(w, c)' <=> Released(w, c)
              /\ Current(w, c)' <=> Current(w, c) /\ w # v
              /\ w # v /\ Released(w, c) => versions'[w] = versions[w]
<1>1. /\ req[p] \in Request /\ k \in Cards /\ v \in VersionIds /\ pc[p] \in Archiving
      /\ req[p].ok /\ req[p].seen # NoVersion /\ v = req[p].seen
  BY PublishedTypes DEF Commit, IndInv, Busy, Request, Archiving, Writing, IsArchivedId
<1>2. Current(v, k) /\ tx[p].rows[v] # NoRow
  BY <1>1, ListedIsCurrent
<1>3. SelfNamed(v)
  BY <1>1 DEF SelfNamed, PublishedId, Request, Row
<1>4. ASSUME NEW w \in VersionIds, NEW c \in Cards
      PROVE  /\ Released(w, c)' <=> Released(w, c)
             /\ Current(w, c)' <=> Current(w, c) /\ w # v
             /\ w # v /\ Released(w, c) => versions'[w] = versions[w]
  <2>1. CASE w = v
    <3>1. /\ versions'[v].card = k /\ versions'[v].status = "archived" /\ versions'[v] # NoRow
          /\ versions[v].card = k
      BY <1>1, <1>2, CommittedRows DEF Current, Released, IsReleased
    <3> QED
      BY <1>2, <2>1, <3>1 DEF Current, Released, IsReleased
  <2>2. CASE w # v
    <3>1. w # PublishedId(req[p]) /\ w # req[p].seen
      BY <1>1, <2>2
    <3>2. \/ versions'[w] = versions[w]
          \/ versions[w] = NoRow /\ versions'[w].status = "preview"
      BY <3>1, CommittedRows
    <3> QED
      BY <2>2, <3>2 DEF Current, Released, IsReleased
  <2> QED
    BY <2>1, <2>2
<1> QED
  BY <1>1, <1>2, <1>3, <1>4

\* ... so the other cards stay as they were.
LEMMA CommitOfSameIdInv ==
  ASSUME IndInv, NEW p \in Publishers, Commit(p), IsArchivedId(req[p], PublishedId(req[p]))
  PROVE  AlwaysOneCurrent' /\ LinearHistory'
<1> DEFINE v == PublishedId(req[p])
           k == req[p].card
<1>1. /\ v \in VersionIds /\ k \in Cards /\ Current(v, k) /\ SelfNamed(v)
      /\ \A w \in VersionIds, c \in Cards :
           /\ Released(w, c)' <=> Released(w, c)
           /\ Current(w, c)' <=> Current(w, c) /\ w # v
           /\ w # v /\ Released(w, c) => versions'[w] = versions[w]
  BY CommitOfSameId
<1> HIDE DEF v, k
<1>2. \A c \in Cards : Intact(c)' => Intact(c) /\ c # k
  BY <1>1 DEF Intact, SelfNamed, Current
<1>3. \A c \in Cards : Released(v, c) => c = k
  BY <1>1 DEF Released, IsReleased, Current
<1>4. AlwaysOneCurrent'
  <2> SUFFICES ASSUME NEW c \in Cards
               PROVE  /\ \A w, x \in VersionIds : Current(w, c)' /\ Current(x, c)' => w = x
                      /\ Intact(c)' /\ (\E w \in VersionIds : Released(w, c)') =>
                           \E w \in VersionIds : Current(w, c)'
    BY DEF AlwaysOneCurrent
  <2>1. Intact(c)' => Intact(c) /\ ~Current(v, c)
    BY <1>2, <1>3 DEF Current
  <2> QED
    BY <1>1, <2>1 DEF IndInv, AlwaysOneCurrent
<1>5. LinearHistory'
  <2> SUFFICES ASSUME NEW c \in Cards, NEW w \in VersionIds, Intact(c)', Released(w, c)'
               PROVE  /\ \A x \in VersionIds :
                           Released(x, c)' /\ versions'[x].prev = versions'[w].prev => x = w
                      /\ versions'[w].prev # NoVersion =>
                           /\ IsReleased(versions'[versions'[w].prev], c)
                           /\ versions'[versions'[w].prev].status = "archived"
    BY DEF LinearHistory, Released, IsReleased
  <2>1. /\ Intact(c) /\ Released(w, c)
        /\ \A x \in VersionIds : Released(x, c) => x # v /\ versions'[x] = versions[x]
    BY <1>1, <1>2, <1>3
  <2>2. versions[w] \in Row /\ versions'[w] = versions[w]
    BY <2>1 DEF Released, IsReleased, IndInv, TypeOK
  <2>3. versions[w].prev # NoVersion =>
          /\ versions[w].prev \in VersionIds /\ Released(versions[w].prev, c)
          /\ versions[versions[w].prev].status = "archived"
    BY <2>1, <2>2 DEF Row, MaybeVersion, IndInv, LinearHistory
  <2>4. versions[w].prev # NoVersion => versions'[versions[w].prev] = versions[versions[w].prev]
    BY <2>1, <2>3
  <2>5. \A x \in VersionIds : Released(x, c)' /\ versions'[x].prev = versions'[w].prev => x = w
    BY <1>1, <2>1, <2>2 DEF IndInv, LinearHistory
  <2> QED
    BY <2>2, <2>3, <2>4, <2>5 DEF Released
<1> QED
  BY <1>4, <1>5

\* A commit preserves the inductive invariant.
LEMMA CommitInv ==
  ASSUME IndInv, TypeOK', Busy', NEW p \in Publishers, Commit(p)
  PROVE  IndInv'
<1>1. PublisherInv(p) /\ req[p] \in Request /\ pc[p] \in Publishing /\ pc[p] \in Writing
  BY DEF Commit, IndInv, Busy, Publishing, Writing
<1>2. OwnersMatch'
  <2> SUFFICES ASSUME NEW v \in VersionIds, versions'[v] # NoRow
               PROVE  versions'[v].tenant = Owner[versions'[v].card]
    BY DEF OwnersMatch
  <2>1. Owner[req[p].card] = req[p].tenant
    BY <1>1 DEF PublisherInv, WritesLockedCard
  <2>2. CASE tx[p].rows[v] = NoRow
    BY <2>2 DEF Commit, View, IndInv, OwnersMatch
  <2>3. CASE tx[p].rows[v] # NoRow
    BY <1>1, <2>1, <2>3 DEF Commit, View, PublisherInv, WritesLockedCard
  <2> QED
    BY <2>2, <2>3
<1>3. AlwaysOneCurrent' /\ LinearHistory'
  <2>1. req[p].ok => PublishedId(req[p]) \in VersionIds
    BY <1>1, PublishedTypes
  <2>2. CASE ~req[p].ok \/ (req[p].seen = NoVersion /\ tx[p].rows[PublishedId(req[p])] = NoRow)
    BY <2>2, CommitWithoutRelease
  <2>3. CASE /\ req[p].ok
             /\ versions[PublishedId(req[p])] = NoRow
             /\ tx[p].rows[PublishedId(req[p])] = PublishedRow(req[p])
             /\ \A w \in VersionIds \ {PublishedId(req[p])} :
                  ~IsPublished(View(p, w), req[p].card, req[p].tenant)
    BY <1>2, <2>1, <2>3, CommitRelease
  <2>4. CASE IsArchivedId(req[p], PublishedId(req[p]))
    BY <2>4, CommitOfSameIdInv
  <2> QED
    BY <1>1, <2>2, <2>3, <2>4 DEF PublisherInv, InsertsReplacement
<1>4. \A q \in Publishers : PublisherInv(q)'
  <2>1. PublisherInv(p)'
    BY FinishPublisher DEF Commit
  <2> QED
    BY <2>1, CommitOthers
<1> QED
  BY <1>2, <1>3, <1>4 DEF IndInv

-----------------------------------------------------------------------------
(***************************************************************************)
(* The theorems                                                            *)
(***************************************************************************)

\* Every step preserves the inductive invariant.
LEMMA NextInv ==
  ASSUME IndInv, [Next]_vars
  PROVE  IndInv'
<1>1. TypeOK' /\ Busy'
  BY NextTypes, StutterTypes DEF IndInv
<1>2. CASE UNCHANGED vars
  BY <1>2 DEF vars, IndInv, TypeOK, Busy, OwnersMatch, AlwaysOneCurrent, LinearHistory,
     Current, Released, PublisherInv, WritesLockedCard, PreviewIsNew, PendingRows,
     ArchivesListed, InsertsReplacement, View, Intact
<1>3. ASSUME NEW p \in Publishers, Prepare(p) \/ Step(p) \/ Rollback(p)
      PROVE  IndInv'
  BY <1>1, <1>3, PrepareInv, BuildEvidenceInv, LockCardInv, ArchivePreviousInv, SavePreviewInv,
     SavePublishedInv, SaveAuditEventsInv, PersistEvidenceInv, CommitInv, RollbackInv DEF Step
<1> QED
  BY <1>2, <1>3 DEF Next

\* The inductive invariant holds in every reachable state.
THEOREM InvariantHolds == Spec => []IndInv
<1>1. Init => IndInv
  BY InitInv
<1>2. IndInv /\ [Next]_vars => IndInv'
  BY NextInv
<1> QED
  BY <1>1, <1>2, PTL DEF Spec

\* However many publishers race and wherever they fail, readers of a card find at
\* most one published version, and exactly one from its first publish on unless
\* one of its releases can be replaced by a version of the same id.
THEOREM OneCurrentAlways == Spec => []AlwaysOneCurrent
<1>1. IndInv => AlwaysOneCurrent
  BY DEF IndInv
<1> QED
  BY <1>1, InvariantHolds, PTL

\* The version history of a card is a chain, with the same exception: no release
\* is lost or overtaken by one that was computed from the same list of versions.
THEOREM HistoryIsLinear == Spec => []LinearHistory
<1>1. IndInv => LinearHistory
  BY DEF IndInv
<1> QED
  BY <1>1, InvariantHolds, PTL

\* Committed versions are never overwritten, whichever ids collide; a published
\* version is archived with the rest of its row kept.
THEOREM CommittedVersionsKept == Spec => VersionsAreImmutable
<1> DEFINE Kept == \A v \in VersionIds : versions[v] # NoRow =>
                     \/ versions'[v] = versions[v]
                     \/ /\ versions[v].status = "published"
                        /\ versions'[v] = [versions[v] EXCEPT !.status = "archived"]
<1>1. ASSUME IndInv, Next PROVE Kept
  <2> PICK p \in Publishers : Prepare(p) \/ Step(p) \/ Rollback(p)
    BY <1>1 DEF Next
  <2>1. CASE versions' = versions
    BY <2>1
  <2>2. CASE Commit(p)
    <3> SUFFICES ASSUME NEW v \in VersionIds, versions[v] # NoRow, tx[p].rows[v] # NoRow
                 PROVE  /\ versions[v].status = "published"
                        /\ versions'[v] = [versions[v] EXCEPT !.status = "archived"]
      BY <2>2 DEF Commit, View
    <3> QED
      BY <1>1, <2>2 DEF Commit, View, IndInv, PublisherInv, PendingRows
  <2> QED
    BY <2>1, <2>2 DEF Step, Prepare, BuildEvidence, LockCard, ArchivePrevious, SavePreview,
       SavePublished, SaveAuditEvents, PersistEvidence, Rollback
<1>2. IndInv /\ [Next]_vars => [Kept]_vars
  BY <1>1
<1> QED
  BY <1>2, InvariantHolds, PTL DEF Spec, VersionsAreImmutable

-----------------------------------------------------------------------------
(***************************************************************************)
(* The refinement of SettingsHistory                                       *)
(***************************************************************************)

\* The head of a card that has a current version is that version.
LEMMA HeadIsCurrent ==
  ASSUME AlwaysOneCurrent, NEW c \in Cards, NEW v \in VersionIds, Current(v, c)
  PROVE  HeadOf(c) = v
BY DEF HeadOf, AlwaysOneCurrent

\* A commit that releases nothing is a stuttering step of the history.
LEMMA QuietCommit ==
  ASSUME IndInv, NEW p \in Publishers, Commit(p), AlwaysOneCurrent',
         ~req[p].ok \/ (req[p].seen = NoVersion /\ tx[p].rows[PublishedId(req[p])] = NoRow)
  PROVE  UNCHANGED History!vars
<1>1. ASSUME NEW v \in VersionIds, NEW c \in Cards
      PROVE  /\ Released(v, c)' <=> Released(v, c)
             /\ Current(v, c)' <=> Current(v, c)
             /\ Released(v, c) => versions'[v] = versions[v]
  BY NothingReleased
<1>2. ASSUME NEW c \in Cards PROVE HeadOf(c)' = HeadOf(c)
  <2>1. CASE \A v \in VersionIds : ~Current(v, c)
    BY <1>1, <2>1 DEF HeadOf
  <2>2. ASSUME NEW v \in VersionIds, Current(v, c) PROVE HeadOf(c)' = HeadOf(c)
    <3>1. HeadOf(c) = v
      BY <2>2, HeadIsCurrent DEF IndInv
    <3>2. HeadOf(c)' = v
      BY <1>1, <2>2 DEF HeadOf, AlwaysOneCurrent
    <3> QED
      BY <3>1, <3>2
  <2> QED
    BY <2>1, <2>2
<1>3. ASSUME NEW v \in VersionIds PROVE ReleaseOf(v)' = ReleaseOf(v)
  BY <1>1 DEF ReleaseOf
<1> QED
  BY <1>2, <1>3 DEF History!vars

\* A commit that releases a version is a step of the history: the version it
\* replaces is the head of the card.
LEMMA ReleasingCommit ==
  ASSUME IndInv, NEW p \in Publishers, Commit(p), TypeOK', OwnersMatch',
         NEW v \in VersionIds, v = PublishedId(req[p]),
         NEW k, k = req[p].card, NEW s, s = req[p].seen,
         req[p].ok, versions[v] = NoRow, tx[p].rows[v] = PublishedRow(req[p]),
         \A w \in VersionIds \ {v} : ~IsPublished(View(p, w), req[p].card, req[p].tenant)
  PROVE  History!Next
<1>1. /\ AlwaysOneCurrent' /\ Current(v, k)' /\ versions'[v] = PublishedRow(req[p])
      /\ IF s = NoVersion THEN \A w \in VersionIds : ~Current(w, k) ELSE Current(s, k)
      /\ s = NoVersion /\ Intact(k) => \A w \in VersionIds : ~Released(w, k)
      /\ \A w \in VersionIds, c \in Cards : w # v =>
           /\ Released(w, c)' <=> Released(w, c)
           /\ c # k => (Current(w, c)' <=> Current(w, c))
           /\ Released(w, c) => /\ versions'[w].card = versions[w].card
                               /\ versions'[w].snap = versions[w].snap
                               /\ versions'[w].prev = versions[w].prev
  BY CommitRelease
<1>2. req[p] \in Request /\ PublisherInv(p) /\ pc[p] # "idle"
  BY DEF Commit, IndInv, Busy
<1>3. /\ k \in Cards /\ v \in VersionIds /\ req[p].preview \in Row
      /\ req[p].preview.snap \in Snapshots /\ req[p].preview.card = k
      /\ s # NoVersion => s \in VersionIds
  BY <1>2 DEF Request, Row, MaybeVersion, PublisherInv, PreviewIsNew
<1>4. /\ versions'[v].card = k /\ versions'[v].snap = req[p].preview.snap
      /\ versions'[v].prev = s
  BY <1>1, <1>3 DEF PublishedRow, Row
<1>6. HeadOf(k) = s
  <2>1. CASE s = NoVersion
    BY <1>1, <2>1 DEF HeadOf, Current
  <2>2. CASE s # NoVersion
    BY <1>1, <1>3, <2>2, HeadIsCurrent DEF IndInv
  <2> QED
    BY <2>1, <2>2
<1>7. HeadOf(k)' = v
  BY <1>1, <1>3 DEF HeadOf, AlwaysOneCurrent
<1>8. ASSUME NEW c \in Cards, c # k PROVE HeadOf(c)' = HeadOf(c)
  <2>0. ASSUME NEW w \in VersionIds PROVE Current(w, c)' <=> Current(w, c)
    BY <1>1, <1>4, <1>8 DEF Current, Released, IsReleased
  <2>1. CASE \A w \in VersionIds : ~Current(w, c)
    BY <2>0, <2>1 DEF HeadOf
  <2>2. ASSUME NEW w \in VersionIds, Current(w, c) PROVE HeadOf(c)' = HeadOf(c)
    <3>1. HeadOf(c) = w
      BY <2>2, HeadIsCurrent DEF IndInv
    <3>2. HeadOf(c)' = w
      BY <1>1, <2>0, <2>2 DEF HeadOf, AlwaysOneCurrent
    <3> QED
      BY <3>1, <3>2
  <2> QED
    BY <2>1, <2>2
<1>9. ReleaseOf(v) = NoRow
  BY DEF ReleaseOf, Released, IsReleased
<1>10. ReleaseOf(v)' = [card |-> k, snap |-> req[p].preview.snap, replaces |-> s]
  BY <1>1, <1>3, <1>4 DEF ReleaseOf, Current
<1>11. ASSUME NEW w \in VersionIds, w # v PROVE ReleaseOf(w)' = ReleaseOf(w)
  BY <1>1, <1>11 DEF ReleaseOf
<1>12. History!Publish(k, v)
  BY <1>3, <1>6, <1>7, <1>8, <1>9, <1>10, <1>11 DEF History!Publish
<1> QED
  BY <1>3, <1>12 DEF History!Next

\* The publish transaction implements the history of releases: whatever rows a
\* commit of persistTrustedSettingsPublishTransactionally makes visible, a
\* reader sees one release replace the current one, or nothing.  It rests on
\* hashes that give no release the id of the one it replaces.
THEOREM PublishImplementsHistory ==
  ASSUME ReplacementsDiffer
  PROVE  Spec => ImplementsHistory
<1>1. Init => History!Init
  BY DEF Init, History!Init, HeadOf, ReleaseOf, Current, Released, IsReleased
<1>2. ASSUME IndInv, [Next]_vars
      PROVE  [History!Next]_(History!vars)
  <2>1. IndInv'
    BY <1>2, NextInv
  <2>2. CASE versions' = versions
    BY <2>2 DEF History!vars, HeadOf, ReleaseOf, Current, Released
  <2>3. ASSUME NEW p \in Publishers, Commit(p)
        PROVE  [History!Next]_(History!vars)
    <3>1. PublisherInv(p) /\ req[p] \in Request /\ pc[p] \in Publishing
      BY <1>2, <2>3 DEF Commit, IndInv, Busy, Publishing
    <3>2. req[p].ok => PublishedId(req[p]) \in VersionIds
      BY <3>1, PublishedTypes
    <3>3. CASE ~req[p].ok \/ (req[p].seen = NoVersion /\ tx[p].rows[PublishedId(req[p])] = NoRow)
      BY <1>2, <2>1, <2>3, <3>3, QuietCommit DEF IndInv
    <3>4. CASE /\ req[p].ok
               /\ versions[PublishedId(req[p])] = NoRow
               /\ tx[p].rows[PublishedId(req[p])] = PublishedRow(req[p])
               /\ \A w \in VersionIds \ {PublishedId(req[p])} :
                    ~IsPublished(View(p, w), req[p].card, req[p].tenant)
      BY <1>2, <2>1, <2>3, <3>2, <3>4, ReleasingCommit DEF IndInv
    <3>5. CASE IsArchivedId(req[p], PublishedId(req[p]))
      BY <1>2, <2>3, <3>5, CommitOfSameId DEF ReplacementsDiffer
    <3> QED
      BY <3>1, <3>3, <3>4, <3>5 DEF PublisherInv, InsertsReplacement
  <2>4. ASSUME NEW p \in Publishers, Prepare(p) \/ Step(p) \/ Rollback(p), ~Commit(p)
        PROVE  versions' = versions
    BY <2>4 DEF Step, Prepare, BuildEvidence, LockCard, ArchivePrevious, SavePreview,
       SavePublished, SaveAuditEvents, PersistEvidence, Rollback
  <2> QED
    BY <1>2, <2>2, <2>3, <2>4 DEF Next, vars
<1> QED
  BY <1>1, <1>2, InvariantHolds, PTL DEF Spec, ImplementsHistory, History!Spec

-----------------------------------------------------------------------------
(***************************************************************************)
(* The audit trail                                                         *)
(***************************************************************************)

\* A step of one publisher leaves what the others hold.
LEMMA StepFrame ==
  ASSUME TypeOK, NEW p \in Publishers, Prepare(p) \/ Step(p) \/ Rollback(p),
         NEW q \in Publishers \ {p}
  PROVE  pc'[q] = pc[q] /\ req'[q] = req[q] /\ built'[q] = built[q] /\ tx'[q] = tx[q]
<1>1. CASE Prepare(p)
  BY <1>1 DEF Prepare, TypeOK
<1>2. CASE BuildEvidence(p) \/ LockCard(p)
  BY <1>2 DEF BuildEvidence, LockCard, TypeOK
<1>3. CASE ArchivePrevious(p)
  BY <1>3 DEF ArchivePrevious, WriteRow, TypeOK
<1>4. CASE SavePreview(p) \/ SavePublished(p)
  BY <1>4 DEF SavePreview, SavePublished, SaveUnlessArchived, SaveVersion, WriteRow, TypeOK
<1>5. CASE SaveAuditEvents(p) \/ PersistEvidence(p)
  BY <1>5 DEF SaveAuditEvents, PersistEvidence, TypeOK
<1>6. CASE Commit(p) \/ Rollback(p)
  BY <1>6 DEF Commit, Rollback, Finish, TypeOK
<1> QED
  BY <1>1, <1>2, <1>3, <1>4, <1>5, <1>6 DEF Step

\* A row that is written changes neither the pending events nor the pending entry.
LEMMA RowWriteKeeps ==
  ASSUME TypeOK, NEW p \in Publishers, NEW v \in VersionIds, NEW row, WriteRow(p, v, row)
  PROVE  /\ tx'[p].rows[v] = row
         /\ \A w \in VersionIds \ {v} : tx'[p].rows[w] = tx[p].rows[w]
         /\ tx'[p].audit = tx[p].audit /\ tx'[p].entry = tx[p].entry
<1>1. tx[p] \in Writes
  BY DEF TypeOK
<1>2. tx'[p] = [tx[p] EXCEPT !.rows = [@ EXCEPT ![v] = row]]
  BY DEF WriteRow, TypeOK
<1> QED
  BY <1>1, <1>2 DEF Writes

\* A publish that inserts no version finds it released: saveCardSettingsVersion
\* accepts an id that is taken only from a published row of the card.
LEMMA SavePublishedRepeats ==
  ASSUME IndInv, NEW p \in Publishers, SavePublished(p)
  PROVE  /\ RepeatsRelease(p)'
         /\ tx'[p].audit = tx[p].audit /\ tx'[p].entry = tx[p].entry
<1> DEFINE r == req[p]
           v == PublishedId(r)
<1>1. r \in Request /\ PublisherInv(p) /\ pc[p] # "idle"
  BY DEF SavePublished, IndInv, Busy
<1>2. v \in VersionIds /\ PublishedRow(r) \in Row
  BY <1>1, PublishedTypes
<1>3. PublishedRow(r).card = r.card /\ PublishedRow(r).status = "published"
  BY <1>1 DEF PublishedRow, Request, Row, PublisherInv, PreviewIsNew
<1>4. req'[p] = r /\ versions' = versions /\ TypeOK
  BY DEF SavePublished, IndInv
<1>5. CASE UNCHANGED tx /\ ~r.ok
  BY <1>4, <1>5 DEF RepeatsRelease
<1>6. CASE UNCHANGED tx /\ AlreadySaved(p, v, PublishedRow(r))
  <2>1. tx[p].rows[v] = NoRow => Released(v, r.card)
    BY <1>2, <1>3, <1>6 DEF AlreadySaved, View, Released, IsReleased
  <2> QED
    BY <1>4, <1>6, <2>1 DEF RepeatsRelease, Released, PublishedId
<1>60. CASE UNCHANGED tx /\ IsArchivedId(r, v)
  <2>1. tx[p].rows[v] # NoRow
    BY <1>1, <1>60, ListedIsCurrent DEF SavePublished, IsArchivedId, Archiving, Writing
  <2> QED
    BY <1>4, <1>60, <2>1 DEF RepeatsRelease, Released, PublishedId
<1>7. CASE WriteRow(p, v, PublishedRow(r))
  <2>1. tx'[p].rows[v] # NoRow /\ tx'[p].audit = tx[p].audit /\ tx'[p].entry = tx[p].entry
    BY <1>2, <1>4, <1>7, RowWriteKeeps, NullAssumption
  <2> QED
    BY <1>4, <2>1 DEF RepeatsRelease, PublishedId
<1> QED
  BY <1>5, <1>6, <1>60, <1>7 DEF SavePublished, SaveUnlessArchived, SaveVersion

\* Where ids of different events differ, every event of a result is stored.
LEMMA EveryEventStored ==
  ASSUME TypeOK, EventIdsDiffer, NEW r \in Request
  PROVE  StoredEvents(r) = EventsOf(r)
<1>1. EventsOf(r) \subseteq AuditEvent /\ audit \subseteq AuditEvent
  BY EventsType DEF TypeOK
<1> QED
  BY <1>1 DEF StoredEvents, EventIdsDiffer

\* What is pending before and after a step that does not commit.
LEMMA PendingAuditStep ==
  ASSUME IndInv, AuditInv, NEW p \in Publishers, Prepare(p) \/ Step(p) \/ Rollback(p), ~Commit(p)
  PROVE  RepeatsRelease(p)' /\ PendingAudit(p)'
<1>1. TypeOK /\ tx[p] \in Writes /\ RepeatsRelease(p) /\ PendingAudit(p)
  BY DEF IndInv, TypeOK, AuditInv
<1>2. CASE Prepare(p) \/ BuildEvidence(p) \/ LockCard(p)
  BY <1>1, <1>2 DEF Prepare, BuildEvidence, LockCard, TypeOK, RepeatsRelease, PendingAudit,
     Publishing
<1>3. CASE ArchivePrevious(p)
  <2>1. req[p].seen # NoVersion => req[p].seen \in VersionIds
    BY <1>3 DEF ArchivePrevious, IndInv, Busy, Request, MaybeVersion
  <2>2. tx'[p].audit = tx[p].audit
    BY <1>1, <1>3, <2>1, RowWriteKeeps DEF ArchivePrevious
  <2> QED
    BY <1>1, <1>3, <2>2 DEF ArchivePrevious, TypeOK, RepeatsRelease, PendingAudit, Publishing
<1>4. CASE SavePreview(p)
  <2>1. req[p].previewId \in VersionIds
    BY <1>4 DEF SavePreview, IndInv, Busy, Request
  <2>2. tx'[p].audit = tx[p].audit
    BY <1>1, <1>4, <2>1, RowWriteKeeps DEF SavePreview, SaveUnlessArchived, SaveVersion
  <2> QED
    BY <1>1, <1>4, <2>2 DEF SavePreview, TypeOK, RepeatsRelease, PendingAudit, Publishing
<1>5. CASE SavePublished(p)
  <2>1. RepeatsRelease(p)' /\ tx'[p].audit = tx[p].audit
    BY <1>5, SavePublishedRepeats
  <2> QED
    BY <1>1, <1>5, <2>1 DEF SavePublished, TypeOK, PendingAudit
<1>6. CASE SaveAuditEvents(p)
  <2>0. req[p] \in Request
    BY <1>6 DEF SaveAuditEvents, IndInv, Busy
  <2>1. /\ EventIdsDiffer => tx'[p].audit = EventsOf(req[p])
        /\ tx'[p].rows = tx[p].rows
    BY <1>1, <1>6, <2>0, EveryEventStored DEF SaveAuditEvents, TypeOK, Writes
  <2>2. pc'[p] = "audited" /\ req' = req /\ versions' = versions
    BY <1>1, <1>6 DEF SaveAuditEvents, TypeOK
  <2>3. PendingAudit(p)'
    BY <2>1, <2>2 DEF PendingAudit, EventsOf, PublishedId
  <2>4. RepeatsRelease(p)'
    BY <1>1, <1>6, <2>1, <2>2 DEF SaveAuditEvents, RepeatsRelease, Publishing, Released, PublishedId
  <2> QED
    BY <2>3, <2>4
<1>7. CASE PersistEvidence(p)
  <2>1. tx'[p].audit = tx[p].audit /\ tx'[p].rows = tx[p].rows
    BY <1>1, <1>7 DEF PersistEvidence, TypeOK, Writes
  <2>2. pc'[p] = "evidenced" /\ pc[p] = "audited" /\ req' = req /\ versions' = versions
    BY <1>1, <1>7 DEF PersistEvidence, TypeOK
  <2>3. PendingAudit(p)'
    BY <1>1, <2>1, <2>2 DEF PendingAudit, EventsOf, PublishedId
  <2>4. RepeatsRelease(p)'
    BY <1>1, <2>1, <2>2 DEF RepeatsRelease, Publishing, Released, PublishedId
  <2> QED
    BY <2>3, <2>4
<1>8. CASE Rollback(p)
  BY <1>1, <1>8 DEF Rollback, Finish, TypeOK, NoWrites, RepeatsRelease, PendingAudit, Publishing
<1> QED
  BY <1>2, <1>3, <1>4, <1>5, <1>6, <1>7, <1>8 DEF Step

\* A released version stays released.
LEMMA ReleasedStays ==
  ASSUME IndInv, NEW p \in Publishers, Commit(p), NEW v \in VersionIds, NEW c, Released(v, c)
  PROVE  Released(v, c)'
<1>1. versions'[v] = versions[v] \/ (versions'[v] # NoRow /\ versions'[v].card = versions[v].card
                                     /\ versions'[v].status = "archived")
  BY CommittedRows, NullAssumption DEF Released, IsReleased
<1> QED
  BY <1>1 DEF Released, IsReleased

\* The events of a result, and what they leave of the trail when it commits.
LEMMA CommittedEvents ==
  ASSUME EventIdsDiffer, IndInv, AuditInv, NEW p \in Publishers, Commit(p), NEW w \in VersionIds,
         NEW v, v = PublishedId(req[p]), NEW s, s = req[p].seen
  PROVE  /\ (\E e \in audit' : e.type = "published" /\ e.version = w)
              <=> \/ \E e \in audit : e.type = "published" /\ e.version = w
                  \/ req[p].ok /\ w = v
         /\ (\E e \in audit' : e.type = "version.archived" /\ e.version = w)
              <=> \/ \E e \in audit : e.type = "version.archived" /\ e.version = w
                  \/ req[p].ok /\ s # NoVersion /\ w = s
<1>1. audit' = audit \cup EventsOf(req[p])
  BY DEF Commit, AuditInv, PendingAudit
<1> DEFINE release == EventOf("published", req[p], v)
           archival == EventOf("version.archived", req[p], s)
<1>2. \A e : e \in audit' <=> \/ e \in audit
                              \/ req[p].ok /\ e = release
                              \/ req[p].ok /\ s # NoVersion /\ e = archival
  BY <1>1 DEF EventsOf
<1>3. /\ release.type = "published" /\ release.version = v
      /\ archival.type = "version.archived" /\ archival.version = s
  BY DEF EventOf
<1> HIDE DEF release, archival
<1>4. (\E e \in audit' : e.type = "published" /\ e.version = w)
        <=> \/ \E e \in audit : e.type = "published" /\ e.version = w
            \/ req[p].ok /\ w = v
  BY <1>2, <1>3
<1>5. (\E e \in audit' : e.type = "version.archived" /\ e.version = w)
        <=> \/ \E e \in audit : e.type = "version.archived" /\ e.version = w
            \/ req[p].ok /\ s # NoVersion /\ w = s
  BY <1>2, <1>3
<1> QED
  BY <1>4, <1>5

\* A commit keeps the trail and the versions in agreement.
LEMMA CommitAudit ==
  ASSUME IndInv, IndInv', AuditInv, NEW p \in Publishers, Commit(p),
         NEW v, v = PublishedId(req[p]), NEW k, k = req[p].card, NEW s, s = req[p].seen
  PROVE  AuditMatchesVersions'
<1> SUFFICES ASSUME EventIdsDiffer, NEW w \in VersionIds
             PROVE  /\ (\E e \in audit' : e.type = "published" /\ e.version = w)
                         <=> \E c \in Cards : Released(w, c)'
                    /\ (\E e \in audit' : e.type = "version.archived" /\ e.version = w)
                         <=> \E c \in Cards : Released(w, c)' /\ ~Current(w, c)'
  BY DEF AuditMatchesVersions
<1>1. /\ PublisherInv(p) /\ req[p] \in Request /\ pc[p] \in Publishing
      /\ RepeatsRelease(p) /\ k \in Cards /\ v \in VersionIds
  BY PublishedTypes DEF Commit, IndInv, Busy, Publishing, AuditInv, Request
<1>2. /\ (\E e \in audit : e.type = "published" /\ e.version = w) <=> \E c \in Cards : Released(w, c)
      /\ (\E e \in audit : e.type = "version.archived" /\ e.version = w)
           <=> \E c \in Cards : Released(w, c) /\ ~Current(w, c)
  BY DEF AuditInv, AuditMatchesVersions
<1>3. /\ (\E e \in audit' : e.type = "published" /\ e.version = w)
           <=> \/ \E c \in Cards : Released(w, c)
               \/ req[p].ok /\ w = v
      /\ (\E e \in audit' : e.type = "version.archived" /\ e.version = w)
           <=> \/ \E c \in Cards : Released(w, c) /\ ~Current(w, c)
               \/ req[p].ok /\ s # NoVersion /\ w = s
  BY <1>2, CommittedEvents
<1>4. CASE ~req[p].ok \/ (s = NoVersion /\ tx[p].rows[v] = NoRow)
  <2>1. \A c \in Cards : (Released(w, c)' <=> Released(w, c)) /\ (Current(w, c)' <=> Current(w, c))
    BY <1>4, NothingReleased
  <2>2. req[p].ok => Released(v, k)
    BY <1>1, <1>4 DEF RepeatsRelease
  <2> QED
    BY <1>1, <1>3, <1>4, <2>1, <2>2
<1>5. CASE /\ req[p].ok /\ versions[v] = NoRow /\ tx[p].rows[v] = PublishedRow(req[p])
           /\ \A x \in VersionIds \ {v} : ~IsPublished(View(p, x), req[p].card, req[p].tenant)
  <2>1. /\ AlwaysOneCurrent' /\ Current(v, k)'
        /\ IF s = NoVersion THEN \A x \in VersionIds : ~Current(x, k) ELSE Current(s, k)
        /\ \A c \in Cards : w # v =>
             /\ Released(w, c)' <=> Released(w, c)
             /\ c # k => (Current(w, c)' <=> Current(w, c))
    BY <1>1, <1>5, CommitRelease DEF IndInv
  <2>2. s # NoVersion => s \in VersionIds /\ s # v
    BY <1>1, <1>5, <2>1 DEF Request, MaybeVersion, Current, Released, IsReleased
  <2>3. CASE w = v
    <3>1. \A c \in Cards : ~Released(v, c) /\ (Released(v, c)' => c = k)
      BY <1>5, <2>1 DEF Current, Released, IsReleased
    <3>2. Released(v, k)'
      BY <2>1 DEF Current
    <3> QED
      BY <1>1, <1>3, <1>5, <2>1, <2>2, <2>3, <3>1, <3>2
  <2>4. CASE w # v
    <3>1. ~Current(w, k)'
      BY <1>1, <2>1, <2>4 DEF AlwaysOneCurrent
    <3>2. Current(w, k) => w = s
      BY <1>1, <2>1, <2>2 DEF IndInv, AlwaysOneCurrent, Current
    <3>3. s # NoVersion /\ w = s => Released(w, k)
      BY <2>1 DEF Current
    <3> QED
      BY <1>1, <1>3, <1>5, <2>1, <2>2, <2>4, <3>1, <3>2, <3>3, ConstantsAssumption
  <2> QED
    BY <2>3, <2>4
<1>6. CASE IsArchivedId(req[p], v)
  <2>1. /\ Current(v, k)
        /\ \A c \in Cards :
             /\ Released(w, c)' <=> Released(w, c)
             /\ Current(w, c)' <=> Current(w, c) /\ w # v
    BY <1>6, CommitOfSameId
  <2>2. req[p].ok /\ s # NoVersion /\ v = s
    BY <1>6 DEF IsArchivedId
  <2>3. \A c \in Cards : Released(v, c) => c = k
    BY <2>1 DEF Current, Released, IsReleased
  <2> QED
    BY <1>1, <1>3, <2>1, <2>2, <2>3 DEF Current
<1> QED
  BY <1>1, <1>4, <1>5, <1>6 DEF PublisherInv, InsertsReplacement

\* Every step keeps what the audit trail rests on.
LEMMA AuditStep ==
  ASSUME IndInv, AuditInv, [Next]_vars
  PROVE  AuditInv'
<1>0. IndInv' /\ TypeOK
  BY NextInv DEF IndInv
<1>1. CASE UNCHANGED vars
  BY <1>1 DEF vars, AuditInv, AuditMatchesVersions, RepeatsRelease, PendingAudit, Current, Released,
     EventsOf, PublishedId
<1>2. ASSUME NEW p \in Publishers, Prepare(p) \/ Step(p) \/ Rollback(p), ~Commit(p)
      PROVE  AuditInv'
  <2>1. versions' = versions /\ audit' = audit
    BY <1>2 DEF Step, Prepare, BuildEvidence, LockCard, ArchivePrevious, SavePreview,
       SavePublished, SaveAuditEvents, PersistEvidence, Rollback
  <2>2. AuditMatchesVersions'
    BY <2>1 DEF AuditInv, AuditMatchesVersions, Current, Released
  <2>3. ASSUME NEW q \in Publishers \ {p} PROVE RepeatsRelease(q)' /\ PendingAudit(q)'
    <3>1. pc'[q] = pc[q] /\ req'[q] = req[q] /\ tx'[q] = tx[q]
      BY <1>0, <1>2, StepFrame
    <3> QED
      BY <2>1, <3>1 DEF AuditInv, RepeatsRelease, PendingAudit, Released, EventsOf, PublishedId
  <2> QED
    BY <1>2, <2>2, <2>3, PendingAuditStep DEF AuditInv
<1>3. ASSUME NEW p \in Publishers, Commit(p)
      PROVE  AuditInv'
  <2>1. AuditMatchesVersions'
    BY <1>0, <1>3, CommitAudit
  <2>2. RepeatsRelease(p)' /\ PendingAudit(p)'
    BY <1>0, <1>3 DEF Commit, Finish, TypeOK, NoWrites, RepeatsRelease, PendingAudit, Publishing
  <2>3. ASSUME NEW q \in Publishers \ {p} PROVE RepeatsRelease(q)' /\ PendingAudit(q)'
    <3>1. pc'[q] = pc[q] /\ req'[q] = req[q] /\ tx'[q] = tx[q]
      BY <1>0, <1>3, StepFrame DEF Step
    <3>2. PendingAudit(q)'
      BY <3>1 DEF AuditInv, PendingAudit, EventsOf, PublishedId
    <3>3. SUFFICES ASSUME NEW v, v = PublishedId(req[q]), NEW c, c = req[q].card,
                          pc[q] \in Publishing, req[q].ok, tx[q].rows[v] = NoRow
                   PROVE  Released(v, c)'
      BY <3>1, <3>2 DEF RepeatsRelease, PublishedId, Released
    <3>4. v \in VersionIds
      BY <3>3, PublishedTypes DEF IndInv, Busy, Publishing
    <3>5. Released(v, c)
      BY <3>3 DEF AuditInv, RepeatsRelease
    <3> QED
      BY <1>3, <3>4, <3>5, ReleasedStays
  <2> QED
    BY <2>1, <2>2, <2>3 DEF AuditInv
<1> QED
  BY <1>1, <1>2, <1>3 DEF Next

\* The audit trail and the versions agree, however publishers race, repeat and
\* fail, and whatever version ids collide, as long as the ids of the events
\* themselves do not (persistSettingsAuditEvents, in the publish transaction).
THEOREM AuditFollowsVersions == Spec => []AuditMatchesVersions
<1>1. Init => AuditInv
  BY DEF Init, AuditInv, AuditMatchesVersions, RepeatsRelease, PendingAudit, Publishing, NoWrites,
     Released, IsReleased
<1>2. IndInv /\ AuditInv /\ [Next]_vars => AuditInv'
  BY AuditStep
<1>3. AuditInv => AuditMatchesVersions
  BY DEF AuditInv
<1> QED
  BY <1>1, <1>2, <1>3, InvariantHolds, PTL DEF Spec

\* The events pending before and after a step that does not commit are those of
\* the publisher's own result.
LEMMA PendingIsOwnStep ==
  ASSUME IndInv, TrailInv, NEW p \in Publishers, Prepare(p) \/ Step(p) \/ Rollback(p), ~Commit(p)
  PROVE  PendingIsOwn(p)'
<1>1. TypeOK /\ tx[p] \in Writes /\ PendingIsOwn(p)
  BY DEF IndInv, TypeOK, TrailInv
<1>2. CASE Prepare(p) \/ BuildEvidence(p) \/ LockCard(p)
  BY <1>1, <1>2 DEF Prepare, BuildEvidence, LockCard, TypeOK, PendingIsOwn
<1>3. CASE ArchivePrevious(p)
  <2>1. req[p].seen # NoVersion => req[p].seen \in VersionIds
    BY <1>3 DEF ArchivePrevious, IndInv, Busy, Request, MaybeVersion
  <2>2. tx'[p].audit = tx[p].audit
    BY <1>1, <1>3, <2>1, RowWriteKeeps DEF ArchivePrevious
  <2> QED
    BY <1>1, <1>3, <2>2 DEF ArchivePrevious, TypeOK, PendingIsOwn
<1>4. CASE SavePreview(p)
  <2>1. req[p].previewId \in VersionIds
    BY <1>4 DEF SavePreview, IndInv, Busy, Request
  <2>2. tx'[p].audit = tx[p].audit
    BY <1>1, <1>4, <2>1, RowWriteKeeps DEF SavePreview, SaveUnlessArchived, SaveVersion
  <2> QED
    BY <1>1, <1>4, <2>2 DEF SavePreview, TypeOK, PendingIsOwn
<1>5. CASE SavePublished(p)
  <2>1. tx'[p].audit = tx[p].audit
    BY <1>5, SavePublishedRepeats
  <2> QED
    BY <1>1, <1>5, <2>1 DEF SavePublished, TypeOK, PendingIsOwn
<1>6. CASE SaveAuditEvents(p)
  <2>1. tx'[p].audit = StoredEvents(req[p]) /\ pc'[p] = "audited" /\ req' = req
    BY <1>1, <1>6 DEF SaveAuditEvents, TypeOK, Writes
  <2>2. StoredEvents(req[p]) \subseteq EventsOf(req[p])
    BY DEF StoredEvents
  <2> QED
    BY <2>1, <2>2 DEF PendingIsOwn, EventsOf, PublishedId
<1>7. CASE PersistEvidence(p)
  <2>1. tx'[p].audit = tx[p].audit
    BY <1>1, <1>7 DEF PersistEvidence, TypeOK, Writes
  <2>2. pc'[p] = "evidenced" /\ pc[p] = "audited" /\ req' = req
    BY <1>1, <1>7 DEF PersistEvidence, TypeOK
  <2> QED
    BY <1>1, <2>1, <2>2 DEF PendingIsOwn, EventsOf, PublishedId
<1>8. CASE Rollback(p)
  BY <1>1, <1>8 DEF Rollback, Finish, TypeOK, NoWrites, PendingIsOwn
<1> QED
  BY <1>2, <1>3, <1>4, <1>5, <1>6, <1>7, <1>8 DEF Step

\* A released version that is no longer published stays so.
LEMMA ArchivedStays ==
  ASSUME IndInv, NEW p \in Publishers, Commit(p), NEW v \in VersionIds, NEW c,
         Released(v, c), ~Current(v, c)
  PROVE  ~Current(v, c)'
<1>1. versions'[v] = versions[v] \/ versions'[v].status = "archived"
  BY CommittedRows, NullAssumption DEF Released, IsReleased
<1> QED
  BY <1>1 DEF Current, Released, IsReleased

\* What a result's events tell of has taken effect once the result is committed.
LEMMA CommittedResult ==
  ASSUME IndInv, IndInv', AuditInv, NEW p \in Publishers, Commit(p), req[p].ok,
         NEW v, v = PublishedId(req[p]), NEW k, k = req[p].card, NEW s, s = req[p].seen
  PROVE  /\ Released(v, k)'
         /\ s # NoVersion => Released(s, k)' /\ ~Current(s, k)'
<1>1. /\ PublisherInv(p) /\ req[p] \in Request /\ pc[p] \in Publishing
      /\ RepeatsRelease(p) /\ k \in Cards /\ v \in VersionIds
      /\ s # NoVersion => s \in VersionIds
  BY PublishedTypes DEF Commit, IndInv, Busy, Publishing, AuditInv, Request, MaybeVersion
<1>2. CASE s = NoVersion /\ tx[p].rows[v] = NoRow
  BY <1>1, <1>2, ReleasedStays DEF RepeatsRelease
<1>3. CASE /\ versions[v] = NoRow /\ tx[p].rows[v] = PublishedRow(req[p])
           /\ \A x \in VersionIds \ {v} : ~IsPublished(View(p, x), req[p].card, req[p].tenant)
  <2>1. /\ AlwaysOneCurrent' /\ Current(v, k)'
        /\ s # NoVersion => Current(s, k)
    BY <1>1, <1>3, CommitRelease DEF IndInv
  <2>2. s # NoVersion => s # v /\ Released(s, k)
    BY <1>3, <2>1 DEF Current, Released, IsReleased
  <2>3. s # NoVersion => Released(s, k)'
    BY <1>1, <2>2, ReleasedStays
  <2>4. s # NoVersion => ~Current(s, k)'
    BY <1>1, <2>1, <2>2 DEF AlwaysOneCurrent
  <2>5. Released(v, k)'
    BY <2>1 DEF Current
  <2> QED
    BY <2>3, <2>4, <2>5
<1>4. CASE IsArchivedId(req[p], v)
  <2>1. v = s /\ Current(v, k)
    BY <1>4, CommitOfSameId DEF IsArchivedId
  <2>2. ~Current(v, k)'
    BY <1>1, <1>4, CommitOfSameId
  <2>3. Released(v, k)'
    BY <1>1, <2>1, ReleasedStays DEF Current
  <2> QED
    BY <2>1, <2>2, <2>3
<1> QED
  BY <1>1, <1>2, <1>3, <1>4 DEF PublisherInv, InsertsReplacement

\* Every step keeps the trail true, whatever events it could not store.
LEMMA TrailStep ==
  ASSUME IndInv, AuditInv, TrailInv, [Next]_vars
  PROVE  TrailInv'
<1>0. IndInv' /\ TypeOK
  BY NextInv DEF IndInv
<1>1. CASE UNCHANGED vars
  BY <1>1 DEF vars, TrailInv, TrailIsTrue, PendingIsOwn, Current, Released, EventsOf, PublishedId
<1>2. ASSUME NEW p \in Publishers, Prepare(p) \/ Step(p) \/ Rollback(p),
             NEW q \in Publishers \ {p}
      PROVE  PendingIsOwn(q)'
  <2>1. pc'[q] = pc[q] /\ req'[q] = req[q] /\ tx'[q] = tx[q]
    BY <1>0, <1>2, StepFrame
  <2> QED
    BY <2>1 DEF TrailInv, PendingIsOwn, EventsOf, PublishedId
<1>3. ASSUME NEW p \in Publishers, Prepare(p) \/ Step(p) \/ Rollback(p), ~Commit(p)
      PROVE  TrailInv'
  <2>1. versions' = versions /\ audit' = audit
    BY <1>3 DEF Step, Prepare, BuildEvidence, LockCard, ArchivePrevious, SavePreview,
       SavePublished, SaveAuditEvents, PersistEvidence, Rollback
  <2>2. TrailIsTrue'
    BY <2>1 DEF TrailInv, TrailIsTrue, Current, Released
  <2> QED
    BY <1>2, <1>3, <2>2, PendingIsOwnStep DEF TrailInv
<1>4. ASSUME NEW p \in Publishers, Commit(p)
      PROVE  TrailInv'
  <2>1. PendingIsOwn(p)'
    BY <1>0, <1>4 DEF Commit, Finish, TypeOK, NoWrites, PendingIsOwn
  <2>2. ASSUME NEW e \in audit'
        PROVE  /\ Released(e.version, e.card)'
               /\ e.type = "version.archived" => ~Current(e.version, e.card)'
    <3>1. CASE e \in audit
      <4>1. e.version \in VersionIds
        BY <1>0, <3>1 DEF TypeOK, AuditEvent
      <4>2. Released(e.version, e.card) /\ (e.type = "version.archived" => ~Current(e.version, e.card))
        BY <3>1 DEF TrailInv, TrailIsTrue
      <4> QED
        BY <1>4, <4>1, <4>2, ReleasedStays, ArchivedStays
    <3>2. CASE e \in EventsOf(req[p])
      <4>1. ASSUME NEW v, v = PublishedId(req[p]), NEW k, k = req[p].card, NEW s, s = req[p].seen
            PROVE  /\ Released(e.version, e.card)'
                   /\ e.type = "version.archived" => ~Current(e.version, e.card)'
        <5>1. /\ req[p].ok
              /\ \/ e = [type |-> "published", card |-> k, version |-> v]
                 \/ s # NoVersion /\ e = [type |-> "version.archived", card |-> k, version |-> s]
          BY <3>2, <4>1 DEF EventsOf, EventOf
        <5>2. /\ Released(v, k)'
              /\ s # NoVersion => Released(s, k)' /\ ~Current(s, k)'
          BY <1>0, <1>4, <4>1, <5>1, CommittedResult
        <5> QED
          BY <5>1, <5>2
      <4> QED
        BY <4>1
    <3> QED
      BY <1>4, <3>1, <3>2 DEF Commit, TrailInv, PendingIsOwn
  <2>3. TrailIsTrue'
    BY <2>2 DEF TrailIsTrue
  <2> QED
    BY <1>2, <1>4, <2>1, <2>3 DEF TrailInv, Step
<1> QED
  BY <1>1, <1>3, <1>4 DEF Next

\* Whatever ids of versions and of events collide, the trail is true, and a card
\* without a published version was left so by a publish that the loop of
\* persistSettingsPublishResult passed by, because it has the archived id.
THEOREM CollisionsContained == Spec => []CollisionsAreContained
<1>1. Init => AuditInv /\ TrailInv
  BY DEF Init, AuditInv, AuditMatchesVersions, RepeatsRelease, PendingAudit, Publishing, NoWrites,
     Released, IsReleased, TrailInv, TrailIsTrue, PendingIsOwn
<1>2. IndInv /\ AuditInv /\ TrailInv /\ [Next]_vars => AuditInv' /\ TrailInv'
  BY AuditStep, TrailStep
<1>3. IndInv /\ TrailInv => CollisionsAreContained
  BY DEF IndInv, TrailInv, CollisionsAreContained, AlwaysOneCurrent, Intact
<1> QED
  BY <1>1, <1>2, <1>3, InvariantHolds, PTL DEF Spec

-----------------------------------------------------------------------------
(***************************************************************************)
(* The chain of evidence                                                   *)
(***************************************************************************)

\* What is pending of the chain before and after a step that does not commit.
LEMMA PendingEntryStep ==
  ASSUME IndInv, ChainInv, NEW p \in Publishers, Prepare(p) \/ Step(p) \/ Rollback(p), ~Commit(p)
  PROVE  PendingEntry(p)'
<1>1. TypeOK /\ tx[p] \in Writes /\ PendingEntry(p) /\ MaxChainEntries \in Nat
  BY ConstantsAssumption DEF IndInv, TypeOK, ChainInv
<1>2. CASE Prepare(p) \/ LockCard(p)
  BY <1>1, <1>2 DEF Prepare, LockCard, TypeOK, PendingEntry
<1>3. CASE BuildEvidence(p)
  <2>1. req[p].card \in Cards /\ chain[req[p].card] \in Seq(Entry)
    BY <1>1, <1>3 DEF BuildEvidence, IndInv, Busy, Request, TypeOK
  <2>2. Len(chain[req[p].card]) \in Nat
    BY <2>1
  <2>3. built'[p] <= MaxChainEntries + 1 /\ tx'[p].entry = NoEntry
    BY <1>1, <1>3, <2>2 DEF BuildEvidence, CanBuildEvidence, TypeOK, PendingEntry
  <2> QED
    BY <2>3 DEF PendingEntry
<1>4. CASE ArchivePrevious(p)
  <2>1. req[p].seen # NoVersion => req[p].seen \in VersionIds
    BY <1>4 DEF ArchivePrevious, IndInv, Busy, Request, MaybeVersion
  <2>2. tx'[p].entry = tx[p].entry
    BY <1>1, <1>4, <2>1, RowWriteKeeps DEF ArchivePrevious
  <2> QED
    BY <1>1, <1>4, <2>2 DEF ArchivePrevious, TypeOK, PendingEntry
<1>5. CASE SavePreview(p)
  <2>1. req[p].previewId \in VersionIds
    BY <1>5 DEF SavePreview, IndInv, Busy, Request
  <2>2. tx'[p].entry = tx[p].entry
    BY <1>1, <1>5, <2>1, RowWriteKeeps DEF SavePreview, SaveUnlessArchived, SaveVersion
  <2> QED
    BY <1>1, <1>5, <2>2 DEF SavePreview, TypeOK, PendingEntry
<1>6. CASE SavePublished(p)
  <2>1. tx'[p].entry = tx[p].entry
    BY <1>6, SavePublishedRepeats
  <2> QED
    BY <1>1, <1>6, <2>1 DEF SavePublished, TypeOK, PendingEntry
<1>7. CASE SaveAuditEvents(p)
  <2>1. tx'[p].entry = tx[p].entry
    BY <1>1, <1>7 DEF SaveAuditEvents, TypeOK, Writes
  <2> QED
    BY <1>1, <1>7, <2>1 DEF SaveAuditEvents, TypeOK, PendingEntry
<1>8. CASE PersistEvidence(p)
  <2>1. \/ tx' = tx
        \/ /\ tx'[p].entry = [version |-> PublishedId(req[p]), at |-> req[p].at, key |-> req[p].key]
           /\ built[p] = Len(chain[req[p].card]) + 1
    BY <1>1, <1>8 DEF PersistEvidence, TypeOK, Writes
  <2>2. pc'[p] = "evidenced" /\ pc[p] = "audited" /\ UNCHANGED <<chain, req, built>>
    BY <1>1, <1>8 DEF PersistEvidence, TypeOK
  <2> QED
    BY <1>1, <2>1, <2>2 DEF PendingEntry, PublishedId
<1>9. CASE Rollback(p)
  BY <1>1, <1>9 DEF Rollback, Finish, TypeOK, NoWrites, PendingEntry
<1> QED
  BY <1>2, <1>3, <1>4, <1>5, <1>6, <1>7, <1>8, <1>9 DEF Step

\* What a commit appends.
LEMMA CommittedChain ==
  ASSUME IndInv, NEW p \in Publishers, Commit(p), NEW k, k = req[p].card
  PROVE  /\ k \in Cards /\ chain[k] \in Seq(Entry)
         /\ \A c \in Cards : c # k \/ tx[p].entry = NoEntry => chain'[c] = chain[c]
         /\ tx[p].entry # NoEntry => /\ chain'[k] = Append(chain[k], tx[p].entry)
                                    /\ Len(chain'[k]) = Len(chain[k]) + 1
                                    /\ chain'[k][Len(chain[k]) + 1] = tx[p].entry
                                    /\ \A i \in 1..Len(chain[k]) : chain'[k][i] = chain[k][i]
<1>1. k \in Cards /\ chain[k] \in Seq(Entry) /\ tx[p].entry \in Entry \cup {NoEntry}
  BY DEF Commit, IndInv, Busy, Request, TypeOK, Writes
<1>2. tx[p].entry # NoEntry => chain'[k] = Append(chain[k], tx[p].entry)
  BY <1>1 DEF Commit, IndInv, TypeOK
<1>3. \A c \in Cards : c # k \/ tx[p].entry = NoEntry => chain'[c] = chain[c]
  BY DEF Commit, IndInv, TypeOK
<1> QED
  BY <1>1, <1>2, <1>3

\* Every step keeps the chain within its bound.
LEMMA ChainStep ==
  ASSUME IndInv, ChainInv, [Next]_vars
  PROVE  ChainInv'
<1>0. TypeOK /\ MaxChainEntries \in Nat
  BY ConstantsAssumption DEF IndInv
<1>1. CASE UNCHANGED vars
  BY <1>1 DEF vars, ChainInv, ChainIsBounded, PendingEntry, PublishedId
<1>2. ASSUME NEW p \in Publishers, Prepare(p) \/ Step(p) \/ Rollback(p), ~Commit(p)
      PROVE  ChainInv'
  <2>1. chain' = chain
    BY <1>2 DEF Step, Prepare, BuildEvidence, LockCard, ArchivePrevious, SavePreview,
       SavePublished, SaveAuditEvents, PersistEvidence, Rollback
  <2>2. ASSUME NEW q \in Publishers \ {p} PROVE PendingEntry(q)'
    <3>1. pc'[q] = pc[q] /\ req'[q] = req[q] /\ built'[q] = built[q] /\ tx'[q] = tx[q]
      BY <1>0, <1>2, StepFrame
    <3> QED
      BY <2>1, <3>1 DEF ChainInv, PendingEntry, PublishedId
  <2> QED
    BY <1>2, <2>1, <2>2, PendingEntryStep DEF ChainInv, ChainIsBounded
<1>3. ASSUME NEW p \in Publishers, Commit(p), NEW k, k = req[p].card
      PROVE  ChainInv'
  <2>1. ChainIsBounded'
    <3> SUFFICES ASSUME NEW c \in Cards PROVE Len(chain'[c]) <= MaxChainEntries + 1
      BY DEF ChainIsBounded
    <3>1. CASE c # k \/ tx[p].entry = NoEntry
      BY <1>3, <3>1, CommittedChain DEF ChainInv, ChainIsBounded
    <3>2. CASE c = k /\ tx[p].entry # NoEntry
      <4>1. built[p] <= MaxChainEntries + 1 /\ built[p] = Len(chain[k]) + 1
        BY <1>3, <3>2 DEF ChainInv, PendingEntry
      <4>2. Len(chain'[k]) = Len(chain[k]) + 1
        BY <1>3, <3>2, CommittedChain
      <4> QED
        BY <3>2, <4>1, <4>2
    <3> QED
      BY <3>1, <3>2
  <2>2. PendingEntry(p)'
    BY <1>0, <1>3 DEF Commit, Finish, TypeOK, NoWrites, PendingEntry
  <2>3. ASSUME NEW q \in Publishers \ {p} PROVE PendingEntry(q)'
    <3>1. pc'[q] = pc[q] /\ req'[q] = req[q] /\ built'[q] = built[q] /\ tx'[q] = tx[q]
      BY <1>0, <1>3, StepFrame DEF Step
    <3>2. tx[q].entry # NoEntry => req[q].card \in Cards /\ req[q].card # k
      BY <1>3, DifferentCards DEF ChainInv, PendingEntry, Commit, Writing, IndInv, Busy, Request
    <3>3. tx[q].entry # NoEntry => chain'[req[q].card] = chain[req[q].card]
      BY <1>3, <3>2, CommittedChain
    <3> QED
      BY <3>1, <3>3 DEF ChainInv, PendingEntry, PublishedId
  <2> QED
    BY <2>1, <2>2, <2>3 DEF ChainInv
<1> QED
  BY <1>1, <1>2, <1>3 DEF Next

\* The inductive invariant of the chain.
LEMMA ChainInvHolds == Spec => []ChainInv
<1>1. Init => ChainInv
  BY ConstantsAssumption DEF Init, ChainInv, ChainIsBounded, PendingEntry, NoWrites
<1>2. IndInv /\ ChainInv /\ [Next]_vars => ChainInv'
  BY ChainStep
<1> QED
  BY <1>1, <1>2, InvariantHolds, PTL DEF Spec

\* A chain never grows further past the limit of the verifier than one entry,
\* which is the last that buildEvidence agrees to (auditChainVerificationLimits):
\* no race of publishers appends a second one.
THEOREM ChainStaysBounded == Spec => []ChainIsBounded
<1>1. ChainInv => ChainIsBounded
  BY DEF ChainInv
<1> QED
  BY <1>1, ChainInvHolds, PTL

\* An entry of a chain is well typed.
LEMMA EntryType ==
  ASSUME TypeOK, NEW c \in Cards, NEW i \in 1..Len(chain[c])
  PROVE  chain[c][i].version \in VersionIds /\ chain[c][i].at \in Times
<1>1. chain[c] \in Seq(Entry)
  BY DEF TypeOK
<1>2. chain[c][i] \in Entry
  BY <1>1
<1> QED
  BY <1>2 DEF Entry

\* Where evidence is required nobody locks the card without having built it,
\* and a repeated release has no manifest to insert: it was made for the same
\* time, so it is there already.
LEMMA WithEvidenceStep ==
  ASSUME EvidenceRequired, TimesSeparate, IndInv, AuditInv, ChainInv, EvidenceInv,
         NEW p \in Publishers, Prepare(p) \/ Step(p) \/ Rollback(p), ~Commit(p)
  PROVE  WithEvidence(p)'
<1>1. TypeOK /\ tx[p] \in Writes /\ WithEvidence(p)
  BY DEF IndInv, TypeOK, EvidenceInv
<1>2. CASE Prepare(p) \/ Rollback(p)
  BY <1>1, <1>2 DEF Prepare, Rollback, Finish, TypeOK, WithEvidence, Writing
<1>3. CASE BuildEvidence(p)
  <2>1. req[p] \in Request
    BY <1>3 DEF BuildEvidence, IndInv, Busy
  <2>2. chain[req[p].card] \in Seq(Entry)
    BY <1>1, <2>1 DEF Request, TypeOK
  <2>3. req[p].signing /\ req[p].ok /\ built'[p] = Len(chain[req[p].card]) + 1
    BY <1>1, <1>3 DEF BuildEvidence, CanBuildEvidence, TypeOK
  <2>4. built'[p] # 0
    BY <2>2, <2>3
  <2> QED
    BY <1>1, <1>3, <2>3, <2>4 DEF BuildEvidence, TypeOK, WithEvidence
<1>4. CASE LockCard(p) \/ ArchivePrevious(p) \/ SavePreview(p) \/ SavePublished(p) \/ SaveAuditEvents(p)
  <2>1. /\ pc[p] \in Writing \cup {"built"} /\ pc'[p] # "evidenced"
        /\ req' = req /\ built' = built
    BY <1>1, <1>4 DEF LockCard, ArchivePrevious, SavePreview, SavePublished, SaveAuditEvents,
       TypeOK, Writing
  <2> QED
    BY <1>1, <2>1 DEF WithEvidence
<1>5. CASE PersistEvidence(p)
  <2> DEFINE v == PublishedId(req[p])
             entry == [version |-> v, at |-> req[p].at, key |-> req[p].key]
  <2>1. /\ req[p] \in Request /\ req[p].ok /\ built[p] # 0 /\ pc[p] = "audited"
        /\ pc'[p] = "evidenced" /\ req' = req /\ built' = built
    BY <1>1, <1>5 DEF PersistEvidence, IndInv, Busy, TypeOK, WithEvidence, Writing
  <2>2. ManifestIsFree(req[p]) /\ tx' = [tx EXCEPT ![p].entry = entry]
    BY <1>5, <2>1 DEF PersistEvidence
  <2>3. entry \in Entry
    BY <2>1, PublishedTypes DEF Entry, Request
  <2>4. tx'[p].entry # NoEntry /\ tx'[p].rows = tx[p].rows
    BY <1>1, <2>2, <2>3, NullAssumption DEF TypeOK, Writes
  <2>5. tx[p].rows[v] # NoRow /\ ~IsArchivedId(req[p], v)
    <3> SUFFICES ASSUME tx[p].rows[v] = NoRow \/ IsArchivedId(req[p], v) PROVE FALSE
      OBVIOUS
    <3>1. Released(v, req[p].card)
      <4>1. CASE tx[p].rows[v] = NoRow
        BY <2>1, <4>1 DEF AuditInv, RepeatsRelease, Publishing
      <4>2. CASE IsArchivedId(req[p], v)
        BY <2>1, <4>2, ListedIsCurrent DEF IsArchivedId, Archiving, Writing, Current
      <4> QED
        BY <4>1, <4>2
    <3>2. v \in VersionIds /\ req[p].card \in Cards
      BY <2>1, PublishedTypes DEF Request
    <3>3. PICK i \in 1..Len(chain[req[p].card]) : chain[req[p].card][i].version = v
      BY <3>1, <3>2 DEF EvidenceInv, Covered
    <3>4. PICK z \in Snapshots, w \in MaybeVersion :
            v = VersionId("published", z, chain[req[p].card][i].at, w)
      BY <3>2, <3>3 DEF EvidenceInv, EntriesAreDated
    <3>5. chain[req[p].card][i].at \in Times
      BY <1>1, <3>2, <3>3, EntryType
    <3>6. v = VersionId("published", req[p].preview.snap, req[p].at, req[p].seen)
      BY DEF PublishedId
    <3>7. req[p].preview.snap \in Snapshots /\ req[p].at \in Times /\ req[p].seen \in MaybeVersion
      BY <2>1 DEF Request, Row
    <3>8. chain[req[p].card][i].at = req[p].at
      BY <3>4, <3>5, <3>6, <3>7 DEF TimesSeparate
    <3> QED
      BY <2>2, <3>3, <3>8 DEF ManifestIsFree
  <2> QED
    BY <2>1, <2>4, <2>5 DEF WithEvidence, PublishedId, IsArchivedId
<1> QED
  BY <1>2, <1>3, <1>4, <1>5 DEF Step

\* A release takes the next place in the chain of its card, and no other chain
\* or release is touched.
LEMMA CommitEvidence ==
  ASSUME EvidenceRequired, IndInv, IndInv', ChainInv, EvidenceInv, NEW p \in Publishers, Commit(p),
         NEW v, v = PublishedId(req[p]), NEW k, k = req[p].card, NEW s, s = req[p].seen
  PROVE  /\ EvidenceFollowsHistory' /\ EntriesAreDated'
         /\ \A c \in Cards, w \in VersionIds : Released(w, c)' => Covered(w, c)'
<1> DEFINE n == Len(chain[k])
<1>1. /\ PublisherInv(p) /\ req[p] \in Request /\ pc[p] = "evidenced" /\ pc[p] \in Publishing
      /\ v \in VersionIds /\ k \in Cards /\ req[p].ok
      /\ tx[p].entry # NoEntry /\ tx[p].rows[v] # NoRow /\ ~IsArchivedId(req[p], v)
  BY PublishedTypes DEF Commit, IndInv, Busy, Publishing, Request, EvidenceInv, WithEvidence, Writing
<1>2. /\ versions[v] = NoRow /\ tx[p].rows[v] = PublishedRow(req[p])
      /\ \A w \in VersionIds \ {v} : ~IsPublished(View(p, w), req[p].card, req[p].tenant)
  BY <1>1 DEF PublisherInv, InsertsReplacement
<1>3. /\ AlwaysOneCurrent' /\ Current(v, k)' /\ versions'[v] = PublishedRow(req[p])
      /\ IF s = NoVersion THEN \A w \in VersionIds : ~Current(w, k) ELSE Current(s, k)
      /\ s = NoVersion /\ Intact(k) => \A w \in VersionIds : ~Released(w, k)
      /\ \A w \in VersionIds, c \in Cards : w # v =>
           /\ Released(w, c)' <=> Released(w, c)
           /\ c # k => (Current(w, c)' <=> Current(w, c))
           /\ Released(w, c) => versions'[w].prev = versions[w].prev
  BY <1>1, <1>2, CommitRelease DEF IndInv
<1>4. versions'[v].prev = s /\ versions'[v].card = k
  BY <1>1, <1>3 DEF PublishedRow, Request, Row, PublisherInv, PreviewIsNew
<1>5. /\ chain[k] \in Seq(Entry) /\ n \in Nat /\ Len(chain'[k]) = n + 1
      /\ chain'[k][n + 1] = tx[p].entry
      /\ \A i \in 1..n : chain'[k][i] = chain[k][i]
      /\ \A c \in Cards : c # k => chain'[c] = chain[c]
  <2>1. /\ chain[k] \in Seq(Entry)
        /\ \A c \in Cards : c # k \/ tx[p].entry = NoEntry => chain'[c] = chain[c]
        /\ tx[p].entry # NoEntry => /\ Len(chain'[k]) = Len(chain[k]) + 1
                                   /\ chain'[k][Len(chain[k]) + 1] = tx[p].entry
                                   /\ \A i \in 1..Len(chain[k]) : chain'[k][i] = chain[k][i]
    BY CommittedChain
  <2> QED
    BY <1>1, <2>1
<1>6. tx[p].entry.version = v /\ tx[p].entry.at = req[p].at
  <2>1. PendingEntry(p)
    BY DEF ChainInv
  <2> QED
    BY <1>1, <2>1 DEF PendingEntry
<1>7. ASSUME NEW c \in Cards, NEW i \in 1..Len(chain[c]), NEW x, x = chain[c][i].version
      PROVE  /\ x \in VersionIds /\ x # v
             /\ Released(x, c) /\ Released(x, c)' /\ versions'[x].prev = versions[x].prev
             /\ versions[x].prev = IF i = 1 THEN NoVersion ELSE chain[c][i-1].version
             /\ i = Len(chain[c]) <=> Current(x, c)
             /\ c # k => (Current(x, c)' <=> Current(x, c))
             /\ c = k => ~Current(x, c)'
  <2>1. x \in VersionIds
    BY <1>7, EntryType DEF IndInv
  <2>2. /\ Released(x, c) /\ (i = Len(chain[c]) <=> Current(x, c))
        /\ versions[x].prev = IF i = 1 THEN NoVersion ELSE chain[c][i-1].version
    BY <1>7 DEF EvidenceInv, EvidenceFollowsHistory
  <2>3. x # v
    BY <1>2, <2>2 DEF Released, IsReleased
  <2>4. c = k => ~Current(x, c)'
    BY <1>1, <1>3, <2>1, <2>3 DEF AlwaysOneCurrent
  <2> QED
    BY <1>3, <2>1, <2>2, <2>3, <2>4
<1>8. s = (IF n = 0 THEN NoVersion ELSE chain[k][n].version)
  <2>1. CASE n = 0
    <3>1. \A w \in VersionIds : ~Released(w, k)
      BY <1>1, <2>1 DEF EvidenceInv, EvidenceFollowsHistory
    <3> QED
      BY <1>1, <1>3, <2>1, <3>1 DEF Request, MaybeVersion, Current
  <2>2. CASE n # 0
    <3>1. n \in 1..n
      BY <1>5, <2>2
    <3>2. Current(chain[k][n].version, k) /\ chain[k][n].version \in VersionIds
      BY <1>1, <1>7, <3>1
    <3>3. s # NoVersion /\ s \in VersionIds
      BY <1>1, <1>3, <3>2 DEF Current, Request, MaybeVersion
    <3> QED
      BY <1>1, <1>3, <2>2, <3>2, <3>3 DEF IndInv, AlwaysOneCurrent
  <2> QED
    BY <2>1, <2>2
<1> HIDE DEF n
<1>9. EvidenceFollowsHistory'
  <2> SUFFICES ASSUME NEW c \in Cards
               PROVE  LET m == Len(chain'[c]) IN
                      /\ \A i \in 1..m :
                           /\ Released(chain[c][i].version, c)'
                           /\ versions'[chain'[c][i].version].prev =
                                IF i = 1 THEN NoVersion ELSE chain'[c][i-1].version
                           /\ i = m <=> Current(chain[c][i].version, c)'
                      /\ m = 0 => \A w \in VersionIds : ~Released(w, c)'
    BY DEF EvidenceFollowsHistory
  <2>1. CASE c # k
    <3>1. chain'[c] = chain[c]
      BY <1>5, <2>1
    <3>2. ASSUME NEW i \in 1..Len(chain[c])
          PROVE  /\ Released(chain[c][i].version, c)'
                 /\ versions'[chain'[c][i].version].prev =
                      IF i = 1 THEN NoVersion ELSE chain'[c][i-1].version
                 /\ i = Len(chain[c]) <=> Current(chain[c][i].version, c)'
      BY <1>7, <2>1, <3>1 DEF Released, Current
    <3>3. Len(chain[c]) = 0 => \A w \in VersionIds : ~Released(w, c)'
      BY <1>3, <1>4, <2>1 DEF EvidenceInv, EvidenceFollowsHistory, Released, IsReleased
    <3> QED
      BY <3>1, <3>2, <3>3
  <2>2. CASE c = k
    <3>1. ASSUME NEW i \in 1..(n + 1)
          PROVE  /\ Released(chain[k][i].version, k)'
                 /\ versions'[chain'[k][i].version].prev =
                      IF i = 1 THEN NoVersion ELSE chain'[k][i-1].version
                 /\ i = n + 1 <=> Current(chain[k][i].version, k)'
      <4>1. CASE i = n + 1
        <5>1. chain'[k][i].version = v /\ Released(v, k)' /\ Current(v, k)'
          BY <1>3, <1>5, <1>6, <4>1 DEF Current
        <5>2. s = IF i = 1 THEN NoVersion ELSE chain'[k][i-1].version
          <6>1. CASE n = 0
            BY <1>8, <4>1, <6>1
          <6>2. CASE n # 0
            BY <1>5, <1>8, <4>1, <6>2
          <6> QED
            BY <6>1, <6>2
        <5> QED
          BY <1>4, <4>1, <5>1, <5>2 DEF Released, Current
      <4>2. CASE i # n + 1
        <5>1. i \in 1..n /\ (i # 1 => i - 1 \in 1..n)
          BY <1>5, <4>2
        <5>2. chain'[k][i] = chain[k][i] /\ (i # 1 => chain'[k][i-1] = chain[k][i-1])
          BY <1>5, <5>1
        <5>3. ASSUME NEW x, x = chain[k][i].version
              PROVE  /\ Released(x, k)' /\ ~Current(x, k)'
                     /\ versions'[x].prev = IF i = 1 THEN NoVersion ELSE chain[k][i-1].version
          <6>1. k \in Cards /\ i \in 1..Len(chain[k])
            BY <1>1, <5>1 DEF n
          <6> QED
            BY <1>7, <5>3, <6>1
        <5> QED
          BY <4>2, <5>2, <5>3 DEF Released, Current
      <4> QED
        BY <4>1, <4>2
    <3> QED
      BY <1>5, <2>2, <3>1
  <2> QED
    BY <2>1, <2>2
<1>10. EntriesAreDated'
  <2>1. ASSUME NEW c \in Cards, NEW i \in 1..Len(chain'[c])
        PROVE  \E z \in Snapshots, w \in MaybeVersion :
                 chain'[c][i].version = VersionId("published", z, chain'[c][i].at, w)
    <3>1. CASE c # k
      <4>1. chain'[c] = chain[c]
        BY <1>5, <3>1
      <4> QED
        BY <2>1, <4>1 DEF EvidenceInv, EntriesAreDated
    <3>2. CASE c = k /\ i = n + 1
      <4>1. req[p].preview.snap \in Snapshots /\ s \in MaybeVersion
        BY <1>1 DEF Request, Row
      <4>2. v = VersionId("published", req[p].preview.snap, req[p].at, s)
        BY DEF PublishedId
      <4> QED
        BY <1>5, <1>6, <3>2, <4>1, <4>2
    <3>3. CASE c = k /\ i # n + 1
      <4>1. i \in 1..n
        BY <1>5, <2>1, <3>3
      <4>2. chain'[c][i] = chain[c][i] /\ i \in 1..Len(chain[c])
        BY <1>5, <3>3, <4>1 DEF n
      <4>3. PICK z \in Snapshots, w \in MaybeVersion :
              chain[c][i].version = VersionId("published", z, chain[c][i].at, w)
        BY <4>2 DEF EvidenceInv, EntriesAreDated
      <4> QED
        BY <4>2, <4>3
    <3> QED
      BY <3>1, <3>2, <3>3
  <2> QED
    BY <2>1 DEF EntriesAreDated
<1>11. ASSUME NEW c \in Cards, NEW w \in VersionIds, Released(w, c)'
       PROVE  \E i \in 1..Len(chain'[c]) : chain'[c][i].version = w
  <2>1. CASE w = v
    <3>1. c = k
      BY <1>4, <1>11, <2>1 DEF Released, IsReleased
    <3> QED
      BY <1>5, <1>6, <2>1, <3>1
  <2>2. CASE w # v
    <3>1. PICK i \in 1..Len(chain[c]) : chain[c][i].version = w
      BY <1>3, <1>11, <2>2 DEF EvidenceInv, Covered
    <3>2. i \in 1..Len(chain'[c]) /\ chain'[c][i] = chain[c][i]
      BY <1>5, <3>1 DEF n
    <3> QED
      BY <3>1, <3>2
  <2> QED
    BY <2>1, <2>2
<1> QED
  BY <1>9, <1>10, <1>11 DEF Covered

\* Every step keeps what the evidence rests on.
LEMMA EvidenceStep ==
  ASSUME EvidenceRequired, TimesSeparate, IndInv, AuditInv, ChainInv, EvidenceInv, [Next]_vars
  PROVE  EvidenceInv'
<1>0. IndInv' /\ TypeOK
  BY NextInv DEF IndInv
<1>1. CASE UNCHANGED vars
  BY <1>1 DEF vars, EvidenceInv, EvidenceFollowsHistory, EntriesAreDated, Covered, WithEvidence,
     Released, Current, PublishedId
<1>2. ASSUME NEW p \in Publishers, Prepare(p) \/ Step(p) \/ Rollback(p),
             NEW q \in Publishers \ {p}
      PROVE  WithEvidence(q)'
  <2>1. pc'[q] = pc[q] /\ req'[q] = req[q] /\ built'[q] = built[q] /\ tx'[q] = tx[q]
    BY <1>0, <1>2, StepFrame
  <2> QED
    BY <2>1 DEF EvidenceInv, WithEvidence, PublishedId
<1>3. ASSUME NEW p \in Publishers, Prepare(p) \/ Step(p) \/ Rollback(p), ~Commit(p)
      PROVE  EvidenceInv'
  <2>1. chain' = chain /\ versions' = versions
    BY <1>3 DEF Step, Prepare, BuildEvidence, LockCard, ArchivePrevious, SavePreview,
       SavePublished, SaveAuditEvents, PersistEvidence, Rollback
  <2>2. /\ EvidenceFollowsHistory' /\ EntriesAreDated'
        /\ \A c \in Cards, w \in VersionIds : Released(w, c)' => Covered(w, c)'
    BY <2>1 DEF EvidenceInv, EvidenceFollowsHistory, EntriesAreDated, Covered, Released, Current
  <2> QED
    BY <1>2, <1>3, <2>2, WithEvidenceStep DEF EvidenceInv
<1>4. ASSUME NEW p \in Publishers, Commit(p)
      PROVE  EvidenceInv'
  <2>1. WithEvidence(p)'
    BY <1>0, <1>4 DEF Commit, Finish, TypeOK, WithEvidence, Writing
  <2>2. \A q \in Publishers : WithEvidence(q)'
    BY <1>2, <1>4, <2>1 DEF Step
  <2> QED
    BY <1>0, <1>4, <2>2, CommitEvidence DEF EvidenceInv
<1> QED
  BY <1>1, <1>3, <1>4 DEF Next

\* Where the deployment requires evidence, the tamper-evident chain of a card is
\* its release history, in order and complete, although buildEvidence reads the
\* chain before the card is locked.  It rests on ids that separate times: two
\* publishes of one snapshot whose ids collide would append an entry for a
\* release that was not made.
THEOREM EvidenceIsHistory ==
  ASSUME EvidenceRequired, TimesSeparate
  PROVE  Spec => []EvidenceFollowsHistory
<1>1. Init => AuditInv
  BY DEF Init, AuditInv, AuditMatchesVersions, RepeatsRelease, PendingAudit, Publishing, NoWrites,
     Released, IsReleased
<1>2. Init => EvidenceInv
  BY DEF Init, EvidenceInv, EvidenceFollowsHistory, EntriesAreDated, WithEvidence, Writing,
     Released, IsReleased
<1>3. IndInv /\ AuditInv /\ [Next]_vars => AuditInv'
  BY AuditStep
<1>4. IndInv /\ AuditInv /\ ChainInv /\ EvidenceInv /\ [Next]_vars => EvidenceInv'
  BY EvidenceStep
<1>5. EvidenceInv => EvidenceFollowsHistory
  BY DEF EvidenceInv
<1> QED
  BY <1>1, <1>2, <1>3, <1>4, <1>5, InvariantHolds, ChainInvHolds, PTL DEF Spec

=============================================================================
