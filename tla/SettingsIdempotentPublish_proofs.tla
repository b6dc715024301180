------------------ MODULE SettingsIdempotentPublish_proofs ------------------
(***************************************************************************)
(* Proofs about SettingsIdempotentPublish, for every set of submissions    *)
(* and keys, where the repository that the caller passes is a transaction. *)
(***************************************************************************)
EXTENDS SettingsIdempotentPublish, TLAPS

\* The empty tables.
LEMMA InitInv == Init => IndInv
BY SubmissionsAssumption
DEF Init, IndInv, TypeOK, Steps, ReleasesAreWhole, OneCurrent, Published,
    RecordsAreOfReleases, SubmissionInv, Locked, Looked

\* A step that writes no table leaves the invariant to the submission that
\* takes it, once the types are kept.
LEMMA QuietStep ==
  ASSUME IndInv, NEW s \in Submissions, TypeOK',
         UNCHANGED <<status, audit, records>>,
         \A q \in Submissions \ {s} :
           /\ pc'[q] = pc[q] /\ seen'[q] = seen[q] /\ result'[q] = result[q]
           /\ lock = q => lock' = q,
         status[s] # "none" => pc'[s] = "ended",
         SubmissionInv(s)'
  PROVE  IndInv'
<1>1. ASSUME NEW q \in Submissions \ {s}
      PROVE  SubmissionInv(q)'
  <2>1. SubmissionInv(q)
    BY DEF IndInv
  <2>2. Fresh(q)' <=> Fresh(q)
    BY DEF Fresh
  <2>3. pc'[q] = pc[q] /\ seen'[q] = seen[q] /\ result'[q] = result[q] /\ (lock = q => lock' = q)
    OBVIOUS
  <2> QED
    BY <2>1, <2>2, <2>3 DEF SubmissionInv
<1>2. ReleasesAreWhole' /\ OneCurrent' /\ RecordsAreOfReleases'
  BY DEF IndInv, ReleasesAreWhole, OneCurrent, Published, RecordsAreOfReleases
<1> QED
  BY <1>1, <1>2 DEF IndInv

\* Listing: what is listed is published now, or nothing was ever released.
LEMMA ListInv ==
  ASSUME IndInv, NEW s \in Submissions, List(s)
  PROVE  IndInv'
<1>1. TypeOK /\ OneCurrent /\ ReleasesAreWhole /\ SubmissionInv(s)
  BY DEF IndInv
<1> DEFINE v == IF Published = {} THEN None ELSE CHOOSE w \in Published : TRUE
<1>2. seen' = [seen EXCEPT ![s] = v]
  BY DEF List
<1>3. v \in Submissions \cup {None} /\ (v # None => status[v] = "published")
  BY SubmissionsAssumption DEF Published
<1> HIDE DEF v
<1>4. TypeOK'
  BY <1>1, <1>2, <1>3 DEF TypeOK, List, GoTo, Steps
<1>5. SubmissionInv(s)'
  <2>1. seen'[s] = v /\ pc'[s] = "listed" /\ result'[s] = result[s] /\ status' = status
    BY <1>1, <1>2 DEF TypeOK, List, GoTo
  <2>2. pc'[s] \notin Locked /\ pc'[s] \notin Looked
    BY <2>1 DEF Locked, Looked
  <2> QED
    BY <1>1, <1>3, <2>1, <2>2 DEF SubmissionInv
<1>6. status[s] = "none"
  BY <1>1 DEF ReleasesAreWhole, List
<1> QED
  BY <1>2, <1>4, <1>5, <1>6, QuietStep, SMTT(30) DEF List, GoTo, IndInv, TypeOK

\* Looking up the record: a valid one is of a release.
LEMMA CheckRecordInv ==
  ASSUME IndInv, NEW s \in Submissions, CheckRecord(s)
  PROVE  IndInv'
<1>1. TypeOK /\ RecordsAreOfReleases /\ ReleasesAreWhole /\ SubmissionInv(s)
  BY DEF IndInv
<1>2. KeyOf[s] \in Keys
  BY SubmissionsAssumption
<1>3. TypeOK'
  BY <1>1, <1>2 DEF TypeOK, CheckRecord, GoTo, Steps
<1>4. SubmissionInv(s)'
  <2>1. CASE records[KeyOf[s]] = None
    BY <1>1, <1>2, <2>1, SubmissionsAssumption
    DEF TypeOK, CheckRecord, GoTo, SubmissionInv, Locked, Looked, Fresh
  <2>2. CASE records[KeyOf[s]] # None
    BY <1>1, <1>2, <2>2, SubmissionsAssumption
    DEF TypeOK, CheckRecord, GoTo, SubmissionInv, Locked, Looked, Fresh, RecordsAreOfReleases
  <2> QED
    BY <2>1, <2>2
<1>5. status[s] = "none"
  BY <1>1 DEF ReleasesAreWhole, CheckRecord
<1> QED
  BY <1>1, <1>3, <1>4, <1>5, QuietStep DEF CheckRecord, GoTo, TypeOK

\* Locking: no other submission holds the card.
LEMMA LockCardInv ==
  ASSUME Transactional, IndInv, NEW s \in Submissions, LockCard(s)
  PROVE  IndInv'
<1>1. TypeOK /\ ReleasesAreWhole /\ SubmissionInv(s)
  BY DEF IndInv
<1>2. TypeOK'
  BY <1>1 DEF TypeOK, LockCard, GoTo, Steps
<1>3. SubmissionInv(s)'
  BY <1>1 DEF TypeOK, LockCard, GoTo, SubmissionInv, Locked, Looked, Fresh
<1>4. status[s] = "none"
  BY <1>1 DEF ReleasesAreWhole, LockCard
<1> QED
  BY <1>1, <1>2, <1>3, <1>4, QuietStep, SubmissionsAssumption DEF LockCard, GoTo, TypeOK

\* Archiving the listed version finds it still published.
LEMMA ArchivePreviousInv ==
  ASSUME Transactional, IndInv, NEW s \in Submissions, ArchivePrevious(s)
  PROVE  IndInv'
<1>1. TypeOK /\ ReleasesAreWhole /\ SubmissionInv(s)
  BY DEF IndInv
<1>2. TypeOK'
  BY <1>1 DEF TypeOK, ArchivePrevious, GoTo, Steps
<1>3. SubmissionInv(s)'
  BY <1>1 DEF TypeOK, ArchivePrevious, GoTo, SubmissionInv, Locked, Looked, Fresh
<1>4. status[s] = "none"
  BY <1>1 DEF ReleasesAreWhole, ArchivePrevious
<1> QED
  BY <1>1, <1>2, <1>3, <1>4, QuietStep DEF ArchivePrevious, GoTo, TypeOK

\* The unique index admits the version only if the list is not stale.
LEMMA InsertVersionInv ==
  ASSUME Transactional, IndInv, NEW s \in Submissions, InsertVersion(s)
  PROVE  IndInv'
<1>1. TypeOK /\ ReleasesAreWhole /\ OneCurrent /\ SubmissionInv(s)
  BY DEF IndInv
<1>2. TypeOK'
  BY <1>1 DEF TypeOK, InsertVersion, GoTo, Steps
<1>3. s \in Valid => Fresh(s)
  <2>1. CASE seen[s] = None
    <3>1. s \in Valid => Published = {}
      BY <2>1, SubmissionsAssumption DEF InsertVersion, Published
    <3> QED
      BY <1>1, <2>1, <3>1 DEF Fresh, OneCurrent
  <2>2. CASE seen[s] # None
    BY <1>1, <2>2 DEF Fresh, SubmissionInv, InsertVersion
  <2> QED
    BY <2>1, <2>2
<1>4. SubmissionInv(s)'
  BY <1>1, <1>3 DEF TypeOK, InsertVersion, GoTo, SubmissionInv, Locked, Looked, Fresh
<1>5. status[s] = "none"
  BY <1>1 DEF ReleasesAreWhole, InsertVersion
<1> QED
  BY <1>1, <1>2, <1>4, <1>5, QuietStep DEF InsertVersion, GoTo, TypeOK

\* The audit events and the record are pending until the commit.
LEMMA SaveAuditEventsInv ==
  ASSUME Transactional, IndInv, NEW s \in Submissions, SaveAuditEvents(s)
  PROVE  IndInv'
<1>1. TypeOK /\ ReleasesAreWhole /\ SubmissionInv(s)
  BY DEF IndInv
<1>2. TypeOK'
  BY <1>1 DEF TypeOK, SaveAuditEvents, GoTo, Steps
<1>3. SubmissionInv(s)'
  BY <1>1 DEF TypeOK, SaveAuditEvents, GoTo, SubmissionInv, Locked, Looked, Fresh
<1>4. status[s] = "none"
  BY <1>1 DEF ReleasesAreWhole, SaveAuditEvents
<1> QED
  BY <1>1, <1>2, <1>3, <1>4, QuietStep DEF SaveAuditEvents, GoTo, TypeOK

\* A record that is there already is of a request with the same content.
LEMMA SaveRecordInv ==
  ASSUME Transactional, IndInv, NEW s \in Submissions, SaveRecord(s)
  PROVE  IndInv'
<1>1. TypeOK /\ ReleasesAreWhole /\ SubmissionInv(s)
  BY DEF IndInv
<1>2. TypeOK'
  BY <1>1 DEF TypeOK, SaveRecord, GoTo, Steps
<1>3. SubmissionInv(s)'
  BY <1>1 DEF TypeOK, SaveRecord, GoTo, SubmissionInv, Locked, Looked, Fresh
<1>4. status[s] = "none"
  BY <1>1 DEF ReleasesAreWhole, SaveRecord
<1> QED
  BY <1>1, <1>2, <1>3, <1>4, QuietStep DEF SaveRecord, GoTo, TypeOK

\* A failed submission leaves the tables alone and gives up the lock.
LEMMA FailInv ==
  ASSUME IndInv, NEW s \in Submissions, Fail(s)
  PROVE  IndInv'
<1>1. TypeOK /\ SubmissionInv(s)
  BY DEF IndInv
<1>2. TypeOK'
  BY <1>1 DEF TypeOK, Fail, GoTo, Steps
<1>3. SubmissionInv(s)'
  BY <1>1 DEF TypeOK, Fail, GoTo, SubmissionInv, Locked, Looked, Fresh
<1> QED
  BY <1>1, <1>2, <1>3, QuietStep DEF Fail, GoTo, TypeOK

-----------------------------------------------------------------------------
(***************************************************************************)
(* The commit                                                              *)
(***************************************************************************)

\* A result that failed validation commits its record, if there is none, and
\* releases nothing.
LEMMA CommitInvalid ==
  ASSUME Transactional, IndInv, NEW s \in Submissions, Commit(s), s \notin Valid
  PROVE  IndInv'
<1>1. TypeOK /\ ReleasesAreWhole /\ OneCurrent /\ RecordsAreOfReleases
  BY DEF IndInv
<1>2. status' = status /\ audit' = audit /\ records' = Recorded(s)
      /\ seen' = seen /\ KeyOf[s] \in Keys
  BY SubmissionsAssumption DEF Commit, Inserted, Archived, Audited
<1>3. /\ pc' = [pc EXCEPT ![s] = "ended"]
      /\ result' = [result EXCEPT ![s] = None]
      /\ lock' = IF lock = s THEN None ELSE lock
  BY DEF Commit, GoTo
<1>4. TypeOK'
  BY <1>1, <1>2, <1>3 DEF TypeOK, Recorded, Steps
<1>5. \A k \in Keys : \/ records'[k] = records[k]
                      \/ records[k] = None /\ records'[k] = s /\ k = KeyOf[s]
  BY <1>1, <1>2 DEF TypeOK, Recorded
<1>6. ReleasesAreWhole'
  <2> SUFFICES ASSUME NEW v \in Submissions
               PROVE  /\ status[v] # "none" =>
                           v \in Valid /\ v \in audit /\ records'[KeyOf[v]] = v /\ pc'[v] = "ended"
                      /\ v \in audit => status[v] # "none"
    BY <1>2 DEF ReleasesAreWhole
  <2>1. KeyOf[v] \in Keys /\ v # None
    BY SubmissionsAssumption
  <2>2. status[v] # "none" => records[KeyOf[v]] = v /\ pc[v] = "ended"
    BY <1>1 DEF ReleasesAreWhole
  <2>3. status[v] # "none" => records'[KeyOf[v]] = v
    BY <1>5, <2>1, <2>2
  <2> QED
    BY <1>1, <1>3, <2>2, <2>3 DEF ReleasesAreWhole, TypeOK
<1>7. OneCurrent' /\ RecordsAreOfReleases'
  BY <1>1, <1>2, <1>5 DEF OneCurrent, Published, RecordsAreOfReleases
<1>8. ASSUME NEW q \in Submissions
      PROVE  SubmissionInv(q)'
  <2>1. SubmissionInv(q) /\ SubmissionInv(s) /\ pc[s] = "recorded"
    BY DEF IndInv, Commit
  <2>2. Fresh(q)' <=> Fresh(q)
    BY <1>2 DEF Fresh
  <2>3. CASE q = s
    BY <1>1, <1>2, <1>3, <2>1, <2>3 DEF SubmissionInv, TypeOK, Locked, Looked
  <2>4. CASE q # s
    <3>1. pc'[q] = pc[q] /\ result'[q] = result[q]
      BY <1>1, <1>3, <2>4 DEF TypeOK
    <3>2. pc[q] \notin Locked
      BY <2>1, <2>4 DEF SubmissionInv, Locked
    <3>3. KeyOf[q] \in Keys
      BY SubmissionsAssumption
    <3> QED
      BY <1>2, <1>5, <2>1, <2>2, <3>1, <3>2, <3>3 DEF SubmissionInv, Locked
  <2> QED
    BY <2>3, <2>4
<1> QED
  BY <1>4, <1>6, <1>7, <1>8 DEF IndInv

\* A release finds no record of its key: one of a valid submission would have
\* made its list stale, one of an invalid submission has another hash.
LEMMA ReleaseFindsNoRecord ==
  ASSUME IndInv, NEW s \in Valid, pc[s] = "recorded"
  PROVE  records[KeyOf[s]] = None
<1>1. s \in Submissions /\ KeyOf[s] \in Keys
  BY SubmissionsAssumption
<1>2. SubmissionInv(s) /\ TypeOK
  BY <1>1 DEF IndInv
<1>3. records[KeyOf[s]] \in Submissions \cup {None}
  BY <1>1, <1>2 DEF TypeOK
<1>4. records[KeyOf[s]] = None \/ records[KeyOf[s]] \notin Valid
  BY <1>2 DEF SubmissionInv, Looked, Locked
<1>5. records[KeyOf[s]] # None => HashOf[records[KeyOf[s]]] = HashOf[s]
  BY <1>2 DEF SubmissionInv
<1> QED
  BY <1>1, <1>3, <1>4, <1>5, SubmissionsAssumption

\* A release takes effect with its event and its record, and every list that
\* others made before it is stale from then on.
LEMMA CommitRelease ==
  ASSUME Transactional, IndInv, NEW s \in Submissions, Commit(s), s \in Valid
  PROVE  IndInv'
<1>1. TypeOK /\ ReleasesAreWhole /\ OneCurrent /\ RecordsAreOfReleases /\ SubmissionInv(s)
  BY DEF IndInv
<1>2. pc[s] = "recorded" /\ lock = s /\ Fresh(s) /\ status[s] = "none"
  BY <1>1 DEF Commit, SubmissionInv, Locked, ReleasesAreWhole
<1>3. records[KeyOf[s]] = None /\ KeyOf[s] \in Keys
  BY <1>2, ReleaseFindsNoRecord, SubmissionsAssumption
<1>4. /\ audit' = audit \cup {s}
      /\ records' = [records EXCEPT ![KeyOf[s]] = s]
      /\ pc' = [pc EXCEPT ![s] = "ended"]
      /\ result' = [result EXCEPT ![s] = s]
      /\ lock' = None
      /\ seen' = seen
  BY <1>2, <1>3 DEF Commit, GoTo, Audited, Recorded
<1>5. \A v \in Submissions :
        status'[v] = IF v = s THEN "published"
                     ELSE IF v = seen[s] THEN "archived" ELSE status[v]
  <2>1. status' = Inserted(s, Archived(s))
    BY DEF Commit
  <2> QED
    BY <2>1, <1>1, SubmissionsAssumption DEF Inserted, Archived, TypeOK
<1>6. status' \in [Submissions -> {"none", "published", "archived"}]
  BY <1>1 DEF Commit, Inserted, Archived, TypeOK
<1>7. TypeOK'
  BY <1>1, <1>3, <1>4, <1>6 DEF TypeOK, Steps
<1>8. seen[s] # None => seen[s] \in Submissions /\ status[seen[s]] = "published"
  BY <1>1, <1>2 DEF Fresh, TypeOK
<1>9. \A v \in Submissions : status[v] = "published" => v = seen[s]
  BY <1>1, <1>2, <1>8 DEF OneCurrent, Published, Fresh
<1>10. \A v \in Submissions : status'[v] = "published" <=> v = s
  BY <1>5, <1>9
<1>11. \A v \in Submissions : status'[v] # "none" <=> (v = s \/ status[v] # "none")
  BY <1>5, <1>8, SubmissionsAssumption
<1>12. ReleasesAreWhole'
  <2> SUFFICES ASSUME NEW v \in Submissions
               PROVE  /\ status'[v] # "none" =>
                           v \in Valid /\ v \in audit' /\ records'[KeyOf[v]] = v /\ pc'[v] = "ended"
                      /\ v \in audit' => status'[v] # "none"
    BY DEF ReleasesAreWhole
  <2>1. KeyOf[v] \in Keys
    BY SubmissionsAssumption
  <2>2. CASE v = s
    BY <1>1, <1>3, <1>4, <1>11, <2>2 DEF TypeOK
  <2>3. CASE v # s
    <3>1. status[v] # "none" => records[KeyOf[v]] = v /\ KeyOf[v] # KeyOf[s]
      BY <1>1, <1>3, SubmissionsAssumption DEF ReleasesAreWhole
    <3> QED
      BY <1>1, <1>4, <1>11, <2>1, <2>3, <3>1 DEF ReleasesAreWhole, TypeOK
  <2> QED
    BY <2>2, <2>3
<1>13. OneCurrent'
  BY <1>10 DEF OneCurrent, Published
<1>14. RecordsAreOfReleases'
  <2> SUFFICES ASSUME NEW k \in Keys, records'[k] # None
               PROVE  /\ KeyOf[records'[k]] = k
                      /\ records'[k] \in Valid => status'[records'[k]] # "none"
    BY DEF RecordsAreOfReleases
  <2>1. CASE k = KeyOf[s]
    BY <1>1, <1>4, <1>11, <2>1 DEF TypeOK
  <2>2. CASE k # KeyOf[s]
    <3>1. records'[k] = records[k]
      BY <1>1, <1>4, <2>2 DEF TypeOK
    <3>2. records[k] \in Valid => records[k] \in Submissions
      BY SubmissionsAssumption
    <3> QED
      BY <1>1, <1>11, <3>1, <3>2 DEF RecordsAreOfReleases
  <2> QED
    BY <2>1, <2>2
<1>15. ASSUME NEW q \in Submissions
       PROVE  SubmissionInv(q)'
  <2>1. SubmissionInv(q)
    BY DEF IndInv
  <2>2. seen[q] \in Submissions \cup {None} /\ result[q] \in Submissions \cup {None}
    BY <1>1 DEF TypeOK
  <2>3. CASE q = s
    BY <1>1, <1>4, <1>11, <2>1, <2>2, <2>3 DEF SubmissionInv, TypeOK, Locked, Looked
  <2>4. CASE q # s
    <3>1. pc'[q] = pc[q] /\ result'[q] = result[q]
      BY <1>1, <1>4, <2>4 DEF TypeOK
    <3>2. pc[q] \notin Locked
      BY <1>2, <2>1, <2>4 DEF SubmissionInv
    <3>3. ~Fresh(q)'
      <4>1. seen[q] # s
        BY <1>2, <2>1, SubmissionsAssumption DEF SubmissionInv
      <4> QED
        BY <1>4, <1>10, <2>2, <4>1 DEF Fresh
    <3> QED
      BY <1>4, <1>11, <2>1, <2>2, <3>1, <3>2, <3>3 DEF SubmissionInv, Locked
  <2> QED
    BY <2>3, <2>4
<1> QED
  BY <1>7, <1>12, <1>13, <1>14, <1>15 DEF IndInv

\* Every step of a submission keeps the invariant.
LEMMA NextInv ==
  ASSUME Transactional, IndInv, [Next]_vars
  PROVE  IndInv'
<1>1. CASE UNCHANGED vars
  BY <1>1 DEF vars, IndInv, TypeOK, ReleasesAreWhole, OneCurrent, Published,
              RecordsAreOfReleases, SubmissionInv, Fresh
<1>2. CASE Next
  <2>1. CASE AllEnded
    BY <1>1, <2>1 DEF AllEnded
  <2>2. ASSUME NEW s \in Submissions,
               \/ List(s) \/ CheckRecord(s) \/ LockCard(s) \/ ArchivePrevious(s)
               \/ InsertVersion(s) \/ SaveAuditEvents(s) \/ SaveRecord(s)
               \/ Commit(s) \/ Fail(s)
        PROVE  IndInv'
    BY <2>2, ListInv, CheckRecordInv, LockCardInv, ArchivePreviousInv, InsertVersionInv,
       SaveAuditEventsInv, SaveRecordInv, CommitInvalid, CommitRelease, FailInv
  <2> QED
    BY <1>2, <2>1, <2>2 DEF Next
<1> QED
  BY <1>1, <1>2

-----------------------------------------------------------------------------
\* In a transaction the invariant holds in every reachable state, although the
\* record of the key is looked up before the card is locked.
THEOREM InvariantHolds ==
  ASSUME Transactional
  PROVE  Spec => []IndInv
<1>1. Init => IndInv
  BY InitInv
<1>2. IndInv /\ [Next]_vars => IndInv'
  BY NextInv
<1> QED
  BY <1>1, <1>2, PTL DEF Spec

\* Any number of submissions under one key create at most one version and one
\* published event (persistIdempotentSettingsPublishResult in a transaction).
THEOREM KeyReleasesOnce ==
  ASSUME Transactional
  PROVE  Spec => []OneReleasePerKey
<1>1. IndInv => OneReleasePerKey
  BY DEF IndInv, ReleasesAreWhole, OneReleasePerKey
<1> QED
  BY <1>1, InvariantHolds, PTL

\* Every answer names the one release of its key, and every release has its
\* record for the retries to come.
THEOREM RetriesFindResult ==
  ASSUME Transactional
  PROVE  Spec => []RetryFindsResult
<1>1. IndInv => RetryFindsResult
  BY DEF IndInv, ReleasesAreWhole, SubmissionInv, RetryFindsResult
<1> QED
  BY <1>1, InvariantHolds, PTL

=============================================================================
