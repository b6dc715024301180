--------------------- MODULE SettingsIdempotentPublish ---------------------
(***************************************************************************)
(* persistIdempotentSettingsPublishResult of @bidayax/settings: a publish  *)
(* submitted under an idempotency key.                                     *)
(*                                                                         *)
(* A submission lists the card's versions and computes its result, looks   *)
(* up the record of its key, and, if there is none, persists the result    *)
(* and saves the record.  Whether these statements are one transaction is  *)
(* up to the repository the caller passes: with Transactional they are,    *)
(* otherwise every statement commits by itself and the row lock is gone as *)
(* soon as it is taken.                                                    *)
(*                                                                         *)
(* One card.  A retry is another submission with the same key and hash; it *)
(* is computed at another time, so its version has an id of its own and is *)
(* identified with the submission.                                         *)
(***************************************************************************)
EXTENDS Naturals

CONSTANTS
  Submissions,
  Keys,
  KeyOf,          \* KeyOf[s]: the idempotency key of submission s
  HashOf,         \* HashOf[s]: its request hash
  Valid,          \* the submissions that pass validation
  Transactional,
  None

\* A submission is not the null value; equal request hashes are equal request
\* content, which validation accepts or rejects alike.
ASSUME SubmissionsAssumption ==
  /\ KeyOf \in [Submissions -> Keys]
  /\ Valid \subseteq Submissions
  /\ None \notin Submissions
  /\ Transactional \in BOOLEAN
  /\ \A s, r \in Submissions : HashOf[s] = HashOf[r] => (s \in Valid <=> r \in Valid)

VARIABLES
  status,    \* card_settings_versions: status of the version of s, or "none"
  audit,     \* settings_audit_events: versions with a published event
  records,   \* settings_idempotency_keys: submission that wrote the record
  lock,      \* holder of the card row
  pc,
  seen,      \* published version in the list s was computed from
  result     \* version that s reported to its caller

vars == <<status, audit, records, lock, pc, seen, result>>

Init ==
  /\ status = [s \in Submissions |-> "none"]
  /\ audit = {}
  /\ records = [k \in Keys |-> None]
  /\ lock = None
  /\ pc = [s \in Submissions |-> "new"]
  /\ seen = [s \in Submissions |-> None]
  /\ result = [s \in Submissions |-> None]

-----------------------------------------------------------------------------
Published == {v \in Submissions : status[v] = "published"}

GoTo(s, step) == pc' = [pc EXCEPT ![s] = step]

\* The tables after the writes of s up to and including the given step.
Archived(s) ==
  IF s \in Valid /\ seen[s] # None THEN [status EXCEPT ![seen[s]] = "archived"] ELSE status

Inserted(s, rows) == IF s \in Valid THEN [rows EXCEPT ![s] = "published"] ELSE rows
Audited(s) == IF s \in Valid THEN audit \cup {s} ELSE audit

\* The record that is there is kept.
Recorded(s) ==
  IF records[KeyOf[s]] = None THEN [records EXCEPT ![KeyOf[s]] = s] ELSE records

\* List the versions and compute the publish result.
List(s) ==
  /\ pc[s] = "new"
  /\ seen' = [seen EXCEPT ![s] = IF Published = {} THEN None
                                 ELSE CHOOSE v \in Published : TRUE]
  /\ GoTo(s, "listed")
  /\ UNCHANGED <<status, audit, records, lock, result>>

\* Mutant: a record is not looked for.
SkipRecord(s) ==
  /\ pc[s] = "listed"
  /\ GoTo(s, "checked")
  /\ UNCHANGED <<status, audit, records, lock, seen, result>>

\* getSettingsIdempotencyRecord: a record with the same hash answers the
\* submission, one with another hash is a conflict.
CheckRecord(s) ==
  LET r == records[KeyOf[s]] IN
  /\ pc[s] = "listed"
  /\ \/ /\ r = None
        /\ GoTo(s, "checked")
        /\ UNCHANGED result
     \/ /\ r # None /\ HashOf[r] = HashOf[s]
        /\ GoTo(s, "ended")
        /\ result' = [result EXCEPT ![s] = IF r \in Valid THEN r ELSE None]
  /\ UNCHANGED <<status, audit, records, lock, seen>>

\* The row lock outlives the statement only in a transaction.
LockCard(s) ==
  /\ pc[s] = "checked"
  /\ lock = None
  /\ lock' = IF Transactional THEN s ELSE None
  /\ GoTo(s, "locked")
  /\ UNCHANGED <<status, audit, records, seen, result>>

ArchivePrevious(s) ==
  /\ pc[s] = "locked"
  /\ s \in Valid /\ seen[s] # None => status[seen[s]] = "published"
  /\ status' = IF Transactional THEN status ELSE Archived(s)
  /\ GoTo(s, "archived")
  /\ UNCHANGED <<audit, records, lock, seen, result>>

\* saveCardSettingsVersion; the unique index sees the own archival.
InsertVersion(s) ==
  /\ pc[s] = "archived"
  /\ s \in Valid => Published \subseteq (IF Transactional THEN {seen[s]} ELSE {})
  /\ status' = IF Transactional THEN status ELSE Inserted(s, status)
  /\ GoTo(s, "inserted")
  /\ UNCHANGED <<audit, records, lock, seen, result>>

SaveAuditEvents(s) ==
  /\ pc[s] = "inserted"
  /\ audit' = IF Transactional THEN audit ELSE Audited(s)
  /\ GoTo(s, "audited")
  /\ UNCHANGED <<status, records, lock, seen, result>>

\* Mutant: the record is saved on another connection.
SaveRecordOutside(s) ==
  /\ pc[s] = "audited"
  /\ records' = Recorded(s)
  /\ GoTo(s, "recorded")
  /\ UNCHANGED <<status, audit, lock, seen, result>>

\* saveSettingsIdempotencyRecord: the upsert finds no record or one with the
\* same hash.
SaveRecord(s) ==
  LET r == records[KeyOf[s]] IN
  /\ pc[s] = "audited"
  /\ r # None => HashOf[r] = HashOf[s]
  /\ records' = IF Transactional THEN records ELSE Recorded(s)
  /\ GoTo(s, "recorded")
  /\ UNCHANGED <<status, audit, lock, seen, result>>

\* The submission is answered, with the commit of its transaction if it is one.
Commit(s) ==
  /\ pc[s] = "recorded"
  /\ IF Transactional
       THEN /\ status' = Inserted(s, Archived(s))
            /\ audit' = Audited(s)
            /\ records' = Recorded(s)
       ELSE UNCHANGED <<status, audit, records>>
  /\ lock' = IF lock = s THEN None ELSE lock
  /\ result' = [result EXCEPT ![s] = IF s \in Valid THEN s ELSE None]
  /\ GoTo(s, "ended")
  /\ UNCHANGED seen

\* A statement failed or the process died.
Fail(s) ==
  /\ pc[s] \notin {"new", "ended"}
  /\ lock' = IF lock = s THEN None ELSE lock
  /\ GoTo(s, "ended")
  /\ UNCHANGED <<status, audit, records, seen, result>>

AllEnded == (\A s \in Submissions : pc[s] = "ended") /\ UNCHANGED vars

Next ==
  \/ \E s \in Submissions :
       \/ List(s) \/ CheckRecord(s) \/ LockCard(s) \/ ArchivePrevious(s)
       \/ InsertVersion(s) \/ SaveAuditEvents(s) \/ SaveRecord(s)
       \/ Commit(s) \/ Fail(s)
  \/ AllEnded

Spec == Init /\ [][Next]_vars

-----------------------------------------------------------------------------
Steps == {"new", "listed", "checked", "locked", "archived", "inserted", "audited",
          "recorded", "ended"}

TypeOK ==
  /\ status \in [Submissions -> {"none", "published", "archived"}]
  /\ audit \subseteq Submissions
  /\ records \in [Keys -> Submissions \cup {None}]
  /\ lock \in Submissions \cup {None}
  /\ pc \in [Submissions -> Steps]
  /\ seen \in [Submissions -> Submissions \cup {None}]
  /\ result \in [Submissions -> Submissions \cup {None}]

\* Duplicate submissions under one idempotency key create one version and one
\* published event, however they interleave with each other and with other
\* publishes of the card.
OneReleasePerKey ==
  \A s1, s2 \in Submissions :
    (KeyOf[s1] = KeyOf[s2] /\ {s1, s2} \subseteq {s \in Submissions : status[s] # "none"} \cup audit)
      => s1 = s2

\* A retry is answered with the original version: what a submission reported is
\* the released version of its key, and a release is never without its record.
RetryFindsResult ==
  \A s \in Submissions :
    /\ status[s] # "none" => records[KeyOf[s]] = s
    /\ result[s] # None =>
         /\ status[result[s]] # "none"
         /\ HashOf[result[s]] = HashOf[s] /\ KeyOf[result[s]] = KeyOf[s]

-----------------------------------------------------------------------------
(***************************************************************************)
(* The inductive invariant behind both, in a transaction.  The lookup of   *)
(* the key is not under the card's lock: what rejects the second of two    *)
(* submissions that both found no record is that its list is stale.        *)
(***************************************************************************)
Locked == {"locked", "archived", "inserted", "audited", "recorded"}
Looked == Locked \cup {"checked"}

\* No release has taken effect since s listed the versions.
Fresh(s) ==
  IF seen[s] = None
    THEN \A v \in Submissions : status[v] = "none"
    ELSE status[seen[s]] = "published"

\* A release is a valid submission that ended, with its event and its record.
ReleasesAreWhole ==
  \A s \in Submissions :
    /\ status[s] # "none" =>
         s \in Valid /\ s \in audit /\ records[KeyOf[s]] = s /\ pc[s] = "ended"
    /\ s \in audit => status[s] # "none"

\* Once there is a release one is current.
OneCurrent ==
  /\ (\E v \in Submissions : status[v] # "none") => Published # {}
  /\ \A v, w \in Published : v = w

\* A record is of its key, and a valid submission's record is of a release.
RecordsAreOfReleases ==
  \A k \in Keys : records[k] # None =>
    /\ KeyOf[records[k]] = k
    /\ records[k] \in Valid => status[records[k]] # "none"

\* Where a submission is, what it looked up still holds or its list is stale.
SubmissionInv(s) ==
  /\ pc[s] \in Locked => lock = s
  /\ pc[s] \in Looked /\ Fresh(s) =>
       records[KeyOf[s]] = None \/ records[KeyOf[s]] \notin Valid
  /\ pc[s] = "archived" /\ s \in Valid /\ seen[s] # None => status[seen[s]] = "published"
  /\ pc[s] \in {"inserted", "audited", "recorded"} /\ s \in Valid => Fresh(s)
  /\ pc[s] = "recorded" /\ records[KeyOf[s]] # None => HashOf[records[KeyOf[s]]] = HashOf[s]
  /\ seen[s] # None => status[seen[s]] # "none"
  /\ result[s] # None =>
       /\ status[result[s]] # "none"
       /\ HashOf[result[s]] = HashOf[s] /\ KeyOf[result[s]] = KeyOf[s]

IndInv ==
  /\ TypeOK /\ ReleasesAreWhole /\ OneCurrent /\ RecordsAreOfReleases
  /\ \A s \in Submissions : SubmissionInv(s)

=============================================================================
