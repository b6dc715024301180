---------------------------- MODULE Trust_proofs ----------------------------
(***************************************************************************)
(* Proofs about the trust layer.  For any number of keys, operators and    *)
(* signers the key store is sound.  For any number of envelopes and any    *)
(* documents, nothing verifies but what was sealed, and no verdict         *)
(* improves.  For any number of writers and streams, and lists of any      *)
(* length, the stored streams verify and only their prefixes do.           *)
(***************************************************************************)
EXTENDS Trust, TLAPS, FiniteSetTheorems, SequenceTheorems, WellFoundedInduction

-----------------------------------------------------------------------------
(***************************************************************************)
(* Rows and transitions                                                    *)
(***************************************************************************)

LEMMA NoKeyIsNoRow == NoKey \notin Row /\ NoKey.status = "none" /\ Never \notin Time
BY KeysAssumption DEF NoKey, Row, Statuses, Never, Time

\* What transitionTrustKey changes of a row.
LEMMA TransitionFields ==
  ASSUME NEW row \in Row, NEW next \in Statuses, NEW at \in Time
  PROVE  LET new == TransitionTrustKey(row, next, at)
         IN  /\ new \in Row
             /\ new.status = next /\ new.changedAt = at
             /\ new.version = row.version /\ new.replaces = row.replaces /\ new.from = row.from
             /\ new.until = IF next = "retiring" THEN at ELSE row.until
             /\ new.revokedAt = IF next = "revoked" THEN at ELSE row.revokedAt
             /\ new.compromisedAt = IF next = "compromised" THEN at ELSE row.compromisedAt
BY DEF TransitionTrustKey, Row

\* The table of transitions: where each status is reached from.
LEMMA TransitionSources ==
  ASSUME NEW from \in Statuses, NEW next \in Transitions[from]
  PROVE  /\ next \in Statuses /\ next # "pending" /\ from # "compromised"
         /\ next = "active" => from = "pending"
         /\ next = "retiring" => from = "active"
         /\ next = "retired" => from = "retiring"
         /\ from = "revoked" => next = "compromised"
<1>1. Transitions[from] =
        CASE from = "pending"     -> {"active", "revoked", "compromised"}
          [] from = "active"      -> {"retiring", "revoked", "compromised"}
          [] from = "retiring"    -> {"retired", "revoked", "compromised"}
          [] from = "retired"     -> {"revoked", "compromised"}
          [] from = "revoked"     -> {"compromised"}
          [] from = "compromised" -> {}
  BY DEF Transitions
<1> QED
  BY <1>1 DEF Statuses

-----------------------------------------------------------------------------
(***************************************************************************)
(* What an accepted transaction does to the table                          *)
(***************************************************************************)

\* The key that moves, the replacement of a rotation, and nothing else.
LEMMA CommitChanges ==
  ASSUME IndInv, NEW w \in Transaction, keys[w.key] # NoKey, Accepted(w)
  PROVE  LET result == Result(w)
             old == keys[w.key]
             new == TransitionTrustKey(old, w.next, w.at)
         IN  /\ result \in [Keys -> Row \cup {NoKey}]
             /\ old \in Row /\ result[w.key] = new /\ new \in Row
             /\ w.next \in Transitions[old.status]
             /\ new.status \in {"retiring", "retired"} => new.until # Never
             /\ w.kind # "rotation" => \A k \in Keys : k # w.key => result[k] = keys[k]
             /\ w.kind = "rotation" =>
                 LET s == w.successor IN
                 /\ s \in Keys /\ s # w.key /\ keys[s] = NoKey
                 /\ result[s] \in Row /\ result[s].status = "active"
                 /\ result[s].version = old.version + 1 /\ result[s].replaces = w.key
                 /\ result[s].revokedAt = Never /\ result[s].compromisedAt = Never
                 /\ \A k \in Keys : k \notin {s, w.key} => result[k] = keys[k]
                 /\ \A k \in Keys : keys[k] # NoKey => keys[k].replaces # w.key
<1> DEFINE old == keys[w.key]
           new == TransitionTrustKey(old, w.next, w.at)
           updated == Updated(w)
           result == Result(w)
<1>1. w.key \in Keys /\ w.next \in Statuses /\ w.at \in Time
  BY DEF Transaction
<1>2. keys \in [Keys -> Row \cup {NoKey}] /\ old \in Row
  BY <1>1 DEF IndInv, TypeOK
<1>3. /\ new \in Row /\ new.status = w.next /\ new.replaces = old.replaces
      /\ new.until = IF w.next = "retiring" THEN w.at ELSE old.until
  BY <1>1, <1>2, TransitionFields
<1>4. updated = [keys EXCEPT ![w.key] = new]
  BY DEF Updated
<1> HIDE DEF new
<1>5. /\ updated \in [Keys -> Row \cup {NoKey}] /\ updated[w.key] = new
      /\ \A k \in Keys : k # w.key => updated[k] = keys[k]
  BY <1>1, <1>2, <1>3, <1>4
<1>6. LifecycleAllows(old, new)
  BY <1>5 DEF Accepted
<1>7. w.next \in Transitions[old.status] /\ (new.status \in {"retiring", "retired"} => new.until # Never)
  BY <1>3, <1>6 DEF LifecycleAllows
<1>8. CASE w.kind # "rotation"
  <2>1. result = updated
    BY <1>8 DEF Result
  <2> HIDE DEF updated, result
  <2> QED
    BY <1>2, <1>3, <1>5, <1>7, <1>8, <2>1 DEF new, result
<1>9. CASE w.kind = "rotation"
  <2> DEFINE s == w.successor
             born == Successor(w)
             activated == TransitionTrustKey(born, "active", w.at)
  <2>1. s \in Keys /\ keys[s] = NoKey /\ w.at > 0 /\ RegistrationAllows(updated, born)
    BY <1>9 DEF Transaction, Accepted
  <2>2. s # w.key
    BY <1>2, <2>1, NoKeyIsNoRow
  <2>3. old.version + 1 \in Nat /\ w.at - 1 \in Time
    BY <1>1, <1>2, <2>1, KeysAssumption DEF Row, Time
  <2>4. /\ born \in Row /\ born.version = old.version + 1 /\ born.replaces = w.key
        /\ born.revokedAt = Never /\ born.compromisedAt = Never
    <3>1. born = Pending(old.version + 1, Never, w.key, w.at - 1)
      BY DEF Successor
    <3> QED
      BY <1>1, <2>3, <3>1 DEF Pending, Row, Statuses
  <2>5. "active" \in Statuses
    BY DEF Statuses
  <2>6. /\ activated \in Row /\ activated.status = "active" /\ activated.version = old.version + 1
        /\ activated.replaces = w.key /\ activated.revokedAt = Never /\ activated.compromisedAt = Never
    BY <1>1, <2>4, <2>5, TransitionFields
  <2>7. result = [updated EXCEPT ![s] = activated]
    BY <1>9 DEF Result
  <2>8. \A k \in Keys : updated[k] # NoKey => updated[k].replaces # w.key
    <3>1. w.key # "none"
      BY <1>1, KeysAssumption
    <3> QED
      BY <2>1, <2>4, <3>1 DEF RegistrationAllows
  <2>9. \A k \in Keys : keys[k] # NoKey => keys[k].replaces # w.key
    <3> HIDE DEF updated, old
    <3>1. new # NoKey
      BY <1>3, NoKeyIsNoRow
    <3> QED
      BY <1>1, <1>3, <1>5, <2>8, <3>1 DEF old
  <2> HIDE DEF updated, result, activated, born
  <2>10. /\ result \in [Keys -> Row \cup {NoKey}] /\ result[s] = activated
         /\ result[w.key] = new
         /\ \A k \in Keys : k \notin {s, w.key} => result[k] = keys[k]
    BY <1>1, <1>5, <2>1, <2>2, <2>6, <2>7
  <2> QED
    BY <1>2, <1>3, <1>7, <1>9, <2>1, <2>2, <2>6, <2>9, <2>10 DEF new, result
<1> QED
  BY <1>8, <1>9

-----------------------------------------------------------------------------
(***************************************************************************)
(* The invariant                                                           *)
(***************************************************************************)

LEMMA InitInv == Init => IndInv
<1> SUFFICES ASSUME Init PROVE IndInv
  OBVIOUS
<1>1. \A k \in Keys : keys[k] = NoKey /\ keys[k].status = "none"
  BY NoKeyIsNoRow DEF Init
<1>2. 0 \in Time
  BY KeysAssumption DEF Time
<1>3. OneActiveKey
  <2>1. {k \in Keys : keys[k].status = "active"} = {}
    BY <1>1
  <2> QED
    BY <2>1, FS_EmptySet DEF OneActiveKey
<1>4. TypeOK
  BY <1>1 DEF Init, TypeOK
<1>5. HeldIsWhole /\ KeysExist
  BY <1>1, <1>2 DEF Init, HeldIsWhole, KeysExist
<1>6. CutoffIsPast /\ ReplacedOnce /\ EvidenceMatchesKeys
  BY <1>1 DEF Init, CutoffIsPast, ReplacedOnce, EvidenceMatchesKeys
<1> QED
  BY <1>3, <1>4, <1>5, <1>6 DEF IndInv

\* A step that leaves the tables alone.
LEMMA TablesUntouched ==
  ASSUME IndInv, UNCHANGED <<keys, evidence, bare, lastActive>>, HeldIsWhole',
         signatures' \subseteq [key : Keys, version : Nat, signedAt : Time, keyWas : Statuses],
         \A o \in Operators : work'[o] # Idle => keys[work'[o].key] # NoKey /\ work'[o].at <= clock',
         \A s \in Signers : copy'[s] # NoKey => keys[copy'[s].key] # NoKey,
         \A sig \in signatures' : keys[sig.key] # NoKey
  PROVE  IndInv'
<1>1. TypeOK'
  BY DEF IndInv, TypeOK
<1>2. KeysExist'
  BY DEF IndInv, KeysExist
<1>3. CutoffIsPast' /\ OneActiveKey' /\ ReplacedOnce' /\ EvidenceMatchesKeys'
  BY DEF IndInv, CutoffIsPast, OneActiveKey, ReplacedOnce, EvidenceMatchesKeys
<1> QED
  BY <1>1, <1>2, <1>3 DEF IndInv

\* An operator's preparation writes its own transaction only.
LEMMA PrepareInv ==
  ASSUME IndInv, NEW o \in Operators, NEW w \in Transaction, keys[w.key] # NoKey, w.at = clock,
         work' = [work EXCEPT ![o] = w],
         UNCHANGED <<keys, evidence, bare, copy, signatures, lastActive, clock>>
  PROVE  IndInv'
<1>1. HeldIsWhole'
  BY DEF IndInv, HeldIsWhole
<1>2. \A p \in Operators : work'[p] = IF p = o THEN w ELSE work[p]
  BY DEF IndInv, HeldIsWhole
<1>3. clock \in Nat
  BY KeysAssumption DEF IndInv, HeldIsWhole, Time
<1>4. \A p \in Operators : work'[p] # Idle => keys[work'[p].key] # NoKey /\ work'[p].at <= clock'
  BY <1>2, <1>3 DEF IndInv, KeysExist
<1> QED
  BY <1>1, <1>4, TablesUntouched DEF IndInv, TypeOK, KeysExist

LEMMA PrepareTransitionInv ==
  ASSUME IndInv, NEW o \in Operators, PrepareTransition(o)
  PROVE  IndInv'
<1>1. PICK k \in Keys, next \in Statuses :
        /\ keys[k] # NoKey
        /\ work' = [work EXCEPT ![o] =
                [kind |-> "transition", key |-> k, seen |-> keys[k].status,
                 next |-> next, successor |-> "none", at |-> clock]]
        /\ UNCHANGED <<keys, evidence, bare, copy, signatures, lastActive, clock>>
  BY DEF PrepareTransition
<1> DEFINE w == [kind |-> "transition", key |-> k, seen |-> keys[k].status,
                 next |-> next, successor |-> "none", at |-> clock]
<1>2. keys[k].status \in Statuses /\ clock \in Time
  BY <1>1 DEF IndInv, TypeOK, HeldIsWhole, Row
<1>3. w \in Transaction
  BY <1>2 DEF Transaction, Statuses
<1>4. w.key = k /\ w.at = clock
  OBVIOUS
<1>5. work' = [work EXCEPT ![o] = w]
  BY <1>1
<1> HIDE DEF w
<1> QED
  BY <1>1, <1>3, <1>4, <1>5, PrepareInv

LEMMA PrepareRotationInv ==
  ASSUME IndInv, NEW o \in Operators, PrepareRotation(o)
  PROVE  IndInv'
<1>1. PICK k \in Keys, r \in Keys :
        /\ keys[k] # NoKey /\ keys[k].status = "active"
        /\ work' = [work EXCEPT ![o] =
                [kind |-> "rotation", key |-> k, seen |-> keys[k].status,
                 next |-> "retiring", successor |-> r, at |-> clock]]
        /\ UNCHANGED <<keys, evidence, bare, copy, signatures, lastActive, clock>>
  BY DEF PrepareRotation
<1> DEFINE w == [kind |-> "rotation", key |-> k, seen |-> keys[k].status,
                 next |-> "retiring", successor |-> r, at |-> clock]
<1>2. clock \in Time
  BY DEF IndInv, HeldIsWhole
<1>3. w \in Transaction
  BY <1>1, <1>2 DEF Transaction, Statuses
<1>4. w.key = k /\ w.at = clock
  OBVIOUS
<1>5. work' = [work EXCEPT ![o] = w]
  BY <1>1
<1> HIDE DEF w
<1> QED
  BY <1>1, <1>3, <1>4, <1>5, PrepareInv

LEMMA PrepareRevocationInv ==
  ASSUME IndInv, NEW o \in Operators, PrepareRevocation(o)
  PROVE  IndInv'
<1>1. PICK k \in Keys, type \in {"revoked", "compromised"} :
        /\ keys[k] # NoKey
        /\ work' = [work EXCEPT ![o] =
                [kind |-> "revocation", key |-> k, seen |-> keys[k].status,
                 next |-> type, successor |-> "none", at |-> clock]]
        /\ UNCHANGED <<keys, evidence, bare, copy, signatures, lastActive, clock>>
  BY DEF PrepareRevocation
<1> DEFINE w == [kind |-> "revocation", key |-> k, seen |-> keys[k].status,
                 next |-> type, successor |-> "none", at |-> clock]
<1>2. keys[k].status \in Statuses /\ clock \in Time
  BY <1>1 DEF IndInv, TypeOK, HeldIsWhole, Row
<1>3. w \in Transaction
  BY <1>2 DEF Transaction, Statuses
<1>4. w.key = k /\ w.at = clock
  OBVIOUS
<1>5. work' = [work EXCEPT ![o] = w]
  BY <1>1
<1> HIDE DEF w
<1> QED
  BY <1>1, <1>3, <1>4, <1>5, PrepareInv

LEMMA RollbackInv ==
  ASSUME IndInv, NEW o \in Operators, Rollback(o)
  PROVE  IndInv'
<1>1. HeldIsWhole'
  BY DEF IndInv, HeldIsWhole, Rollback
<1>2. \A p \in Operators : work'[p] # Idle => work'[p] = work[p]
  BY DEF IndInv, HeldIsWhole, Rollback
<1> QED
  BY <1>1, <1>2, TablesUntouched DEF IndInv, TypeOK, KeysExist, Rollback

LEMMA TakeKeyInv ==
  ASSUME IndInv, NEW s \in Signers, TakeKey(s)
  PROVE  IndInv'
<1>1. PICK k \in Keys :
        /\ keys[k] # NoKey
        /\ copy' = [copy EXCEPT ![s] = [key |-> k, row |-> keys[k]]]
        /\ UNCHANGED <<keys, evidence, bare, work, signatures, lastActive, clock>>
  BY DEF TakeKey
<1>2. HeldIsWhole'
  BY <1>1 DEF IndInv, HeldIsWhole, TypeOK
<1>3. \A r \in Signers : copy'[r] # NoKey => keys[copy'[r].key] # NoKey
  BY <1>1 DEF IndInv, HeldIsWhole, KeysExist
<1> QED
  BY <1>1, <1>2, <1>3, TablesUntouched DEF IndInv, TypeOK, KeysExist

LEMMA SignInv ==
  ASSUME IndInv, NEW s \in Signers, Sign(s)
  PROVE  IndInv'
<1>0. PICK t \in Time :
        /\ copy[s] # NoKey
        /\ signatures' = signatures \cup
                {[key |-> copy[s].key, version |-> copy[s].row.version,
                  signedAt |-> t, keyWas |-> keys[copy[s].key].status]}
        /\ UNCHANGED <<keys, evidence, bare, work, copy, lastActive, clock>>
  BY DEF Sign
<1> DEFINE sig == [key |-> copy[s].key, version |-> copy[s].row.version,
                   signedAt |-> t, keyWas |-> keys[copy[s].key].status]
<1>1. copy[s] # NoKey /\ signatures' = signatures \cup {sig}
      /\ UNCHANGED <<keys, evidence, bare, work, copy, lastActive, clock>>
  BY <1>0
<1>2. copy[s].key \in Keys /\ copy[s].row \in Row /\ keys[copy[s].key] # NoKey
  BY <1>1 DEF IndInv, HeldIsWhole, KeysExist
<1>3. copy[s].row.version \in Nat /\ keys[copy[s].key].status \in Statuses
  BY <1>2 DEF IndInv, TypeOK, Row
<1>4. /\ sig \in [key : Keys, version : Nat, signedAt : Time, keyWas : Statuses]
      /\ sig.key = copy[s].key
  BY <1>2, <1>3
<1>5. HeldIsWhole'
  BY <1>1 DEF IndInv, HeldIsWhole
<1> HIDE DEF sig
<1> QED
  BY <1>1, <1>2, <1>4, <1>5, TablesUntouched DEF IndInv, TypeOK, KeysExist

LEMMA TickInv ==
  ASSUME IndInv, Tick
  PROVE  IndInv'
<1>1. clock \in Nat /\ clock' = clock + 1 /\ clock' \in Time
  BY KeysAssumption DEF IndInv, HeldIsWhole, Time, Tick
<1>2. HeldIsWhole'
  BY <1>1 DEF IndInv, HeldIsWhole, Tick
<1>3. \A o \in Operators : work[o] # Idle => work[o].at \in Nat
  BY KeysAssumption DEF IndInv, HeldIsWhole, Transaction, Time
<1>4. \A o \in Operators : work'[o] # Idle => keys[work'[o].key] # NoKey /\ work'[o].at <= clock'
  BY <1>1, <1>3 DEF IndInv, KeysExist, Tick
<1> QED
  BY <1>2, <1>4, TablesUntouched DEF IndInv, TypeOK, KeysExist, Tick

\* A new key replaces none, and nothing named it before.
LEMMA RegisterInv ==
  ASSUME IndInv, NEW k \in Keys, Register(k)
  PROVE  IndInv'
<1>1. PICK until \in Time \cup {Never} :
        /\ keys[k] = NoKey
        /\ keys' = [keys EXCEPT ![k] = Pending(1, until, "none", clock)]
        /\ UNCHANGED <<evidence, bare, work, copy, signatures, lastActive, clock>>
  BY DEF Register
<1> DEFINE row == Pending(1, until, "none", clock)
<1>2. clock \in Time
  BY DEF IndInv, HeldIsWhole
<1>3. /\ row \in Row /\ row.status = "pending" /\ row.replaces = "none"
      /\ row.revokedAt = Never /\ row.compromisedAt = Never
  BY <1>2 DEF Pending, Row, Statuses
<1> HIDE DEF row
<1>4. keys'[k] = row /\ \A j \in Keys : j # k => keys'[j] = keys[j]
  BY <1>1 DEF IndInv, TypeOK, row
<1>5. row # NoKey
  BY <1>3, NoKeyIsNoRow
<1>6. \A j \in Keys : keys[j] # NoKey => j # k
  BY <1>1
<1>7. TypeOK'
  <2>1. keys' \in [Keys -> Row \cup {NoKey}]
    BY <1>1, <1>3 DEF IndInv, TypeOK, row
  <2>2. \A j \in Keys : keys'[j] # NoKey =>
          /\ (keys'[j].status = "revoked") => keys'[j].revokedAt # Never
          /\ keys'[j].revokedAt # Never => keys'[j].status \in Ends
          /\ (keys'[j].status = "compromised") = (keys'[j].compromisedAt # Never)
    BY <1>3, <1>4 DEF IndInv, TypeOK
  <2> QED
    BY <1>1, <2>1, <2>2 DEF IndInv, TypeOK
<1>8. HeldIsWhole'
  BY <1>1 DEF IndInv, HeldIsWhole
<1>9. KeysExist'
  <2>1. \A j \in Keys : keys[j] # NoKey => keys'[j] # NoKey
    BY <1>4, <1>5, <1>6
  <2>2. \A o \in Operators : work[o] # Idle => work[o].key \in Keys
    BY DEF IndInv, HeldIsWhole, Transaction
  <2>3. \A s \in Signers : copy[s] # NoKey => copy[s].key \in Keys
    BY DEF IndInv, HeldIsWhole
  <2>4. \A sig \in signatures : sig.key \in Keys
    BY DEF IndInv, TypeOK
  <2>5. \A j \in Keys : keys[j] # NoKey => keys[j].replaces \in Keys \cup {"none"}
    BY DEF IndInv, TypeOK, Row
  <2>7. \A b \in bare : b.key \in Keys
    BY DEF IndInv, TypeOK
  <2>6. \A j \in Keys :
          (keys'[j] # NoKey /\ keys'[j].replaces # "none") => keys'[keys'[j].replaces] # NoKey
    BY <1>3, <1>4, <2>1, <2>5 DEF IndInv, KeysExist
  <2> QED
    BY <1>1, <2>1, <2>2, <2>3, <2>4, <2>6, <2>7 DEF IndInv, KeysExist
<1>10. CutoffIsPast'
  BY <1>1, <1>3, <1>4 DEF IndInv, CutoffIsPast
<1>11. OneActiveKey'
  <2>1. {j \in Keys : keys'[j].status = "active"} = {j \in Keys : keys[j].status = "active"}
    BY <1>1, <1>3, <1>4, NoKeyIsNoRow
  <2> QED
    BY <2>1 DEF IndInv, OneActiveKey
<1>12. ReplacedOnce'
  <2>1. \A j \in Keys : (keys'[j] # NoKey /\ keys'[j].replaces \in Keys) =>
          j # k /\ keys'[j] = keys[j] /\ keys[j].replaces # k
    BY <1>1, <1>3, <1>4, KeysAssumption DEF IndInv, KeysExist
  <2> QED
    BY <1>4, <2>1 DEF IndInv, ReplacedOnce
<1>13. EvidenceMatchesKeys'
  <2>1. \A e \in evidence : e.at \in Time /\ e.key \in Keys
    BY DEF IndInv, TypeOK
  <2>2. \A e \in evidence : e.key # k /\ keys'[e.key] = keys[e.key]
    BY <1>1, <1>4, <2>1 DEF IndInv, EvidenceMatchesKeys
  <2>3. \A b \in bare : b.key \in Keys /\ keys[b.key] # NoKey
    BY DEF IndInv, TypeOK, KeysExist
  <2>4. \A type : [key |-> k, type |-> type] \notin bare
    BY <1>1, <2>3
  <2> QED
    BY <1>1, <1>3, <1>4, <1>5, <2>1, <2>2, <2>3, <2>4, NoKeyIsNoRow DEF IndInv, EvidenceMatchesKeys
<1> QED
  BY <1>7, <1>8, <1>9, <1>10, <1>11, <1>12, <1>13 DEF IndInv

\* The transaction of an operator, accepted by every trigger, check and index.
LEMMA CommitInv ==
  ASSUME IndInv, NEW o \in Operators, Commit(o)
  PROVE  IndInv'
<1>1. PICK w \in Transaction :
        /\ w = work[o] /\ keys[w.key] # NoKey /\ w.at <= clock /\ Accepted(w)
        /\ keys' = Result(w)
        /\ evidence' = IF w.kind = "revocation"
                       THEN evidence \cup {[key |-> w.key, type |-> w.next, at |-> w.at]}
                       ELSE evidence
        /\ bare' = IF w.kind = "transition" /\ w.next \in Ends
                   THEN bare \cup {[key |-> w.key, type |-> w.next]} ELSE bare
        /\ lastActive' = [k \in Keys |->
                IF keys[k].status = "active" THEN clock ELSE lastActive[k]]
        /\ work' = [work EXCEPT ![o] = Idle]
        /\ UNCHANGED <<copy, signatures, clock>>
  <2>1. work[o] \in Transaction
    BY DEF Commit, IndInv, HeldIsWhole
  <2> QED
    BY <2>1 DEF Commit, IndInv, KeysExist
<1> DEFINE old == keys[w.key]
           s == w.successor
           rotation == w.kind = "rotation"
<1>2. w.key \in Keys /\ w.next \in Statuses /\ w.at \in Time
  BY DEF Transaction
<1>3. keys' \in [Keys -> Row \cup {NoKey}] /\ old \in Row /\ keys'[w.key] \in Row
      /\ keys'[w.key] = TransitionTrustKey(old, w.next, w.at)
      /\ w.next \in Transitions[old.status]
      /\ (keys'[w.key].status \in {"retiring", "retired"} => keys'[w.key].until # Never)
  BY <1>1, CommitChanges
<1>4. /\ keys'[w.key].status = w.next /\ keys'[w.key].version = old.version
      /\ keys'[w.key].replaces = old.replaces
      /\ keys'[w.key].until = IF w.next = "retiring" THEN w.at ELSE old.until
      /\ keys'[w.key].revokedAt = IF w.next = "revoked" THEN w.at ELSE old.revokedAt
      /\ keys'[w.key].compromisedAt = IF w.next = "compromised" THEN w.at ELSE old.compromisedAt
  BY <1>2, <1>3, TransitionFields
<1>5. old.status \in Statuses
  BY <1>3 DEF Row
<1>6. /\ w.next # "pending" /\ old.status # "compromised"
      /\ w.next = "active" => old.status = "pending"
      /\ w.next = "retiring" => old.status = "active"
      /\ w.next = "retired" => old.status = "retiring"
      /\ old.status = "revoked" => w.next = "compromised"
  BY <1>3, <1>5, TransitionSources
<1>7. rotation => /\ s \in Keys /\ s # w.key /\ keys[s] = NoKey
                  /\ keys'[s] \in Row /\ keys'[s].status = "active"
                  /\ keys'[s].version = old.version + 1 /\ keys'[s].replaces = w.key
                  /\ keys'[s].revokedAt = Never /\ keys'[s].compromisedAt = Never
                  /\ \A k \in Keys : keys[k] # NoKey => keys[k].replaces # w.key
  BY <1>1, CommitChanges
<1>8. ASSUME NEW k \in Keys, k # w.key, rotation => k # s
      PROVE  keys'[k] = keys[k]
  BY <1>1, <1>8, CommitChanges
<1>9. \A k \in Keys : keys[k] # NoKey => keys'[k] # NoKey
  BY <1>3, <1>7, <1>8, NoKeyIsNoRow
<1>10. /\ w.kind = "revocation" => w.next \in Ends
       /\ w.next \in Ends => w.kind \in {"revocation", "transition"}
  BY DEF Transaction, Ends
<1>11. TypeOK'
  <2>1. evidence' \subseteq [key : Keys, type : Ends, at : Time] /\ bare' \subseteq [key : Keys, type : Ends]
    BY <1>1, <1>2, <1>10 DEF IndInv, TypeOK
  <2>2. ASSUME NEW k \in Keys, keys'[k] # NoKey
        PROVE  /\ (keys'[k].status = "revoked") => keys'[k].revokedAt # Never
               /\ keys'[k].revokedAt # Never => keys'[k].status \in Ends
               /\ (keys'[k].status = "compromised") = (keys'[k].compromisedAt # Never)
    <3>1. CASE k = w.key
      BY <1>1, <1>2, <1>4, <1>6, <3>1, NoKeyIsNoRow DEF IndInv, TypeOK, Ends
    <3>2. CASE rotation /\ k = s
      BY <1>7, <3>2
    <3>3. CASE k # w.key /\ (rotation => k # s)
      BY <1>8, <2>2, <3>3 DEF IndInv, TypeOK
    <3> QED
      BY <3>1, <3>2, <3>3
  <2> QED
    BY <1>1, <1>3, <2>1, <2>2 DEF IndInv, TypeOK
<1>12. HeldIsWhole'
  BY <1>1 DEF IndInv, HeldIsWhole
<1>13. KeysExist'
  <2>1. \A p \in Operators : work'[p] # Idle => work'[p] = work[p] /\ work[p].key \in Keys
    BY <1>1 DEF IndInv, HeldIsWhole, Transaction
  <2>2. \A r \in Signers : copy[r] # NoKey => copy[r].key \in Keys
    BY DEF IndInv, HeldIsWhole
  <2>3. \A sig \in signatures : sig.key \in Keys
    BY DEF IndInv, TypeOK
  <2>5. \A b \in bare' : (b \in bare /\ b.key \in Keys) \/ b.key = w.key
    BY <1>1 DEF IndInv, TypeOK
  <2>4. ASSUME NEW k \in Keys, keys'[k] # NoKey, keys'[k].replaces # "none"
        PROVE  keys'[keys'[k].replaces] # NoKey
    <3>1. keys'[k].replaces \in Keys
      BY <1>3, <2>4 DEF Row
    <3>2. CASE k = w.key
      BY <1>1, <1>4, <1>9, <2>4, <3>1, <3>2 DEF IndInv, KeysExist
    <3>3. CASE rotation /\ k = s
      BY <1>3, <1>7, <3>3, NoKeyIsNoRow
    <3>4. CASE k # w.key /\ (rotation => k # s)
      BY <1>8, <1>9, <2>4, <3>1, <3>4 DEF IndInv, KeysExist
    <3> QED
      BY <3>2, <3>3, <3>4
  <2> QED
    BY <1>1, <1>2, <1>9, <2>1, <2>2, <2>3, <2>4, <2>5 DEF IndInv, KeysExist
<1>14. CutoffIsPast'
  <2> SUFFICES ASSUME NEW k \in Keys, keys'[k].status \in {"retiring", "retired"}
               PROVE  keys'[k].until # Never /\ keys'[k].until <= lastActive'[k]
    BY DEF CutoffIsPast, Never
  <2>1. lastActive'[k] = IF keys[k].status = "active" THEN clock ELSE lastActive[k]
    BY <1>1
  <2>2. CASE k = w.key
    <3>1. keys'[k].until # Never
      BY <1>3, <2>2
    <3>2. CASE w.next = "retiring"
      BY <1>1, <1>4, <1>6, <2>1, <2>2, <3>1, <3>2
    <3>3. CASE w.next = "retired"
      BY <1>4, <1>6, <2>1, <2>2, <3>1, <3>3 DEF IndInv, CutoffIsPast
    <3> QED
      BY <1>4, <2>2, <3>1, <3>2, <3>3
  <2>3. CASE rotation /\ k = s
    BY <1>7, <2>3
  <2>4. CASE k # w.key /\ (rotation => k # s)
    BY <1>8, <2>1, <2>4 DEF IndInv, CutoffIsPast
  <2> QED
    BY <2>2, <2>3, <2>4
<1>15. OneActiveKey'
  BY <1>1 DEF OneActiveKey, Accepted, ActiveIndexAllows
<1>16. ReplacedOnce'
  <2> SUFFICES ASSUME NEW k \in Keys, NEW r \in Keys, keys'[k] # NoKey, keys'[k].replaces = r
               PROVE  /\ keys'[k].version = keys'[r].version + 1
                      /\ keys'[r].status \notin {"pending", "active"}
                      /\ \A j \in Keys : (keys'[j] # NoKey /\ keys'[j].replaces = r) => j = k
    BY DEF ReplacedOnce
  <2>1. r # "none"
    BY KeysAssumption
  <2>2. CASE rotation /\ k = s
    <3>1. r = w.key /\ w.next = "retiring"
      BY <1>7, <2>2 DEF Transaction
    <3>2. \A j \in Keys : (keys'[j] # NoKey /\ keys'[j].replaces = r) => j = k
      BY <1>3, <1>4, <1>7, <1>8, <2>2, <3>1, NoKeyIsNoRow
    <3> QED
      BY <1>4, <1>7, <2>2, <3>1, <3>2
  <2>3. CASE ~(rotation /\ k = s)
    <3>1. keys[k] # NoKey /\ keys[k].replaces = r /\ keys'[k].version = keys[k].version
      BY <1>1, <1>4, <1>8, <2>3
    <3>2. /\ keys[k].version = keys[r].version + 1 /\ keys[r].status \notin {"pending", "active"}
          /\ \A j \in Keys : (keys[j] # NoKey /\ keys[j].replaces = r) => j = k
          /\ keys[r] # NoKey
      BY <2>1, <3>1 DEF IndInv, ReplacedOnce, KeysExist
    <3>3. /\ keys'[r].version = keys[r].version
          /\ keys'[r].status \notin {"pending", "active"}
      BY <1>4, <1>6, <1>7, <1>8, <3>2
    <3>4. rotation => r # w.key
      BY <1>7, <3>1
    <3>5. \A j \in Keys : (keys'[j] # NoKey /\ keys'[j].replaces = r) => j = k
      BY <1>1, <1>4, <1>7, <1>8, <3>2, <3>4
    <3> QED
      BY <3>1, <3>2, <3>3, <3>5
  <2> QED
    BY <2>2, <2>3
<1>17. EvidenceMatchesKeys'
  <2> DEFINE At(row, type) == IF type = "revoked" THEN row.revokedAt ELSE row.compromisedAt
             Named(type) == [key |-> w.key, type |-> type]
             Entry == [key |-> w.key, type |-> w.next, at |-> w.at]
  <2>1. evidence \subseteq evidence' /\ bare \subseteq bare'
    BY <1>1
  <2>2. \A e \in evidence' : e.at \in Time /\ e.at # Never /\ e.key \in Keys /\ e.type \in Ends
    BY <1>11, NoKeyIsNoRow DEF TypeOK
  <2>3. Never' = Never /\ w.at # Never
    BY <1>2, NoKeyIsNoRow DEF Never
  <2>4. /\ Entry.key = w.key /\ Entry.type = w.next /\ Entry.at = w.at
        /\ \A k, x, y : [key |-> k, type |-> x] = Named(y) => k = w.key /\ x = y
    OBVIOUS
  <2>5. /\ \A e \in evidence' : e \in evidence \/ (e = Entry /\ w.kind = "revocation")
        /\ \A b \in bare' : b \in bare \/ (b = Named(w.next) /\ w.next \in Ends)
        /\ w.next \in Ends => (Entry \in evidence' \/ Named(w.next) \in bare')
    BY <1>1, <1>10
  <2>6. /\ \A e \in evidence : keys[e.key] # NoKey /\ e.at = At(keys[e.key], e.type)
        /\ \A k \in Keys : keys[k] # NoKey =>
              /\ keys[k].revokedAt # Never <=>
                  \/ \E e \in evidence : e.key = k /\ e.type = "revoked" /\ e.at = keys[k].revokedAt
                  \/ [key |-> k, type |-> "revoked"] \in bare
              /\ keys[k].compromisedAt # Never <=>
                  \/ \E e \in evidence : e.key = k /\ e.type = "compromised" /\ e.at = keys[k].compromisedAt
                  \/ [key |-> k, type |-> "compromised"] \in bare
    BY DEF IndInv, EvidenceMatchesKeys
  <2> HIDE DEF Entry, Named
  \* A column that has a time keeps it.
  <2>7. /\ old.revokedAt # Never => keys'[w.key].revokedAt = old.revokedAt
        /\ old.compromisedAt # Never => keys'[w.key].compromisedAt = old.compromisedAt
    <3>1. /\ old.revokedAt # Never => old.status \in Ends
          /\ old.compromisedAt # Never => old.status = "compromised"
      BY <1>1, <1>2 DEF IndInv, TypeOK
    <3> QED
      BY <1>4, <1>6, <3>1 DEF Ends
  <2>8. ASSUME NEW e \in evidence'
        PROVE  keys'[e.key] # NoKey /\ e.at = At(keys'[e.key], e.type)
    <3>1. CASE e \in evidence /\ e.key = w.key
      BY <1>1, <1>9, <2>2, <2>6, <2>7, <3>1
    <3>2. CASE e \in evidence /\ e.key # w.key
      BY <1>7, <1>8, <2>2, <2>6, <3>2
    <3>3. CASE e = Entry /\ w.kind = "revocation"
      BY <1>1, <1>2, <1>4, <1>9, <1>10, <2>4, <3>3 DEF Ends
    <3> QED
      BY <2>5, <3>1, <3>2, <3>3
  <2>9. ASSUME NEW k \in Keys, keys'[k] # NoKey
        PROVE  /\ keys'[k].revokedAt # Never <=>
                   \/ \E e \in evidence' : e.key = k /\ e.type = "revoked" /\ e.at = keys'[k].revokedAt
                   \/ [key |-> k, type |-> "revoked"] \in bare'
               /\ keys'[k].compromisedAt # Never <=>
                   \/ \E e \in evidence' : e.key = k /\ e.type = "compromised" /\ e.at = keys'[k].compromisedAt
                   \/ [key |-> k, type |-> "compromised"] \in bare'
    <3>1. CASE k = w.key
      <4>1. w.next \in Ends =>
                  \/ \E e \in evidence' : e.key = k /\ e.type = w.next /\ e.at = w.at
                  \/ [key |-> k, type |-> w.next] \in bare'
        <5>1. [key |-> k, type |-> w.next] = Named(w.next)
          BY <3>1 DEF Named
        <5> QED
          BY <2>4, <2>5, <3>1, <5>1
      <4>2. \A type : [key |-> k, type |-> type] \in bare' =>
                [key |-> k, type |-> type] \in bare \/ type = w.next
        BY <2>4, <2>5
      <4>3. /\ keys'[k].revokedAt = IF w.next = "revoked" THEN w.at ELSE old.revokedAt
            /\ keys'[k].compromisedAt = IF w.next = "compromised" THEN w.at ELSE old.compromisedAt
        BY <1>4, <3>1
      <4>4. old # NoKey /\ old = keys[k]
        BY <1>1, <3>1
      <4> QED
        BY <2>1, <2>2, <2>3, <2>6, <2>7, <3>1, <4>1, <4>2, <4>3, <4>4 DEF Ends
    <3>2. CASE rotation /\ k = s
      <4>1. keys'[k].revokedAt = Never /\ keys'[k].compromisedAt = Never
        BY <1>7, <3>2
      <4>2. \A type : [key |-> k, type |-> type] \notin bare'
        <5>1. \A b \in bare : b.key \in Keys /\ keys[b.key] # NoKey
          BY DEF IndInv, TypeOK, KeysExist
        <5> QED
          BY <1>7, <2>4, <2>5, <3>2, <5>1
      <4> QED
        BY <2>2, <4>1, <4>2
    <3>3. CASE k # w.key /\ (rotation => k # s)
      <4>1. keys'[k] = keys[k]
        BY <1>8, <3>3
      <4>2. \A type : [key |-> k, type |-> type] \in bare' <=> [key |-> k, type |-> type] \in bare
        BY <2>1, <2>4, <2>5, <3>3
      <4>3. \A e \in evidence' : e.key = k => e \in evidence
        BY <2>4, <2>5, <3>3
      <4> QED
        BY <2>1, <2>6, <2>9, <4>1, <4>2, <4>3
    <3> QED
      BY <3>1, <3>2, <3>3
  <2> QED
    BY <2>3, <2>8, <2>9 DEF EvidenceMatchesKeys
<1> QED
  BY <1>11, <1>12, <1>13, <1>14, <1>15, <1>16, <1>17 DEF IndInv

LEMMA NextInv ==
  ASSUME IndInv, [Next]_vars
  PROVE  IndInv'
<1>1. CASE UNCHANGED vars
  <2>1. HeldIsWhole'
    BY <1>1 DEF vars, IndInv, HeldIsWhole
  <2> QED
    BY <1>1, <2>1, TablesUntouched DEF vars, IndInv, TypeOK, KeysExist
<1>2. CASE Next
  BY <1>2, RegisterInv, PrepareTransitionInv, PrepareRotationInv, PrepareRevocationInv,
     CommitInv, RollbackInv, TakeKeyInv, SignInv, TickInv DEF Next
<1> QED
  BY <1>1, <1>2

\* The invariant holds however operators, signers and the clock interleave.
THEOREM InvariantHolds == Spec => []IndInv
<1>1. Init => IndInv
  BY InitInv
<1>2. IndInv /\ [Next]_vars => IndInv'
  BY NextInv
<1> QED
  BY <1>1, <1>2, PTL DEF Spec

\* The cutoff of a key that stopped being active refuses what came later.
LEMMA LateSignaturesFail == IndInv => NoLateSignatureVerifies
<1> SUFFICES ASSUME IndInv, NEW sig \in signatures, NEW allowRetired \in BOOLEAN,
                    CanVerify(keys[sig.key], sig, allowRetired),
                    keys[sig.key].status # "active"
             PROVE  sig.signedAt <= lastActive[sig.key]
  BY DEF NoLateSignatureVerifies
<1>1. sig.key \in Keys /\ sig.signedAt \in Time /\ keys[sig.key] \in Row
  BY DEF IndInv, TypeOK, KeysExist
<1>2. keys[sig.key].status \in {"retiring", "retired"}
  BY <1>1 DEF CanVerify, Row, Statuses
<1>3. /\ keys[sig.key].until # Never /\ keys[sig.key].until <= lastActive[sig.key]
      /\ keys[sig.key].until \in Time /\ lastActive[sig.key] \in Time
  BY <1>1, <1>2 DEF IndInv, CutoffIsPast, HeldIsWhole, Row
<1>4. sig.signedAt <= keys[sig.key].until
  BY <1>3 DEF CanVerify, Cutoff
<1> QED
  BY <1>1, <1>3, <1>4, KeysAssumption DEF Time

\* The key store is sound (keys.ts, trust-api.ts and the triggers of the trust
\* tables), for any number of keys, operators, signers and signatures.
THEOREM KeyStoreIsSound == Spec => []KeysAreSound
<1>1. IndInv => KeysAreSound
  BY LateSignaturesFail DEF IndInv, KeysAreSound
<1> QED
  BY <1>1, InvariantHolds, PTL

-----------------------------------------------------------------------------
(***************************************************************************)
(* Envelopes (TrustEnvelopes).  An identifier, a signature and a digest    *)
(* have one preimage each, so a document with the signature of a stored    *)
(* envelope is that envelope, and a link has one target.                   *)
(***************************************************************************)
\* A document of the envelope's form that carries the signature of e.
Bears(d, e) == d = [f \in Envelopes!EnvelopeFields |-> d[f]] /\ d.signature = e.signature

\* One field but the signature changed.
LEMMA ChangedField ==
  ASSUME NEW e, e = [f \in Envelopes!EnvelopeFields |-> e[f]], NEW a \in Envelopes!EnvelopeFields,
         a # "signature", NEW v,
         NEW d, d = [e EXCEPT ![a] = v]
  PROVE  /\ d = [f \in Envelopes!EnvelopeFields |-> d[f]] /\ d[a] = v
         /\ \A f \in Envelopes!EnvelopeFields \ {a} : d[f] = e[f]
         /\ Bears(d, e)
  <1>1. DOMAIN e = Envelopes!EnvelopeFields /\ "signature" \in Envelopes!EnvelopeFields
    BY DEF Envelopes!EnvelopeFields
  <1>2. d = [f \in Envelopes!EnvelopeFields |-> IF f = a THEN v ELSE e[f]]
    BY <1>1
  <1>3. d["signature"] = e["signature"]
    BY <1>1, <1>2
  <1> QED BY <1>1, <1>2, <1>3 DEF Bears

\* The digest of a document covers what its identifier covers too.
LEMMA DigestOf ==
  ASSUME NEW d, NEW e, d = [f \in Envelopes!EnvelopeFields |-> d[f]],
         e = [f \in Envelopes!EnvelopeFields |-> e[f]],
         \A f \in {"artifact", "version", "card", "domain", "payload", "tenant"} : d[f] = e[f]
  PROVE  Envelopes!CreateDomainDigest(d) = Envelopes!CreateDomainDigest(e)
  <1>1. /\ d.artifact = e.artifact /\ d.version = e.version /\ d.card = e.card
        /\ d.domain = e.domain /\ d.payload = e.payload /\ d.tenant = e.tenant
    OBVIOUS
  <1> QED BY <1>1 DEF Envelopes!CreateDomainDigest

\* Identified computes the digest and the identifier and nothing else.
LEMMA IdentifiedFields ==
  ASSUME NEW d, d = [f \in Envelopes!EnvelopeFields |-> d[f]], NEW i, i = Envelopes!Identified(d)
  PROVE  /\ i = [f \in Envelopes!EnvelopeFields |-> i[f]]
         /\ \A f \in Envelopes!EnvelopeFields \ {"digest", "id"} : i[f] = d[f]
         /\ i.digest = Envelopes!CreateDomainDigest(i) /\ i.id = Envelopes!ComputeEnvelopeId(i)
  <1> DEFINE g == [d EXCEPT !["digest"] = Envelopes!CreateDomainDigest(d)]
             h == [g EXCEPT !["id"] = Envelopes!ComputeEnvelopeId(g)]
  <1>1. i = h
    BY DEF Envelopes!Identified
  <1>2. "digest" \in Envelopes!EnvelopeFields /\ "id" \in Envelopes!EnvelopeFields
        /\ "signature" \in Envelopes!EnvelopeFields
    BY DEF Envelopes!EnvelopeFields
  <1>3. /\ g = [f \in Envelopes!EnvelopeFields |-> g[f]]
           /\ g["digest"] = Envelopes!CreateDomainDigest(d)
        /\ \A f \in Envelopes!EnvelopeFields \ {"digest"} : g[f] = d[f]
    BY <1>2, ChangedField
  <1> HIDE DEF g
  <1>4. /\ h = [f \in Envelopes!EnvelopeFields |-> h[f]] /\ h["id"] = Envelopes!ComputeEnvelopeId(g)
        /\ \A f \in Envelopes!EnvelopeFields \ {"id"} : h[f] = g[f]
    BY <1>2, <1>3, ChangedField
  <1> HIDE DEF h
  <1>5. \A f \in Envelopes!EnvelopeFields \ {"digest", "id"} : h[f] = d[f]
    BY <1>3, <1>4
  <1>6. Envelopes!CreateDomainDigest(h) = Envelopes!CreateDomainDigest(d)
    <2>1. \A f \in {"artifact", "version", "card", "domain", "payload", "tenant"} : h[f] = d[f]
      BY <1>5 DEF Envelopes!EnvelopeFields
    <2> QED BY <2>1, <1>4, DigestOf
  <1>7. Envelopes!ComputeEnvelopeId(h) = Envelopes!ComputeEnvelopeId(g)
    <2>1. DOMAIN h = Envelopes!EnvelopeFields /\ DOMAIN g = Envelopes!EnvelopeFields
      BY <1>3, <1>4
    <2> QED BY <2>1, <1>4 DEF Envelopes!ComputeEnvelopeId
  <1> QED BY <1>1, <1>2, <1>3, <1>4, <1>5, <1>6, <1>7

\* A document of the envelope's form, sealed by a key: only the digest, the
\* identifier and the signature are new.
Formed(u) == u = [f \in Envelopes!EnvelopeFields |-> u[f]]
Seal(k, u) ==
    [Envelopes!Identified(u) EXCEPT !.signature = Envelopes!Signature(k, Envelopes!Identified(u))]
IsSealOf(b, k, u) ==
    /\ b = [f \in Envelopes!EnvelopeFields |-> b[f]]
    /\ \A f \in Envelopes!EnvelopeFields \ {"digest", "id", "signature"} : b[f] = u[f]
    /\ b.digest = Envelopes!CreateDomainDigest(b) /\ b.id = Envelopes!ComputeEnvelopeId(b)
    /\ b.signature = Envelopes!Signature(k, b)

LEMMA SealOf == ASSUME NEW u, NEW k, Formed(u) PROVE IsSealOf(Seal(k, u), k, u)
  <1>0. u = [f \in Envelopes!EnvelopeFields |-> u[f]]
    BY DEF Formed
  <1> DEFINE i == Envelopes!Identified(u)
             s == Envelopes!Signature(k, i)
             b == Seal(k, u)
  <1>1. /\ i = [f \in Envelopes!EnvelopeFields |-> i[f]]
        /\ \A f \in Envelopes!EnvelopeFields \ {"digest", "id"} : i[f] = u[f]
        /\ i.digest = Envelopes!CreateDomainDigest(i) /\ i.id = Envelopes!ComputeEnvelopeId(i)
    BY <1>0, IdentifiedFields
  <1>2. b = [i EXCEPT !["signature"] = s]
    BY DEF Seal
  <1>3. Envelopes!Signature(k, i) = s
    OBVIOUS
  <1> HIDE DEF i, s, b
  <1>4. DOMAIN i = Envelopes!EnvelopeFields /\ "signature" \in Envelopes!EnvelopeFields
        /\ "id" \in Envelopes!EnvelopeFields
        /\ "digest" \in Envelopes!EnvelopeFields
    BY <1>1 DEF Envelopes!EnvelopeFields
  <1>5. b = [f \in Envelopes!EnvelopeFields |-> IF f = "signature" THEN s ELSE i[f]]
    BY <1>2, <1>4
  <1>6. DOMAIN b = Envelopes!EnvelopeFields /\ b = [f \in Envelopes!EnvelopeFields |-> b[f]]
        /\ b["signature"] = s
        /\ \A f \in Envelopes!EnvelopeFields \ {"signature"} : b[f] = i[f]
    BY <1>4, <1>5
  <1>7. Envelopes!CreateDomainDigest(b) = Envelopes!CreateDomainDigest(i)
    <2>1. \A f \in {"artifact", "version", "card", "domain", "payload", "tenant"} : b[f] = i[f]
      BY <1>6 DEF Envelopes!EnvelopeFields
    <2>2. b = [f \in Envelopes!EnvelopeFields |-> b[f]]
          /\ i = [f \in Envelopes!EnvelopeFields |-> i[f]]
      BY <1>1, <1>6
    <2> QED BY <2>1, <2>2, DigestOf
  <1>8. Envelopes!ComputeEnvelopeId(b) = Envelopes!ComputeEnvelopeId(i)
    BY <1>4, <1>6 DEF Envelopes!ComputeEnvelopeId
  <1>9. Envelopes!Signature(k, b) = Envelopes!Signature(k, i)
    <2>1. Envelopes!WithoutSignature(b) = Envelopes!WithoutSignature(i)
      BY <1>4, <1>6 DEF Envelopes!WithoutSignature
    <2> QED BY <2>1 DEF Envelopes!Signature
  <1>10. IsSealOf(b, k, u)
    BY <1>1, <1>3, <1>4, <1>6, <1>7, <1>8, <1>9 DEF IsSealOf
  <1> QED BY <1>10 DEF b

\* Two documents with one identifier agree in every field but the signature.
LEMMA SameIdentifier ==
  ASSUME NEW d, NEW e, d = [f \in Envelopes!EnvelopeFields |-> d[f]],
         e = [f \in Envelopes!EnvelopeFields |-> e[f]],
         Envelopes!ComputeEnvelopeId(d) = Envelopes!ComputeEnvelopeId(e)
  PROVE  \A f \in Envelopes!EnvelopeFields \ {"signature", "id"} : d[f] = e[f]
  <1>1. DOMAIN d = Envelopes!EnvelopeFields /\ DOMAIN e = Envelopes!EnvelopeFields
    OBVIOUS
  <1>2. \A f \in Envelopes!EnvelopeFields \ {"signature", "id"} :
          Envelopes!ComputeEnvelopeId(d)[f] = d[f] /\ Envelopes!ComputeEnvelopeId(e)[f] = e[f]
    BY <1>1 DEF Envelopes!ComputeEnvelopeId
  <1> QED BY <1>2

\* One manifest has one identifier.
LEMMA SameManifest ==
  ASSUME NEW m, NEW n, Envelopes!IsManifest(m), Envelopes!IsManifest(n), m.id = n.id
  PROVE  m = n
  <1>1. DOMAIN m = Envelopes!ManifestFields /\ DOMAIN n = Envelopes!ManifestFields
    BY DEF Envelopes!IsManifest
  <1>2. \A f \in Envelopes!ManifestFields \ {"id"} : Envelopes!ManifestId(m)[f] = m[f]
        /\ Envelopes!ManifestId(n)[f] = n[f]
    BY <1>1 DEF Envelopes!ManifestId
  <1>3. Envelopes!ManifestId(m) = Envelopes!ManifestId(n)
    BY DEF Envelopes!IsManifest, Envelopes!VerifyProvenanceManifest
  <1>4. \A f \in Envelopes!ManifestFields : m[f] = n[f]
    BY <1>2, <1>3
  <1> QED BY <1>4 DEF Envelopes!IsManifest

\* A manifest is verified by building it again, and this one was just built.
LEMMA CreatedManifest ==
  ASSUME NEW t, NEW a, NEW v, NEW d
  PROVE  Envelopes!IsManifest(Envelopes!CreateProvenanceManifest(t, a, v, d))
  <1> DEFINE base == [tenant |-> t, artifact |-> a, version |-> v, digest |-> d, id |-> None]
             i == Envelopes!ManifestId(base)
             m == [tenant |-> t, artifact |-> a, version |-> v, digest |-> d, id |-> i]
  <1>1. Envelopes!CreateProvenanceManifest(t, a, v, d) = m
    BY DEF Envelopes!CreateProvenanceManifest
  <1>2. Envelopes!ManifestId(m) = i
    <2>1. DOMAIN m = DOMAIN base /\ DOMAIN base = Envelopes!ManifestFields
      BY DEF Envelopes!ManifestFields
    <2>2. \A f \in DOMAIN base \ {"id"} : m[f] = base[f]
      BY <2>1 DEF Envelopes!ManifestFields
    <2> HIDE DEF m, base
    <2> QED BY <2>1, <2>2 DEF Envelopes!ManifestId
  <1>3. DOMAIN m = Envelopes!ManifestFields /\ m.id = i /\ m = [f \in DOMAIN m |-> m[f]]
    BY DEF Envelopes!ManifestFields
  <1> HIDE DEF m, i
  <1> QED BY <1>1, <1>2, <1>3 DEF Envelopes!IsManifest, Envelopes!VerifyProvenanceManifest

LEMMA EnvelopesInit == Envelopes!ConstantsAssumed /\ Envelopes!Init => Envelopes!IndInv
  <1> SUFFICES ASSUME Envelopes!ConstantsAssumed, Envelopes!Init PROVE Envelopes!IndInv
    OBVIOUS
  <1>1. now \in 0..EnvelopeTime /\ Envelopes!Never \in 0..Envelopes!Never
    BY DEF Envelopes!Init, Envelopes!ConstantsAssumed, Envelopes!Never
  <1>2. Envelopes!KeysHaveTheirCutoff
    BY <1>1 DEF Envelopes!Init, Envelopes!KeysHaveTheirCutoff
  <1> QED BY <1>1, <1>2 DEF Envelopes!Init, Envelopes!IndInv

\* A step that stores no envelope and no manifest.
LEMMA StoreUntouched ==
  ASSUME Envelopes!IndInv, UNCHANGED <<envelopes, manifests>>, now' \in 0..EnvelopeTime,
         now <= now',
         Envelopes!KeysHaveTheirCutoff', EnvelopeTime \in Nat
  PROVE  Envelopes!IndInv'
  <1>1. \A e \in envelopes' : Envelopes!IsEnvelope(e)'
    <2> SUFFICES ASSUME NEW e \in envelopes PROVE Envelopes!IsEnvelope(e)'
      OBVIOUS
    <2>1. Envelopes!IsEnvelope(e)
      BY DEF Envelopes!IndInv
    <2> QED BY <2>1 DEF Envelopes!IsEnvelope
  <1>2. \A e \in envelopes' : Envelopes!LinkedToTheStored(e)'
    BY DEF Envelopes!IndInv, Envelopes!LinkedToTheStored
  <1>3. \A m \in manifests' : Envelopes!IsManifest(m)
    BY DEF Envelopes!IndInv
  <1> QED BY <1>1, <1>2, <1>3 DEF Envelopes!IndInv

LEMMA EnvelopesTickInv == ASSUME Envelopes!ConstantsAssumed, Envelopes!IndInv,
Envelopes!Tick PROVE Envelopes!IndInv'
  <1>1. now' \in 0..EnvelopeTime /\ now <= now' /\ EnvelopeTime \in Nat
    BY DEF Envelopes!IndInv, Envelopes!Tick, Envelopes!ConstantsAssumed
  <1>2. Envelopes!KeysHaveTheirCutoff'
    BY DEF Envelopes!IndInv, Envelopes!Tick, Envelopes!KeysHaveTheirCutoff
  <1> QED BY <1>1, <1>2, StoreUntouched DEF Envelopes!Tick

LEMMA ChangeKeyInv ==
  ASSUME Envelopes!ConstantsAssumed, Envelopes!IndInv, NEW k \in EnvelopeKeys, NEW to,
         Envelopes!ChangeKey(k, to)
  PROVE  Envelopes!IndInv'
  <1>1. now' \in 0..EnvelopeTime /\ now <= now' /\ EnvelopeTime \in Nat
    BY DEF Envelopes!IndInv, Envelopes!ChangeKey, Envelopes!ConstantsAssumed
  <1>2. Envelopes!KeysHaveTheirCutoff'
    <2> DEFINE row == [status |-> to,
        cutoff |-> IF to = "retiring" THEN now ELSE keyStatus[k].cutoff]
    <2>1. to \in {"retiring", "retired", "revoked"}
      BY DEF Envelopes!ChangeKey, Envelopes!KeyTransitions
    <2>2. now \in 0..Envelopes!Never
      BY <1>1 DEF Envelopes!IndInv, Envelopes!Never
    <2>3. keyStatus[k].cutoff \in 0..Envelopes!Never
      BY DEF Envelopes!IndInv, Envelopes!KeysHaveTheirCutoff
    <2>4. row \in [status : {"active", "retiring", "retired", "revoked"},
          cutoff : 0..Envelopes!Never]
          /\ row.status # "active"
      BY <2>1, <2>2, <2>3
    <2>5. keyStatus' = [keyStatus EXCEPT ![k] = row]
      BY DEF Envelopes!ChangeKey
    <2> HIDE DEF row
    <2> QED BY <2>4, <2>5 DEF Envelopes!IndInv, Envelopes!KeysHaveTheirCutoff, Envelopes!Never
  <1> QED BY <1>1, <1>2, StoreUntouched DEF Envelopes!ChangeKey

LEMMA RecordManifestInv ==
  ASSUME Envelopes!ConstantsAssumed, Envelopes!IndInv, NEW e \in envelopes,
         Envelopes!RecordManifest(e)
  PROVE  Envelopes!IndInv'
  <1> DEFINE n == Envelopes!CreateProvenanceManifest(e.tenant, e.artifact, e.version, e.digest)
  <1>1. manifests' = manifests \cup {n} /\ UNCHANGED <<now, keyStatus, envelopes>>
    BY DEF Envelopes!RecordManifest
  <1>2. Envelopes!IsManifest(n)
    BY CreatedManifest
  <1> HIDE DEF n
  <1>3. \A m \in manifests' : Envelopes!IsManifest(m)
    BY <1>1, <1>2 DEF Envelopes!IndInv
  <1>4. \A d \in envelopes' : Envelopes!LinkedToTheStored(d)'
    BY <1>1 DEF Envelopes!IndInv, Envelopes!LinkedToTheStored
  <1>5. \A d \in envelopes' : Envelopes!IsEnvelope(d)'
    BY <1>1 DEF Envelopes!IndInv, Envelopes!IsEnvelope
  <1>6. Envelopes!KeysHaveTheirCutoff' /\ now' \in 0..EnvelopeTime
    BY <1>1 DEF Envelopes!IndInv, Envelopes!KeysHaveTheirCutoff
  <1> QED BY <1>3, <1>4, <1>5, <1>6 DEF Envelopes!IndInv

\* A step that stores one envelope, linked to what is stored.
StoresOne(prev, manifest) ==
    \E b : /\ envelopes' = envelopes \cup {b} /\ UNCHANGED <<now, keyStatus, manifests>>
           /\ Envelopes!IsEnvelope(b)
           /\ b.prev = prev /\ b.manifest = manifest
           /\ prev # None => \E e \in envelopes : e.id = prev
           /\ manifest # None => \E m \in manifests : m.id = manifest

\* The envelope that Build stores.
LEMMA BuiltEnvelope ==
  ASSUME Envelopes!ConstantsAssumed, Envelopes!IndInv, NEW k \in EnvelopeKeys, NEW card,
         NEW artifact, NEW version, NEW payload, NEW signedAt \in 0..EnvelopeTime,
         NEW lifetime \in EnvelopeLifetimes \cup {Envelopes!Never}, NEW prev, NEW prevDigest,
         NEW manifest,
         NEW status, NEW metadata,
         Envelopes!Build(k, card, artifact, version, payload, signedAt, lifetime, prev, prevDigest,
         manifest, status, metadata)
  PROVE  StoresOne(prev, manifest)
  <1> DEFINE expires == IF lifetime = Envelopes!Never THEN Envelopes!Never ELSE signedAt + lifetime
             u == [tenant |-> KeyTenant[k], card |-> card, artifact |-> artifact,
                   version |-> version, domain |-> "settings.snapshot", payload |-> payload,
                   digest |-> None, key |-> k, purpose |-> Envelopes!KeyPurpose,
                   signer |-> Envelopes!Signer(k),
                   signedAt |-> signedAt, expiresAt |-> expires, prev |-> prev,
                   prevDigest |-> prevDigest,
                   manifest |-> manifest, status |-> status, metadata |-> metadata,
                   algorithm |-> "Ed25519", envelopeVersion |-> 1,
                   id |-> None, signature |-> None]
             b == [Envelopes!Identified(u) EXCEPT !.signature = Envelopes!Signature(k,
             Envelopes!Identified(u))]
  <1>1. /\ envelopes' = envelopes \cup {b} /\ UNCHANGED <<now, keyStatus, manifests>>
        /\ prev # None => \E e \in envelopes : e.id = prev
        /\ manifest # None => \E m \in manifests : m.id = manifest
    BY Zenon DEF Envelopes!Build
  <1>2. expires \in Nat
    BY DEF Envelopes!ConstantsAssumed, Envelopes!IndInv, Envelopes!Never
  <1> HIDE DEF expires
  <1>3. /\ u = [f \in Envelopes!EnvelopeFields |-> u[f]] /\ u.key = k /\ u.signedAt = signedAt
        /\ u.expiresAt = expires /\ u.prev = prev /\ u.manifest = manifest
    BY DEF Envelopes!EnvelopeFields
  <1> HIDE DEF u
  <1>4. /\ b = [f \in Envelopes!EnvelopeFields |-> b[f]]
        /\ \A f \in Envelopes!EnvelopeFields \ {"digest", "id", "signature"} : b[f] = u[f]
        /\ b.digest = Envelopes!CreateDomainDigest(b) /\ b.id = Envelopes!ComputeEnvelopeId(b)
        /\ b.signature = Envelopes!Signature(k, b)
    <2>1. Formed(u)
      BY <1>3 DEF Formed
    <2>2. IsSealOf(Seal(k, u), k, u)
      BY <2>1, SealOf
    <2>3. b = Seal(k, u)
      BY DEF Seal
    <2> HIDE DEF b
    <2> QED BY <2>2, <2>3 DEF IsSealOf
  <1> HIDE DEF b
  <1>5. /\ b.key = k /\ b.signedAt = signedAt /\ b.expiresAt = expires /\ b.prev = prev
        /\ b.manifest = manifest
    BY <1>3, <1>4 DEF Envelopes!EnvelopeFields
  <1>6. Envelopes!IsEnvelope(b)
    BY <1>2, <1>4, <1>5 DEF Envelopes!IsEnvelope, Envelopes!IndInv
  <1> QED BY <1>1, <1>5, <1>6 DEF StoresOne

LEMMA BuildInv ==
  ASSUME Envelopes!ConstantsAssumed, Envelopes!IndInv, NEW b,
         envelopes' = envelopes \cup {b}, UNCHANGED <<now, keyStatus, manifests>>,
         Envelopes!IsEnvelope(b),
         b.prev # None => \E e \in envelopes : e.id = b.prev,
         b.manifest # None => \E m \in manifests : m.id = b.manifest
  PROVE  Envelopes!IndInv'
  <1>1. \A e \in envelopes' : Envelopes!IsEnvelope(e)'
    BY DEF Envelopes!IndInv, Envelopes!IsEnvelope
  <1>3. Envelopes!LinkedToTheStored(b)'
    BY DEF Envelopes!LinkedToTheStored
  <1>4. \A e \in envelopes : Envelopes!LinkedToTheStored(e)'
    BY DEF Envelopes!IndInv, Envelopes!LinkedToTheStored
  <1>5. Envelopes!KeysHaveTheirCutoff' /\ now' \in 0..EnvelopeTime
        /\ \A m \in manifests' : Envelopes!IsManifest(m)
    BY DEF Envelopes!IndInv, Envelopes!KeysHaveTheirCutoff
  <1> QED BY <1>1, <1>3, <1>4, <1>5 DEF Envelopes!IndInv

\* Every step leaves the store as it is, stores one manifest, or stores one
\* envelope whose links were stored before it.
LEMMA EnvelopesStep == ASSUME Envelopes!ConstantsAssumed, Envelopes!IndInv,
[Envelopes!Next]_Envelopes!vars PROVE Envelopes!IndInv'
  <1>1. CASE Envelopes!Tick
    BY <1>1, EnvelopesTickInv
  <1>2. ASSUME NEW k \in EnvelopeKeys, NEW to, Envelopes!ChangeKey(k, to) PROVE Envelopes!IndInv'
    BY <1>2, ChangeKeyInv
  <1>3. ASSUME NEW k \in EnvelopeKeys, NEW card, NEW artifact, NEW version, NEW payload,
               NEW signedAt \in 0..EnvelopeTime,
               NEW lifetime \in EnvelopeLifetimes \cup {Envelopes!Never}, NEW prev, NEW prevDigest,
               NEW manifest, NEW status,
               NEW metadata,
               Envelopes!Build(k, card, artifact, version, payload, signedAt, lifetime, prev,
               prevDigest, manifest, status, metadata)
        PROVE  Envelopes!IndInv'
    <2>1. StoresOne(prev, manifest)
      BY <1>3, BuiltEnvelope, ZenonT(60)
    <2> QED BY <2>1, BuildInv DEF StoresOne
  <1>4. ASSUME NEW e \in envelopes, Envelopes!RecordManifest(e) PROVE Envelopes!IndInv'
    BY <1>4, RecordManifestInv
  <1>5. CASE UNCHANGED Envelopes!vars
    <2>1. now' \in 0..EnvelopeTime /\ now <= now' /\ Envelopes!KeysHaveTheirCutoff'
          /\ EnvelopeTime \in Nat
      BY <1>5 DEF Envelopes!IndInv, Envelopes!vars, Envelopes!KeysHaveTheirCutoff,
         Envelopes!ConstantsAssumed
    <2> QED BY <1>5, <2>1, StoreUntouched DEF Envelopes!vars
  <1> QED BY <1>1, <1>2, <1>3, <1>4, <1>5 DEF Envelopes!Next

\* Stored envelopes are sealed over their own content and linked to what was
\* stored before them (buildCryptographicEnvelope, migration 0017).
THEOREM EnvelopesInvariantHolds == Envelopes!Spec => []Envelopes!IndInv
  <1>1. Envelopes!Init => Envelopes!IndInv
    BY EnvelopesInit, EnvelopeConstants
  <1>2. Envelopes!IndInv /\ [Envelopes!Next]_Envelopes!vars => Envelopes!IndInv'
    BY EnvelopesStep, EnvelopeConstants
  <1> QED BY <1>1, <1>2, PTL DEF Envelopes!Spec

LEMMA EnvelopesTyped == ASSUME Envelopes!ConstantsAssumed, Envelopes!IndInv PROVE Envelopes!TypeOK
  <1>1. \A k \in EnvelopeKeys :
        /\ keyStatus[k].status \in {"active", "retiring", "retired", "revoked"}
                        /\ keyStatus[k].cutoff \in 0..Envelopes!Never
    BY DEF Envelopes!IndInv, Envelopes!KeysHaveTheirCutoff
  <1>2. \A e \in envelopes : /\ e.digest = Envelopes!CreateDomainDigest(e)
                             /\ e.id = Envelopes!ComputeEnvelopeId(e)
                             /\ e.signature = Envelopes!Signature(e.key, e)
    BY DEF Envelopes!IndInv, Envelopes!IsEnvelope
  <1> QED BY <1>1, <1>2 DEF Envelopes!TypeOK, Envelopes!IndInv, Envelopes!IsManifest

\* A document that carries the signature of a stored envelope and passes the
\* signature check is that envelope.
LEMMA SignedIsStored ==
  ASSUME Envelopes!IndInv, NEW e \in envelopes, NEW d, Bears(d, e), Envelopes!SignatureValid(d)
  PROVE  d = e
  <1>1. PICK k \in EnvelopeKeys : k = d.key /\ d.signature = Envelopes!Signature(k, d)
    BY DEF Envelopes!SignatureValid
  <1>2. e = [f \in Envelopes!EnvelopeFields |-> e[f]] /\ e.signature = Envelopes!Signature(e.key, e)
    BY DEF Envelopes!IndInv, Envelopes!IsEnvelope
  <1>3. Envelopes!Signature(k, d) = Envelopes!Signature(e.key, e) /\ d.signature = e.signature
    BY <1>1, <1>2 DEF Bears
  <1>4. Envelopes!WithoutSignature(d) = Envelopes!WithoutSignature(e)
    <2>1. Envelopes!Signature(k, d).bytes = Envelopes!WithoutSignature(d)
          /\ Envelopes!Signature(e.key, e).bytes = Envelopes!WithoutSignature(e)
      BY DEF Envelopes!Signature
    <2> QED BY <2>1, <1>3
  <1>5. DOMAIN d = Envelopes!EnvelopeFields /\ DOMAIN e = Envelopes!EnvelopeFields
    BY <1>2 DEF Bears
  <1>6. \A f \in Envelopes!EnvelopeFields \ {"signature"} :
          Envelopes!WithoutSignature(d)[f] = d[f] /\ Envelopes!WithoutSignature(e)[f] = e[f]
    BY <1>5 DEF Envelopes!WithoutSignature
  <1>7. \A f \in Envelopes!EnvelopeFields : d[f] = e[f]
    BY <1>3, <1>4, <1>6
  <1> QED BY <1>2, <1>7 DEF Bears

\* One field changed, whichever, or two, and the signature left alone.
LEMMA BearsOne ==
  ASSUME NEW e, e = [f \in Envelopes!EnvelopeFields |-> e[f]],
         NEW a \in Envelopes!EnvelopeFields \ {"signature"}, NEW v
  PROVE  Bears([e EXCEPT ![a] = v], e)
  BY ChangedField

LEMMA BearsTwo ==
  ASSUME NEW e, e = [f \in Envelopes!EnvelopeFields |-> e[f]],
         NEW a \in Envelopes!EnvelopeFields \ {"signature"}, NEW v,
         NEW b \in Envelopes!EnvelopeFields \ {"signature"}, NEW w
  PROVE  Bears([e EXCEPT ![a] = v, ![b] = w], e)
  <1> DEFINE d == [e EXCEPT ![a] = v]
  <1>1. Bears(d, e)
    BY BearsOne
  <1> HIDE DEF d
  <1>2. d = [f \in Envelopes!EnvelopeFields |-> d[f]] /\ d.signature = e.signature
    BY <1>1 DEF Bears
  <1>3. Bears([d EXCEPT ![b] = w], d)
    BY <1>2, BearsOne
  <1>4. Bears([d EXCEPT ![b] = w], e)
    BY <1>2, <1>3 DEF Bears
  <1> QED BY <1>4, Zenon DEF d

\* What somebody may present of a stored envelope carries its signature.
LEMMA AlteredBears ==
  ASSUME NEW e, e = [f \in Envelopes!EnvelopeFields |-> e[f]], NEW d \in Envelopes!Altered(e)
  PROVE  Bears(d, e)
  <1> DEFINE One(a) == \E v : d = [e EXCEPT ![a] = v]
             Two(a, b) == \E v, w : d = [e EXCEPT ![a] = v, ![b] = w]
  <1>1. ASSUME NEW a \in Envelopes!EnvelopeFields \ {"signature"}, One(a) PROVE Bears(d, e)
    BY <1>1, BearsOne
  <1>2. ASSUME NEW a \in Envelopes!EnvelopeFields \ {"signature"},
               NEW b \in Envelopes!EnvelopeFields \ {"signature"},
               Two(a, b)
        PROVE  Bears(d, e)
    <2>1. PICK v, w : d = [e EXCEPT ![a] = v, ![b] = w]
      BY <1>2
    <2>2. Bears([e EXCEPT ![a] = v, ![b] = w], e)
      BY BearsTwo
    <2> QED BY <2>1, <2>2, Zenon
  <1>3. \/ One("tenant") \/ One("card") \/ One("artifact") \/ One("version") \/ One("payload")
        \/ One("key") \/ Two("key", "signer") \/ One("status") \/ One("signedAt")
        \/ One("expiresAt") \/ Two("prev", "prevDigest") \/ One("manifest")
        \/ Two("domain", "purpose") \/ One("algorithm")
    BY Zenon DEF Envelopes!Altered
  <1>4. /\ "tenant" \in Envelopes!EnvelopeFields \ {"signature"}
           /\ "card" \in Envelopes!EnvelopeFields \ {"signature"}
        /\ "artifact" \in Envelopes!EnvelopeFields \ {"signature"}
           /\ "version" \in Envelopes!EnvelopeFields \ {"signature"}
        /\ "payload" \in Envelopes!EnvelopeFields \ {"signature"}
           /\ "key" \in Envelopes!EnvelopeFields \ {"signature"}
        /\ "signer" \in Envelopes!EnvelopeFields \ {"signature"}
           /\ "status" \in Envelopes!EnvelopeFields \ {"signature"}
        /\ "signedAt" \in Envelopes!EnvelopeFields \ {"signature"}
           /\ "expiresAt" \in Envelopes!EnvelopeFields \ {"signature"}
        /\ "prev" \in Envelopes!EnvelopeFields \ {"signature"}
           /\ "prevDigest" \in Envelopes!EnvelopeFields \ {"signature"}
        /\ "manifest" \in Envelopes!EnvelopeFields \ {"signature"}
           /\ "domain" \in Envelopes!EnvelopeFields \ {"signature"}
        /\ "purpose" \in Envelopes!EnvelopeFields \ {"signature"}
           /\ "algorithm" \in Envelopes!EnvelopeFields \ {"signature"}
    BY DEF Envelopes!EnvelopeFields
  <1> HIDE DEF One, Two
  <1> QED BY <1>1, <1>2, <1>3, <1>4, Zenon

LEMMA BuiltVerifies == ASSUME Envelopes!IndInv PROVE Envelopes!OnlyBuiltVerifies
  <1> SUFFICES ASSUME NEW d \in Envelopes!Presented, Envelopes!VerifyCryptographicEnvelope(d,
                      [tenant |-> d.tenant])
               PROVE  d \in envelopes
    BY DEF Envelopes!OnlyBuiltVerifies
  <1>1. Envelopes!SignatureValid(d)
    BY DEF Envelopes!VerifyCryptographicEnvelope
  <1>2. PICK e \in envelopes : d \in UNION {{a,
                               Envelopes!Identified(a)} : a \in Envelopes!Altered(e)}
    BY DEF Envelopes!Presented
  <1>3. PICK a \in Envelopes!Altered(e) : d \in {a, Envelopes!Identified(a)}
    BY <1>2
  <1>4. e = [f \in Envelopes!EnvelopeFields |-> e[f]]
    BY DEF Envelopes!IndInv, Envelopes!IsEnvelope
  <1>5. Bears(a, e)
    BY <1>4, AlteredBears
  <1>6. CASE d = a
    BY <1>1, <1>5, <1>6, SignedIsStored
  <1>7. CASE d = Envelopes!Identified(a)
    <2>1. a = [f \in Envelopes!EnvelopeFields |-> a[f]] /\ a.signature = e.signature
      BY <1>5 DEF Bears
    <2>2. /\ d = [f \in Envelopes!EnvelopeFields |-> d[f]]
          /\ \A f \in Envelopes!EnvelopeFields \ {"digest", "id"} : d[f] = a[f]
      BY <1>7, <2>1, IdentifiedFields
    <2>3. "signature" \in Envelopes!EnvelopeFields \ {"digest", "id"}
      BY DEF Envelopes!EnvelopeFields
    <2>4. Bears(d, e)
      BY <2>1, <2>2, <2>3 DEF Bears
    <2> QED BY <1>1, <2>4, SignedIsStored
  <1> QED BY <1>3, <1>6, <1>7

LEMMA WithinScope == ASSUME Envelopes!ConstantsAssumed,
Envelopes!IndInv PROVE Envelopes!AnsweredWithinScope
  <1> SUFFICES ASSUME NEW d \in envelopes, NEW session \in Envelopes!Sessions,
                      NEW scope \in Envelopes!Scopes,
                      NEW body, Envelopes!AnswersValid(session, scope, body, d)
               PROVE  /\ d.tenant = session.tenant
                      /\ session.privileged \/ d.card \in session.cards
    BY DEF Envelopes!AnsweredWithinScope
  <1> DEFINE fields == {"tenant"} \cup (IF scope.card = None THEN {} ELSE {"card"})
             x == Envelopes!Expected(scope, body)
  <1>1. /\ session.tenant = scope.tenant
        /\ session.privileged \/ scope.card \in session.cards
        /\ \A f \in DOMAIN x : d[f] = x[f]
    BY DEF Envelopes!AnswersValid, Envelopes!AuthorizeTrustOperation,
       Envelopes!VerifyCryptographicEnvelope, Envelopes!MeetsExpectations
  <1>2. x = [f \in fields \cup DOMAIN body |-> IF f \in fields THEN scope[f] ELSE body[f]]
    BY DEF Envelopes!Expected
  <1> HIDE DEF x
  <1>3. \A f \in fields : f \in DOMAIN x /\ x[f] = scope[f]
    BY <1>2
  <1>4. d["tenant"] = scope["tenant"]
    BY <1>1, <1>3
  <1>5. scope.card # None => d["card"] = scope["card"]
    BY <1>1, <1>3
  <1>6. scope.card \in session.cards => scope.card # None
    BY DEF Envelopes!ConstantsAssumed, Envelopes!Sessions
  <1> QED BY <1>1, <1>4, <1>5, <1>6

LEMMA RestsOnEvidence == ASSUME Envelopes!IndInv PROVE Envelopes!AcceptedRestsOnEvidence
  <1> SUFFICES ASSUME NEW d \in envelopes, Envelopes!VerifyCryptographicEnvelope(d, <<>>)
               PROVE  /\ d.prev # None =>
                           \E e \in envelopes : /\ e.id = d.prev /\ e.artifact = d.artifact
                                                /\ e.tenant = d.tenant
                                    /\ d.prevDigest = Envelopes!CreateDomainDigest(e)
                      /\ d.manifest # None =>
                           \E m \in manifests, e \in envelopes :
                               /\ m.id = d.manifest /\ m.digest = Envelopes!CreateDomainDigest(d)
                               /\ e.digest = m.digest
    BY DEF Envelopes!AcceptedRestsOnEvidence
  <1>1. ASSUME d.prev # None
        PROVE  \E e \in envelopes : /\ e.id = d.prev /\ e.artifact = d.artifact
                                    /\ e.tenant = d.tenant
                                    /\ d.prevDigest = Envelopes!CreateDomainDigest(e)
    <2>1. PICK e \in envelopes : /\ e.id = d.prev /\ e.digest = d.prevDigest
                               /\ e.tenant = d.tenant /\ e.artifact = d.artifact
      BY <1>1 DEF Envelopes!VerifyCryptographicEnvelope, Envelopes!PriorLinked
    <2>2. d.prevDigest = Envelopes!CreateDomainDigest(e)
      BY <2>1 DEF Envelopes!IndInv, Envelopes!IsEnvelope
    <2> QED BY <2>1, <2>2
  <1>2. ASSUME d.manifest # None
        PROVE  \E m \in manifests, e \in envelopes :
                   /\ m.id = d.manifest /\ m.digest = Envelopes!CreateDomainDigest(d)
                      /\ e.digest = m.digest
    <2>1. PICK m \in manifests : m.id = d.manifest /\ m.digest = d.digest
      BY <1>2 DEF Envelopes!VerifyCryptographicEnvelope, Envelopes!ProvenanceLinked
    <2>2. d.digest = Envelopes!CreateDomainDigest(d)
      BY DEF Envelopes!IndInv, Envelopes!IsEnvelope
    <2> QED BY <2>1, <2>2
  <1> QED BY <1>1, <1>2

\* Only what was built verifies, a session hears only of its own scope, and a
\* correction or a provenance rests on stored evidence, for any tenants, cards,
\* keys and envelopes (verifyCryptographicEnvelope, handleTrustRequest).
THEOREM EnvelopesSound == Envelopes!Spec => []EnvelopesAreSound
  <1>1. Envelopes!IndInv => EnvelopesAreSound
    BY EnvelopesTyped, BuiltVerifies, WithinScope, RestsOnEvidence, EnvelopeConstants
    DEF EnvelopesAreSound, Envelopes!EnvelopesAreSound
  <1> QED BY <1>1, EnvelopesInvariantHolds, PTL

-------------------------------------------------------------------------------
\* Time moves forward and evidence is only added.
LEMMA OnlyMore ==
  ASSUME Envelopes!ConstantsAssumed, Envelopes!IndInv, [Envelopes!Next]_Envelopes!vars
  PROVE  /\ now \in Nat /\ now' \in Nat /\ now <= now'
         /\ envelopes \subseteq envelopes' /\ manifests \subseteq manifests'
  <1>1. now \in Nat
    BY DEF Envelopes!IndInv
  <1>2. CASE Envelopes!Tick
    BY <1>1, <1>2 DEF Envelopes!Tick
  <1>3. CASE \E k \in EnvelopeKeys, to \in {"retiring", "retired", "active",
             "revoked"} : Envelopes!ChangeKey(k, to)
    BY <1>1, <1>3 DEF Envelopes!ChangeKey
  <1>4. ASSUME NEW k \in EnvelopeKeys, NEW card, NEW artifact, NEW version, NEW payload,
               NEW signedAt \in 0..EnvelopeTime,
               NEW lifetime \in EnvelopeLifetimes \cup {Envelopes!Never}, NEW prev, NEW prevDigest,
               NEW manifest, NEW status,
               NEW metadata,
               Envelopes!Build(k, card, artifact, version, payload, signedAt, lifetime, prev,
               prevDigest, manifest, status, metadata)
        PROVE  /\ now' \in Nat /\ now <= now'
               /\ envelopes \subseteq envelopes' /\ manifests \subseteq manifests'
    <2>1. StoresOne(prev, manifest)
      BY <1>4, BuiltEnvelope, ZenonT(60)
    <2> QED BY <1>1, <2>1 DEF StoresOne
  <1>5. CASE \E e \in envelopes : Envelopes!RecordManifest(e)
    BY <1>1, <1>5 DEF Envelopes!RecordManifest
  <1>6. CASE UNCHANGED Envelopes!vars
    BY <1>1, <1>6 DEF Envelopes!vars
  <1> QED BY <1>1, <1>2, <1>3, <1>4, <1>5, <1>6, ZenonT(60) DEF Envelopes!Next

\* No step makes an envelope that expired unexpired, or a key that may not
\* verify one that may.
LEMMA KeyVerdict ==
  ASSUME Envelopes!ConstantsAssumed, Envelopes!IndInv, [Envelopes!Next]_Envelopes!vars,
         NEW e \in envelopes
  PROVE  /\ Envelopes!NotExpired(e)' => Envelopes!NotExpired(e)
         /\ Envelopes!SignatureValid(e)' => Envelopes!SignatureValid(e)
  <1>1. now \in Nat /\ now' \in Nat /\ now <= now'
    BY OnlyMore
  <1>2. e.signedAt \in 0..EnvelopeTime /\ e.expiresAt \in Nat
    BY DEF Envelopes!IndInv, Envelopes!IsEnvelope
  <1>3. Envelopes!NotExpired(e)' => Envelopes!NotExpired(e)
    BY <1>1, <1>2 DEF Envelopes!NotExpired, Envelopes!Never
  <1>4. ASSUME NEW k \in EnvelopeKeys, keyStatus'[k].status \in {"active", "retiring"},
               e.signedAt <= keyStatus'[k].cutoff
        PROVE  keyStatus[k].status \in {"active", "retiring"} /\ e.signedAt <= keyStatus[k].cutoff
    <2>1. keyStatus \in [EnvelopeKeys -> [status : {"active", "retiring", "retired", "revoked"},
          cutoff : 0..Envelopes!Never]]
          /\ (keyStatus[k].status = "active" => keyStatus[k].cutoff = Envelopes!Never)
      BY DEF Envelopes!IndInv, Envelopes!KeysHaveTheirCutoff
    <2>2. e.signedAt <= Envelopes!Never
      BY <1>1, <1>2 DEF Envelopes!IndInv, Envelopes!Never, Envelopes!ConstantsAssumed
    <2>3. CASE keyStatus'[k] = keyStatus[k]
      BY <1>4, <2>3
    <2>4. ASSUME NEW j \in EnvelopeKeys, NEW to, Envelopes!ChangeKey(j, to)
          PROVE  keyStatus[k].status \in {"active", "retiring"} /\ e.signedAt <= keyStatus[k].cutoff
      <3>1. CASE j # k
        BY <2>1, <2>3, <2>4, <3>1 DEF Envelopes!ChangeKey
      <3>2. CASE j = k
        <4>1. keyStatus'[k].status = to /\ <<keyStatus[k].status, to>> \in Envelopes!KeyTransitions
          BY <2>1, <2>4, <3>2 DEF Envelopes!ChangeKey
        <4>2. keyStatus[k].status = "active"
          BY <4>1, <1>4 DEF Envelopes!KeyTransitions
        <4> QED BY <4>2, <2>1, <2>2
      <3> QED BY <3>1, <3>2
    <2>5. keyStatus' = keyStatus
          \/ \E j \in EnvelopeKeys, to \in {"retiring", "retired", "active",
             "revoked"} : Envelopes!ChangeKey(j, to)
      <3>1. CASE Envelopes!Tick \/ UNCHANGED Envelopes!vars
            \/ \E d \in envelopes : Envelopes!RecordManifest(d)
        BY <3>1 DEF Envelopes!Tick, Envelopes!RecordManifest, Envelopes!vars
      <3>2. ASSUME NEW j, NEW card, NEW artifact, NEW version, NEW payload, NEW signedAt,
                   NEW lifetime, NEW prev, NEW prevDigest, NEW manifest, NEW status, NEW metadata,
                   Envelopes!Build(j, card, artifact, version, payload, signedAt, lifetime, prev,
                                   prevDigest, manifest, status, metadata)
            PROVE  keyStatus' = keyStatus
        BY <3>2, Zenon DEF Envelopes!Build
      <3> QED BY <3>1, <3>2, ZenonT(60) DEF Envelopes!Next
    <2> QED BY <2>3, <2>4, <2>5
  <1>5. Envelopes!SignatureValid(e)' => Envelopes!SignatureValid(e)
    BY <1>4 DEF Envelopes!SignatureValid, Envelopes!EnforceKeyForVerification
  <1> QED BY <1>3, <1>5

\* A stored envelope's links are decided when it is stored: what comes later
\* with the identifier it names is what was there.
LEMMA LinkVerdict ==
  ASSUME Envelopes!ConstantsAssumed, Envelopes!IndInv, Envelopes!IndInv',
         [Envelopes!Next]_Envelopes!vars, NEW d \in envelopes
  PROVE  /\ Envelopes!PriorLinked(d)' => Envelopes!PriorLinked(d)
         /\ Envelopes!ProvenanceLinked(d)' => Envelopes!ProvenanceLinked(d)
  <1>1. Envelopes!LinkedToTheStored(d)
    BY DEF Envelopes!IndInv
  <1>2. /\ \A e \in envelopes' : e = [f \in Envelopes!EnvelopeFields |-> e[f]]
           /\ e.id = Envelopes!ComputeEnvelopeId(e)
        /\ \A m \in manifests' : Envelopes!IsManifest(m)
    BY DEF Envelopes!IndInv, Envelopes!IsEnvelope
  <1>3. envelopes \subseteq envelopes' /\ manifests \subseteq manifests'
    BY OnlyMore
  <1>4. ASSUME d.prev # None, NEW e \in envelopes', e.id = d.prev, e.digest = d.prevDigest,
               e.tenant = d.tenant, e.artifact = d.artifact
        PROVE  Envelopes!PriorLinked(d)
    <2>1. PICK g \in envelopes : g.id = d.prev
      BY <1>1, <1>4 DEF Envelopes!LinkedToTheStored
    <2>2. /\ e = [f \in Envelopes!EnvelopeFields |-> e[f]]
             /\ g = [f \in Envelopes!EnvelopeFields |-> g[f]]
          /\ Envelopes!ComputeEnvelopeId(e) = Envelopes!ComputeEnvelopeId(g)
      BY <1>2, <1>3, <1>4, <2>1
    <2>3. \A f \in Envelopes!EnvelopeFields \ {"signature", "id"} : e[f] = g[f]
      BY <2>2, SameIdentifier
    <2>4. e["digest"] = g["digest"] /\ e["tenant"] = g["tenant"] /\ e["artifact"] = g["artifact"]
      BY <2>3 DEF Envelopes!EnvelopeFields
    <2> QED BY <1>4, <2>1, <2>4 DEF Envelopes!PriorLinked
  <1>5. ASSUME d.manifest # None, NEW m \in manifests', m.id = d.manifest,
               Envelopes!VerifyProvenanceManifest(m),
               m.tenant = d.tenant, m.artifact = d.artifact, m.version = d.version,
               m.digest = d.digest
        PROVE  Envelopes!ProvenanceLinked(d)
    <2>1. PICK n \in manifests : n.id = d.manifest
      BY <1>1, <1>5 DEF Envelopes!LinkedToTheStored
    <2>2. m = n
      BY <1>2, <1>3, <1>5, <2>1, SameManifest
    <2> QED BY <1>5, <2>2 DEF Envelopes!ProvenanceLinked
  <1>6. Envelopes!PriorLinked(d)' => Envelopes!PriorLinked(d)
    BY <1>4 DEF Envelopes!PriorLinked
  <1>7. Envelopes!ProvenanceLinked(d)' => Envelopes!ProvenanceLinked(d)
    BY <1>5 DEF Envelopes!ProvenanceLinked, Envelopes!VerifyProvenanceManifest
  <1> QED BY <1>6, <1>7

\* No passing of time, no transition of a key and no new evidence turns the
\* rejection of a stored envelope into an acceptance.
THEOREM VerdictStaysNegative == Envelopes!Spec => VerdictNeverImproves
  <1>1. Envelopes!IndInv /\ Envelopes!IndInv' /\ [Envelopes!Next]_Envelopes!vars =>
          [\A e \in envelopes :
             Envelopes!VerifyCryptographicEnvelope(e, <<>>)'
             => Envelopes!VerifyCryptographicEnvelope(e, <<>>)]_Envelopes!vars
    <2> SUFFICES ASSUME Envelopes!IndInv, Envelopes!IndInv', [Envelopes!Next]_Envelopes!vars,
                        NEW e \in envelopes,
                        Envelopes!VerifyCryptographicEnvelope(e, <<>>)'
                 PROVE  Envelopes!VerifyCryptographicEnvelope(e, <<>>)
      OBVIOUS
    <2>1. /\ Envelopes!ValidateCryptographicEnvelope(e)
             /\ Envelopes!EnforceAlgorithmPolicy(e.algorithm)
          /\ e.purpose = Envelopes!KeyPurposeForDomain(e.domain)
             /\ Envelopes!MeetsExpectations(e, <<>>)
          /\ Envelopes!NotExpired(e)' /\ e.digest = Envelopes!CreateDomainDigest(e)
             /\ e.id = Envelopes!ComputeEnvelopeId(e)
          /\ Envelopes!SignatureValid(e)' /\ Envelopes!PriorLinked(e)'
             /\ Envelopes!ProvenanceLinked(e)'
      BY DEF Envelopes!VerifyCryptographicEnvelope, Envelopes!ValidateCryptographicEnvelope,
         Envelopes!EnforceAlgorithmPolicy,
             Envelopes!KeyPurposeForDomain, Envelopes!MeetsExpectations,
             Envelopes!CreateDomainDigest, Envelopes!ComputeEnvelopeId
    <2> QED BY <2>1, KeyVerdict, LinkVerdict, EnvelopeConstants
       DEF Envelopes!VerifyCryptographicEnvelope
  <1> QED BY <1>1, EnvelopesInvariantHolds, PTL
     DEF Envelopes!Spec, VerdictNeverImproves, Envelopes!VerdictNeverImproves

-----------------------------------------------------------------------------
(***************************************************************************)
(* Audit streams (TrustAuditChain).  The stored entries are numbered from  *)
(* one and linked by digests; a list that verifies is numbered the same    *)
(* way, and from its last entry, which is one of the stream, its links     *)
(* lead back through the stream.                                           *)
(***************************************************************************)
\* A set of naturals has a least element: induction without an operator.
LEMMA LeastNat ==
  ASSUME NEW T, T \subseteq Nat, T # {}
  PROVE  \E x \in T : \A y \in T : x <= y
  <1> DEFINE R == OpToRel(<, Nat)
  <1>1. IsWellFoundedOn(R, Nat)
    BY NatLessThanWellFounded
  <1>2. \A x, y \in Nat : x < y <=> <<x, y>> \in R
    BY DEF OpToRel
  <1> HIDE DEF R
  <1>3. \E x \in T : \A y \in T : ~(<<y, x>> \in R)
    BY <1>1, WFMin
  <1>4. PICK x \in T : \A y \in T : ~(<<y, x>> \in R)
    BY <1>3
  <1>5. \A y \in T : ~(y < x)
    BY <1>2, <1>4
  <1> QED BY <1>5

\* A digest covers every field but itself.
LEMMA DigestFields ==
  ASSUME NEW e, Chain!IsEntry(e)
  PROVE  /\ Chain!EntryDigest(e)["sequence"] = e.sequence
            /\ Chain!EntryDigest(e)["previous"] = e.previous
         /\ Chain!EntryDigest(e)["event"] = e.event /\ Chain!EntryDigest(e)["stream"] = e.stream
         /\ Chain!EntryDigest(e)["checkpoint"] = e.checkpoint
  <1>1. DOMAIN e = {"sequence", "previous", "event", "stream", "checkpoint", "digest"}
    BY DEF Chain!IsEntry
  <1>2. \A f \in DOMAIN e \ {"digest"} : Chain!EntryDigest(e)[f] = e[f]
    BY DEF Chain!EntryDigest
  <1> QED BY <1>1, <1>2

\* Two entries with one digest are one entry.
LEMMA DigestIsInjective ==
  ASSUME NEW e, NEW f, Chain!IsEntry(e), Chain!IsEntry(f), e.digest = f.digest
  PROVE  e = f
  <1>1. Chain!EntryDigest(e) = Chain!EntryDigest(f)
    BY DEF Chain!IsEntry
  <1>2. /\ e.sequence = f.sequence /\ e.previous = f.previous /\ e.event = f.event
        /\ e.stream = f.stream /\ e.checkpoint = f.checkpoint
    BY <1>1, DigestFields
  <1> QED BY <1>2 DEF Chain!IsEntry

\* appendAuditChainEntry builds entries.
LEMMA BuiltEntry ==
  ASSUME NEW n \in Nat, NEW p, NEW ev \in Events, NEW cp
  PROVE  LET e == Chain!Entry(n, p, ev, EventStream[ev], cp) IN
         /\ Chain!IsEntry(e) /\ e.sequence = n /\ e.previous = p /\ e.event = ev
         /\ e.stream = EventStream[ev] /\ e.checkpoint = cp
  <1> DEFINE base == [sequence |-> n, previous |-> p, event |-> ev,
                      stream |-> EventStream[ev], checkpoint |-> cp, digest |-> NoDigest]
             d == Chain!EntryDigest(base)
             e == [sequence |-> n, previous |-> p, event |-> ev,
                   stream |-> EventStream[ev], checkpoint |-> cp, digest |-> d]
  <1>1. Chain!Entry(n, p, ev, EventStream[ev], cp) = e
    BY DEF Chain!Entry
  <1>2. Chain!EntryDigest(e) = d
    <2>1. DOMAIN e = DOMAIN base
          /\ DOMAIN base = {"sequence", "previous", "event", "stream", "checkpoint", "digest"}
      OBVIOUS
    <2>2. \A f \in DOMAIN base \ {"digest"} : e[f] = base[f]
      BY <2>1
    <2> HIDE DEF e, base
    <2> QED BY <2>1, <2>2 DEF Chain!EntryDigest
  <1>3. /\ e.sequence = n /\ e.previous = p /\ e.event = ev
        /\ e.stream = EventStream[ev] /\ e.checkpoint = cp /\ e.digest = d
    OBVIOUS
  <1>4. e = [sequence |-> e.sequence, previous |-> e.previous, event |-> e.event,
             stream |-> e.stream, checkpoint |-> e.checkpoint, digest |-> e.digest]
    OBVIOUS
  <1> HIDE DEF e, d
  <1>5. Chain!IsEntry(e)
    BY <1>2, <1>3, <1>4 DEF Chain!IsEntry
  <1> QED BY <1>1, <1>3, <1>5

LEMMA ChainInit == Chain!ConstantsAssumed /\ Chain!Init => Chain!IndInv
  <1> SUFFICES ASSUME Chain!Init PROVE Chain!IndInv
    OBVIOUS
  <1>1. \A s \in Streams : chain[s] = <<>> /\ DOMAIN chain[s] = {}
    BY DEF Chain!Init
  <1>2. Chain!EntriesAreWhole
    BY <1>1 DEF Chain!Init, Chain!EntriesAreWhole
  <1> QED BY <1>1, <1>2 DEF Chain!IndInv, Chain!LinkedInOrder, Chain!NoReplay

\* What appendAuditChainEntry makes of the stored entries is an entry.
LEMMA PreparedEntry ==
  ASSUME Chain!ConstantsAssumed, Chain!IndInv, NEW ev \in Events
  PROVE  Chain!IsEntry(Chain!AppendAuditChainEntry(chain[EventStream[ev]], EventStream[ev], ev))
  <1> DEFINE s == EventStream[ev]
             rows == chain[s]
  <1>1. s \in Streams
    BY DEF Chain!ConstantsAssumed
  <1>2. rows \in Seq(built)
    BY <1>1 DEF Chain!IndInv, Chain!EntriesAreWhole
  <1>3. CASE rows = <<>>
    <2>1. Chain!AppendAuditChainEntry(rows, s, ev) = Chain!Entry(1, NoDigest, ev, s,
          Chain!NoCheckpoint)
      BY <1>3 DEF Chain!AppendAuditChainEntry
    <2>2. Chain!IsEntry(Chain!Entry(1, NoDigest, ev, s, Chain!NoCheckpoint))
      BY BuiltEntry
    <2> QED BY <2>1, <2>2
  <1>4. CASE rows # <<>>
    <2>1. Chain!Last(rows) \in built
      BY <1>2, <1>4 DEF Chain!Last
    <2>2. Chain!Last(rows).sequence + 1 \in Nat
      BY <2>1 DEF Chain!IndInv, Chain!EntriesAreWhole, Chain!IsEntry
    <2>3. Chain!AppendAuditChainEntry(rows, s, ev) =
            Chain!Entry(Chain!Last(rows).sequence + 1, Chain!Last(rows).digest, ev, s,
            Chain!NoCheckpoint)
      BY <1>4 DEF Chain!AppendAuditChainEntry
    <2>4. Chain!IsEntry(Chain!Entry(Chain!Last(rows).sequence + 1, Chain!Last(rows).digest, ev, s,
          Chain!NoCheckpoint))
      <3> DEFINE q == Chain!Last(rows).sequence + 1
                 d == Chain!Last(rows).digest
      <3> HIDE DEF q, d, rows
      <3>1. q \in Nat
        BY <2>2 DEF q
      <3>2. Chain!IsEntry(Chain!Entry(q, d, ev, EventStream[ev], Chain!NoCheckpoint))
        BY <3>1, BuiltEntry
      <3> QED BY <3>2 DEF q, d
    <2> QED BY <2>3, <2>4
  <1> QED BY <1>3, <1>4

LEMMA ChainPrepareInv ==
  ASSUME Chain!ConstantsAssumed, Chain!IndInv, NEW w \in Writers, NEW ev \in Events,
         Chain!Prepare(w, ev)
  PROVE  Chain!IndInv'
  <1> DEFINE e == Chain!AppendAuditChainEntry(chain[EventStream[ev]], EventStream[ev], ev)
  <1>1. /\ draft' = [draft EXCEPT ![w] = <<e>>] /\ built' = built \cup {e} /\ chain' = chain
    BY DEF Chain!Prepare
  <1>2. Chain!IsEntry(e)
    BY PreparedEntry
  <1> HIDE DEF e
  <1>3. \A f \in built' : Chain!IsEntry(f)
    BY <1>1, <1>2 DEF Chain!IndInv, Chain!EntriesAreWhole
  <1>4. chain' \in [Streams -> Seq(built')]
    <2>1. Seq(built) \subseteq Seq(built')
      BY <1>1
    <2> QED BY <1>1, <2>1 DEF Chain!IndInv, Chain!EntriesAreWhole
  <1>5. draft' \in [Writers -> {<<>>} \cup {<<f>> : f \in built'}]
    <2>1. {<<>>} \cup {<<f>> : f \in built} \subseteq {<<>>} \cup {<<f>> : f \in built'}
      BY <1>1
    <2>2. <<e>> \in {<<f>> : f \in built'}
      BY <1>1
    <2> QED BY <1>1, <2>1, <2>2 DEF Chain!IndInv, Chain!EntriesAreWhole
  <1>6. Chain!EntriesAreWhole'
    BY <1>3, <1>4, <1>5 DEF Chain!EntriesAreWhole, Chain!IsEntry
  <1>7. Chain!LinkedInOrder' /\ \A s \in Streams : Chain!NoReplay(chain'[s])
    BY <1>1 DEF Chain!IndInv, Chain!LinkedInOrder
  <1> QED BY <1>6, <1>7 DEF Chain!IndInv, Chain!NoReplay

LEMMA InsertInv ==
  ASSUME Chain!ConstantsAssumed, Chain!IndInv, NEW w \in Writers, Chain!Insert(w)
  PROVE  Chain!IndInv'
  <1>1. PICK e \in built : draft[w] = <<e>>
    BY DEF Chain!IndInv, Chain!EntriesAreWhole, Chain!Insert
  <1> DEFINE s == e.stream
             rows == chain[s]
             n == Len(rows)
  <1>2. Chain!IsEntry(e) /\ s \in Streams /\ e.event \in Events
    BY DEF Chain!IndInv, Chain!EntriesAreWhole, Chain!IsEntry, Chain!ConstantsAssumed
  <1>3. /\ Chain!AppendAllowed(e) /\ chain' = [chain EXCEPT ![s] = Append(rows, e)]
        /\ draft' = [draft EXCEPT ![w] = <<>>] /\ built' = built
    BY <1>1 DEF Chain!Insert
  <1>4. rows \in Seq(built) /\ n \in Nat /\ DOMAIN rows = 1..n
    BY <1>2 DEF Chain!IndInv, Chain!EntriesAreWhole
  <1> DEFINE new == Append(rows, e)
  <1>5. /\ new \in Seq(built) /\ Len(new) = n + 1 /\ DOMAIN new = 1..(n + 1)
        /\ \A i \in 1..n : new[i] = rows[i]
        /\ new[n + 1] = e
    BY <1>4
  <1> HIDE DEF new
  <1>6. /\ chain'[s] = new
        /\ \A t \in Streams : t # s => chain'[t] = chain[t]
        /\ chain' \in [Streams -> Seq(built)]
    BY <1>2, <1>3, <1>5 DEF new, Chain!IndInv, Chain!EntriesAreWhole
  <1>7. Chain!EntriesAreWhole'
    <2>1. draft' \in [Writers -> {<<>>} \cup {<<f>> : f \in built}]
      BY <1>3 DEF Chain!IndInv, Chain!EntriesAreWhole
    <2> QED BY <1>3, <1>6, <2>1 DEF Chain!IndInv, Chain!EntriesAreWhole, Chain!IsEntry
  <1>8. Chain!LinkedInOrder'
    <2> SUFFICES ASSUME NEW t \in Streams, NEW i \in DOMAIN chain'[t]
                 PROVE  /\ chain'[t][i].stream = t /\ chain'[t][i].sequence = i
                        /\ i = 1 => Chain!BeginsAt(chain'[t][i], Chain!NoCheckpoint)
                        /\ i > 1 => Chain!Follows(chain'[t][i], chain'[t][i - 1])
      BY DEF Chain!LinkedInOrder
    <2>1. CASE t # s
      BY <2>1, <1>6 DEF Chain!IndInv, Chain!LinkedInOrder
    <2>2. CASE t = s /\ i \in 1..n
      <3>1. chain'[t][i] = rows[i] /\ (i > 1 => chain'[t][i - 1] = rows[i - 1])
        BY <2>2, <1>4, <1>5, <1>6
      <3>2. /\ rows[i].stream = s /\ rows[i].sequence = i
            /\ i = 1 => Chain!BeginsAt(rows[i], Chain!NoCheckpoint)
            /\ i > 1 => Chain!Follows(rows[i], rows[i - 1])
        BY <2>2, <1>2, <1>4 DEF Chain!IndInv, Chain!LinkedInOrder
      <3> QED BY <2>2, <3>1, <3>2
    <2>3. CASE t = s /\ i = n + 1
      <3>1. chain'[t][i] = e /\ (n > 0 => chain'[t][i - 1] = rows[n])
        BY <2>3, <1>4, <1>5, <1>6
      <3>2. CASE n = 0
        <4>1. rows = <<>>
          BY <3>2, <1>4
        <4>2. Chain!BeginsAt(e, Chain!NoCheckpoint)
          BY <4>1, <1>3 DEF Chain!AppendAllowed
        <4> QED BY <2>3, <3>1, <3>2, <4>2 DEF Chain!BeginsAt, Chain!NoCheckpoint
      <3>3. CASE n > 0
        <4>1. rows # <<>> /\ Chain!Last(rows) = rows[n]
          BY <3>3, <1>4 DEF Chain!Last
        <4>2. Chain!Follows(e, rows[n])
          BY <4>1, <1>3 DEF Chain!AppendAllowed
        <4>3. rows[n].sequence = n
          BY <3>3, <1>2, <1>4 DEF Chain!IndInv, Chain!LinkedInOrder
        <4>4. e.sequence = n + 1
          BY <4>2, <4>3 DEF Chain!Follows
        <4> QED BY <2>3, <3>1, <3>3, <4>2, <4>4, <1>4
      <3> QED BY <3>2, <3>3, <1>4
    <2>4. t = s => i \in 1..n \/ i = n + 1
      BY <1>4, <1>5, <1>6
    <2> QED BY <2>1, <2>2, <2>3, <2>4
  <1>9. \A t \in Streams : Chain!NoReplay(chain'[t])
    <2>1. \A i \in 1..n : /\ rows[i].event # e.event
                          /\ IdempotencyKey[rows[i].event] # IdempotencyKey[e.event]
      BY <1>2, <1>3, <1>4 DEF Chain!AppendAllowed
    <2>2. Chain!NoReplay(rows)
      BY <1>2 DEF Chain!IndInv
    <2>3. Chain!NoReplay(new)
      <3> SUFFICES ASSUME NEW i \in 1..(n + 1), NEW j \in 1..(n + 1), i # j
                   PROVE  /\ new[i].event # new[j].event
                          /\ IdempotencyKey[new[i].event] # IdempotencyKey[new[j].event]
        BY <1>5 DEF Chain!NoReplay
      <3>1. CASE i \in 1..n /\ j \in 1..n
        <4>1. new[i] = rows[i] /\ new[j] = rows[j]
          BY <3>1, <1>5
        <4> QED BY <4>1, <3>1, <2>2, <1>4 DEF Chain!NoReplay
      <3>2. CASE i \in 1..n /\ j = n + 1
        <4>1. new[i] = rows[i] /\ new[j] = e
          BY <3>2, <1>5
        <4> QED BY <4>1, <3>2, <2>1
      <3>3. CASE i = n + 1 /\ j \in 1..n
        <4>1. new[j] = rows[j] /\ new[i] = e
          BY <3>3, <1>5
        <4> QED BY <4>1, <3>3, <2>1
      <3> QED BY <3>1, <3>2, <3>3, <1>4
    <2> QED BY <2>3, <1>6 DEF Chain!IndInv
  <1> QED BY <1>7, <1>8, <1>9 DEF Chain!IndInv, Chain!NoReplay

\* However the writers interleave, stored entries are whole, numbered from one,
\* linked and never replayed (enforce_trust_audit_append_v1).
THEOREM ChainInvariantHolds == Chain!Spec => []Chain!IndInv
  <1>1. Chain!Init => Chain!IndInv
    BY ChainInit, ChainConstants
  <1>2. Chain!IndInv /\ [Chain!Next]_Chain!vars => Chain!IndInv'
    <2> SUFFICES ASSUME Chain!IndInv, [Chain!Next]_Chain!vars PROVE Chain!IndInv'
      OBVIOUS
    <2>1. ASSUME NEW w \in Writers, NEW ev \in Events, Chain!Prepare(w, ev) PROVE Chain!IndInv'
      BY <2>1, ChainPrepareInv, ChainConstants
    <2>2. ASSUME NEW w \in Writers, Chain!Insert(w) PROVE Chain!IndInv'
      BY <2>2, InsertInv, ChainConstants
    <2>3. ASSUME UNCHANGED <<chain, built>>,
                 \/ draft' = draft
                 \/ \E w \in Writers : draft' = [draft EXCEPT ![w] = <<>>]
          PROVE  Chain!IndInv'
      <3>1. draft' \in [Writers -> {<<>>} \cup {<<f>> : f \in built}]
        BY <2>3 DEF Chain!IndInv, Chain!EntriesAreWhole
      <3> QED BY <2>3, <3>1 DEF Chain!IndInv, Chain!EntriesAreWhole, Chain!LinkedInOrder,
         Chain!NoReplay, Chain!IsEntry
    <2> QED BY <2>1, <2>2, <2>3 DEF Chain!Next, Chain!Refuse, Chain!vars
  <1> QED BY <1>1, <1>2, PTL DEF Chain!Spec

LEMMA StoredVerifies == ASSUME Chain!ConstantsAssumed, Chain!IndInv PROVE Chain!StoredStreamVerifies
  <1> SUFFICES ASSUME NEW s \in Streams, Len(chain[s]) <= MaxEntries
               PROVE  Chain!VerifyAuditChain(chain[s], s, Chain!NoCheckpoint)
    BY DEF Chain!StoredStreamVerifies
  <1>1. chain[s] \in Seq(built) /\ DOMAIN chain[s] = 1..Len(chain[s]) /\ Len(chain[s]) \in Nat
    BY DEF Chain!IndInv, Chain!EntriesAreWhole
  <1>2. chain[s] # <<>> => Chain!BeginsAt(chain[s][1], Chain!NoCheckpoint)
    BY <1>1 DEF Chain!IndInv, Chain!LinkedInOrder
  <1>3. \A i \in 2..Len(chain[s]) : Chain!Follows(chain[s][i], chain[s][i - 1])
    BY <1>1 DEF Chain!IndInv, Chain!LinkedInOrder
  <1>4. \A i \in DOMAIN chain[s] :
          /\ chain[s][i].stream = s
          /\ EventStream[chain[s][i].event] = chain[s][i].stream
          /\ Chain!EntryDigest(chain[s][i]) = chain[s][i].digest
    BY <1>1 DEF Chain!IndInv, Chain!EntriesAreWhole, Chain!LinkedInOrder, Chain!IsEntry
  <1> QED BY <1>2, <1>3, <1>4 DEF Chain!VerifyAuditChain, Chain!IndInv

LEMMA ChainTyped == ASSUME Chain!IndInv PROVE Chain!TypeOK
  <1>1. \A e \in built : e.digest = Chain!EntryDigest(e) /\ e.stream = EventStream[e.event]
    BY DEF Chain!IndInv, Chain!EntriesAreWhole, Chain!IsEntry
  <1>2. \A s \in Streams : Chain!Range(chain[s]) \subseteq built
    BY DEF Chain!IndInv, Chain!EntriesAreWhole, Chain!Range
  <1>3. \A w \in Writers : Len(draft[w]) <= 1 /\ Chain!Range(draft[w]) \subseteq built
    <2> SUFFICES ASSUME NEW w \in Writers
                 PROVE  Len(draft[w]) <= 1 /\ Chain!Range(draft[w]) \subseteq built
      OBVIOUS
    <2>1. CASE draft[w] = <<>>
      BY <2>1 DEF Chain!Range
    <2>2. ASSUME NEW e \in built, draft[w] = <<e>>
          PROVE  Len(draft[w]) <= 1 /\ Chain!Range(draft[w]) \subseteq built
      BY <2>2 DEF Chain!Range
    <2>3. draft[w] = <<>> \/ \E e \in built : draft[w] = <<e>>
      BY DEF Chain!IndInv, Chain!EntriesAreWhole
    <2> QED BY <2>1, <2>2, <2>3
  <1> QED BY <1>1, <1>2, <1>3 DEF Chain!TypeOK

\* Sequences that agree up to the length of the first are prefix and sequence.
LEMMA PrefixOf ==
  ASSUME NEW S, NEW l \in Seq(S), NEW c \in Seq(S), Len(l) <= Len(c),
         \A i \in 1..Len(l) : l[i] = c[i]
  PROVE  Chain!IsPrefix(l, c)
  <1>1. Len(l) \in Nat /\ Len(c) \in Nat
    OBVIOUS
  <1>2. SubSeq(l, 1, Len(l)) = [i \in 1..Len(l) |-> l[i]]
    BY <1>1
  <1>3. SubSeq(c, 1, Len(l)) = [i \in 1..Len(l) |-> c[i]]
    BY <1>1
  <1> QED BY <1>2, <1>3 DEF Chain!IsPrefix

\* Two sequences that agree from the start and end alike agree everywhere when
\* each element determines the one before it.
LEMMA AcceptedList ==
  ASSUME Chain!ConstantsAssumed, Chain!IndInv, NEW s \in Streams, NEW l, NEW S, l \in Seq(S),
         l # <<>>,
         \A i \in 1..Len(l) : Chain!IsEntry(l[i]),
         Chain!Last(l).digest \in Chain!Heads(s), Chain!VerifyAuditChain(l, s, Chain!NoCheckpoint)
  PROVE  Chain!IsPrefix(l, chain[s])
  <1> DEFINE m == Len(l)
             c == chain[s]
  <1>1. m \in Nat /\ m >= 1 /\ DOMAIN l = 1..m /\ Chain!Last(l) = l[m]
    BY DEF Chain!Last
  <1>2. c \in Seq(built) /\ Len(c) \in Nat /\ DOMAIN c = 1..Len(c)
        /\ \A i \in 1..Len(c) : Chain!IsEntry(c[i])
    BY DEF Chain!IndInv, Chain!EntriesAreWhole
  <1>3. \A i \in 1..Len(c) : /\ c[i].sequence = i
                             /\ i > 1 => Chain!Follows(c[i], c[i - 1])
    BY <1>2 DEF Chain!IndInv, Chain!LinkedInOrder
  <1>4. l[1].sequence = 1 /\ \A i \in 2..m : Chain!Follows(l[i], l[i - 1])
    BY DEF Chain!VerifyAuditChain, Chain!BeginsAt, Chain!NoCheckpoint
  <1>5. PICK n \in 1..Len(c) : l[m].digest = c[n].digest
    BY <1>1, <1>2 DEF Chain!Heads
  <1> HIDE DEF m, c
  <1>6. \A i \in 1..m : l[i].sequence = i
    <2> DEFINE T == {i \in 1..m : l[i].sequence # i}
    <2> SUFFICES ASSUME T # {} PROVE FALSE
      OBVIOUS
    <2>1. T \subseteq Nat
      BY <1>1
    <2>2. PICK x \in T : \A y \in T : x <= y
      BY <2>1, LeastNat
    <2>3. x \in 1..m /\ l[x].sequence # x /\ x - 1 \notin T
      <3>1. x \in 1..m /\ l[x].sequence # x
        BY <2>2
      <3>2. ~(x <= x - 1)
        BY <3>1, <1>1
      <3> QED BY <3>1, <3>2, <2>2
    <2>4. x # 1
      BY <2>3, <1>4
    <2>5. x \in 2..m /\ x - 1 \in 1..m
      BY <2>3, <2>4, <1>1
    <2>6. l[x - 1].sequence = x - 1
      BY <2>3, <2>5
    <2>7. l[x].sequence = l[x - 1].sequence + 1
      BY <2>5, <1>4 DEF Chain!Follows
    <2> QED BY <2>3, <2>5, <2>6, <2>7, <1>1
  <1>7. l[m] = c[n] /\ n = m
    <2>1. m \in 1..m
      BY <1>1
    <2>2. Chain!IsEntry(l[m]) /\ Chain!IsEntry(c[n])
      BY <2>1, <1>2 DEF m
    <2>3. l[m] = c[n]
      BY <2>2, <1>5, DigestIsInjective
    <2> QED BY <2>1, <2>3, <1>3, <1>5, <1>6
  <1>8. m <= Len(c)
    BY <1>5, <1>7
  <1>9. \A i \in 1..m : l[i] = c[i]
    <2> DEFINE T == {k \in 0..(m - 1) : l[m - k] # c[m - k]}
    <2>1. T = {}
      <3> SUFFICES ASSUME T # {} PROVE FALSE
        OBVIOUS
      <3>1. T \subseteq Nat
        BY <1>1
      <3>2. PICK x \in T : \A y \in T : x <= y
        BY <3>1, LeastNat
      <3>3. x \in 0..(m - 1) /\ l[m - x] # c[m - x] /\ x - 1 \notin T
        <4>1. x \in 0..(m - 1) /\ l[m - x] # c[m - x]
          BY <3>2
        <4>2. ~(x <= x - 1)
          BY <4>1, <1>1
        <4> QED BY <4>1, <4>2, <3>2
      <3>4. x # 0
        BY <3>3, <1>1, <1>7
      <3> DEFINE i == m - x + 1
      <3>5. i \in 2..m /\ i \in 1..Len(c) /\ i > 1 /\ x - 1 \in 0..(m - 1) /\ i - 1 = m - x
            /\ m - (x - 1) = i
            /\ m - x \in 1..m /\ m - x \in 1..Len(c)
        BY <3>3, <3>4, <1>1, <1>2, <1>8
      <3>6. l[i] = c[i]
        BY <3>3, <3>5
      <3>7. l[i].previous = l[m - x].digest /\ c[i].previous = c[m - x].digest
        BY <3>5, <1>3, <1>4 DEF Chain!Follows
      <3>8. Chain!IsEntry(l[m - x]) /\ Chain!IsEntry(c[m - x])
        BY <3>5, <1>2 DEF m
      <3> QED BY <3>3, <3>6, <3>7, <3>8, DigestIsInjective
    <2> SUFFICES ASSUME NEW i \in 1..m PROVE l[i] = c[i]
      OBVIOUS
    <2>2. m - i \in 0..(m - 1) /\ m - (m - i) = i
      BY <1>1
    <2> QED BY <2>1, <2>2
  <1>10. l \in Seq(S \cup built) /\ c \in Seq(S \cup built)
    BY <1>2
  <1> QED BY <1>8, <1>9, <1>10, PrefixOf DEF m, c

\* What is left of an entry when its event is changed and it still verifies is
\* an entry.
LEMMA AcceptedEntry ==
  ASSUME NEW e, NEW q \in Nat, NEW p, NEW ev \in Events, NEW st, NEW cp, NEW d,
         e = [sequence |-> q, previous |-> p, event |-> ev, stream |-> st,
              checkpoint |-> cp, digest |-> d],
         EventStream[e.event] = e.stream, Chain!EntryDigest(e) = e.digest
  PROVE  Chain!IsEntry(e)
  <1>1. /\ e.sequence = q /\ e.previous = p /\ e.event = ev /\ e.stream = st
        /\ e.checkpoint = cp /\ e.digest = d
    OBVIOUS
  <1> QED BY <1>1 DEF Chain!IsEntry

\* An entry with another event.
LEMMA ChangedEvent ==
  ASSUME NEW e, Chain!IsEntry(e), NEW ev
  PROVE  [e EXCEPT !.event = ev] =
           [sequence |-> e.sequence, previous |-> e.previous, event |-> ev,
            stream |-> e.stream, checkpoint |-> e.checkpoint, digest |-> e.digest]
  BY DEF Chain!IsEntry

\* An entry with another event and another digest.
LEMMA ChangedEventAndDigest ==
  ASSUME NEW e, Chain!IsEntry(e), NEW ev, NEW d
  PROVE  [e EXCEPT !.event = ev, !.digest = d] =
           [sequence |-> e.sequence, previous |-> e.previous, event |-> ev,
            stream |-> e.stream, checkpoint |-> e.checkpoint, digest |-> d]
  <1> DEFINE a == [e EXCEPT !.event = ev]
  <1>1. a = [sequence |-> e.sequence, previous |-> e.previous, event |-> ev,
             stream |-> e.stream, checkpoint |-> e.checkpoint, digest |-> e.digest]
    BY ChangedEvent
  <1>2. [e EXCEPT !.event = ev, !.digest = d] = [a EXCEPT !.digest = d]
    OBVIOUS
  <1> HIDE DEF a
  <1>3. [a EXCEPT !.digest = d] =
           [sequence |-> e.sequence, previous |-> e.previous, event |-> ev,
            stream |-> e.stream, checkpoint |-> e.checkpoint, digest |-> d]
    BY <1>1
  <1> QED BY <1>2, <1>3, Zenon

\* The stored rows of a stream.
LEMMA StoredRows ==
  ASSUME Chain!IndInv, NEW t \in Streams
  PROVE  /\ chain[t] \in Seq(built) /\ Len(chain[t]) \in Nat /\ DOMAIN chain[t] = 1..Len(chain[t])
         /\ \A j \in 1..Len(chain[t]) : Chain!IsEntry(chain[t][j])
  BY DEF Chain!IndInv, Chain!EntriesAreWhole

\* A sequence with one element exchanged.
LEMMA Exchanged ==
  ASSUME NEW S, NEW c \in Seq(S), NEW i \in 1..Len(c), NEW f, NEW l, l = [c EXCEPT ![i] = f]
  PROVE  /\ l \in Seq(S \cup {f}) /\ Len(l) = Len(c) /\ DOMAIN l = 1..Len(c) /\ l[i] = f
         /\ \A j \in 1..Len(c) : j # i => l[j] = c[j]
  <1> DEFINE n == Len(c)
  <1>1. n \in Nat /\ DOMAIN c = 1..n /\ \A j \in 1..n : c[j] \in S
    OBVIOUS
  <1>2. l = [j \in 1..n |-> IF j = i THEN f ELSE c[j]]
    BY <1>1
  <1> HIDE DEF n
  <1>3. l \in [1..n -> S \cup {f}]
    BY <1>1, <1>2
  <1>4. l \in Seq(S \cup {f}) /\ Len(l) = n
    BY <1>1, <1>3
  <1> QED BY <1>1, <1>2, <1>4 DEF n

\* A stored stream with one entry changed, which verifies, is a list of entries.
LEMMA ForgedList ==
  ASSUME Chain!ConstantsAssumed, Chain!IndInv, NEW t \in Streams, NEW s \in Streams,
         NEW i \in 1..Len(chain[t]), NEW ev \in Events, NEW d, NEW f, NEW l,
         f = [sequence |-> chain[t][i].sequence, previous |-> chain[t][i].previous, event |-> ev,
              stream |-> chain[t][i].stream, checkpoint |-> chain[t][i].checkpoint, digest |-> d],
         l = [chain[t] EXCEPT ![i] = f],
         Chain!VerifyAuditChain(l, s, Chain!NoCheckpoint)
  PROVE  \E S : l \in Seq(S) /\ \A j \in 1..Len(l) : Chain!IsEntry(l[j])
  <1> DEFINE c == chain[t]
  <1>1. c \in Seq(built) /\ \A j \in 1..Len(c) : Chain!IsEntry(c[j])
    BY StoredRows
  <1>2. /\ l \in Seq(built \cup {f}) /\ Len(l) = Len(c) /\ DOMAIN l = 1..Len(c) /\ l[i] = f
        /\ \A j \in 1..Len(c) : j # i => l[j] = c[j]
    BY <1>1, Exchanged
  <1>3. EventStream[f.event] = f.stream /\ Chain!EntryDigest(f) = f.digest
    BY <1>2 DEF Chain!VerifyAuditChain
  <1>4. c[i].sequence \in Nat
    BY <1>1 DEF Chain!IsEntry
  <1>5. Chain!IsEntry(f)
    BY <1>3, <1>4, AcceptedEntry
  <1> QED BY <1>1, <1>2, <1>5

LEMMA AcceptedArePrefixes == ASSUME Chain!ConstantsAssumed,
Chain!IndInv PROVE Chain!AcceptedIsPrefix
  <1> SUFFICES ASSUME NEW s \in Streams, NEW l \in Chain!Presented, l # <<>>,
                      Chain!Last(l).digest \in Chain!Heads(s), Chain!VerifyAuditChain(l, s,
                      Chain!NoCheckpoint)
               PROVE  Chain!IsPrefix(l, chain[s])
    BY DEF Chain!AcceptedIsPrefix
  <1>1. CASE l \in Chain!SeqOf(built, 3)
    <2>1. l \in Seq(built)
      <3>1. PICK n \in 0..3 : l \in [1..n -> built]
        BY <1>1 DEF Chain!SeqOf
      <3> QED BY <3>1
    <2>2. \A i \in 1..Len(l) : Chain!IsEntry(l[i])
      BY <2>1 DEF Chain!IndInv, Chain!EntriesAreWhole
    <2> QED BY <2>1, <2>2, AcceptedList
  <1>2. ASSUME NEW t \in Streams, l \in Chain!Forged(chain[t])
        PROVE  Chain!IsPrefix(l, chain[s])
    <2> DEFINE c == chain[t]
               A(i) == {[c EXCEPT ![i].event = ev] : ev \in Events}
               B(i) == {[c EXCEPT ![i].event = ev,
                                  ![i].digest = Chain!EntryDigest([c[i] EXCEPT !.event = ev])]
                          : ev \in Events}
    <2>1. l \in UNION {A(i) \cup B(i) : i \in DOMAIN c}
      BY <1>2, Zenon DEF Chain!Forged
    <2> HIDE DEF A, B, c
    <2>2. PICK i \in DOMAIN c : l \in A(i) \/ l \in B(i)
      BY <2>1
    <2>3. c \in Seq(built) /\ DOMAIN c = 1..Len(c) /\ i \in 1..Len(c) /\ Chain!IsEntry(c[i])
      BY <2>2, StoredRows DEF c
    <2> DEFINE e == c[i]
               f(ev, d) == [sequence |-> e.sequence, previous |-> e.previous, event |-> ev,
                            stream |-> e.stream, checkpoint |-> e.checkpoint, digest |-> d]
    <2>5. \E ev \in Events : \E d : l = [c EXCEPT ![i] = f(ev, d)]
      <3>1. CASE l \in A(i)
        <4>1. PICK ev \in Events : l = [c EXCEPT ![i].event = ev]
          BY <3>1 DEF A
        <4> DEFINE g == [e EXCEPT !.event = ev]
        <4>2. l = [c EXCEPT ![i] = g]
          BY <4>1
        <4>3. g = f(ev, e.digest)
          BY <2>3, ChangedEvent
        <4> HIDE DEF g
        <4> QED BY <4>2, <4>3, Zenon
      <3>2. CASE l \in B(i)
        <4>1. PICK ev \in Events :
                l = [c EXCEPT ![i].event = ev,
                              ![i].digest = Chain!EntryDigest([c[i] EXCEPT !.event = ev])]
          BY <3>2 DEF B
        <4> DEFINE d == Chain!EntryDigest([c[i] EXCEPT !.event = ev])
        <4>2. l = [c EXCEPT ![i].event = ev, ![i].digest = d]
          BY <4>1
        <4> HIDE DEF d
        <4> DEFINE g == [e EXCEPT !.event = ev, !.digest = d]
        <4>3. l = [c EXCEPT ![i] = g]
          BY <4>2, <2>3
        <4>4. g = f(ev, d)
          BY <2>3, ChangedEventAndDigest, Zenon
        <4> HIDE DEF g
        <4> QED BY <4>3, <4>4, Zenon
      <3> QED BY <2>2, <3>1, <3>2
    <2>0. PICK ev \in Events : \E d : l = [c EXCEPT ![i] = f(ev, d)]
      BY <2>5
    <2>6. PICK d : l = [c EXCEPT ![i] = f(ev, d)]
      BY <2>0
    <2>7. \E S : l \in Seq(S) /\ \A j \in 1..Len(l) : Chain!IsEntry(l[j])
      BY <2>3, <2>6, ForgedList DEF c
    <2> QED BY <2>7, AcceptedList
  <1> QED BY <1>1, <1>2 DEF Chain!Presented

\* The stored streams verify, and what verifies up to a head of a stream is a
\* prefix of it (appendAuditChainEntry, verifyAuditChain).
THEOREM ChainSound == Chain!Spec => []ChainIsSound
  <1>1. Chain!IndInv => ChainIsSound
    BY ChainTyped, StoredVerifies, AcceptedArePrefixes, ChainConstants
    DEF ChainIsSound, Chain!ChainIsSound
  <1> QED BY <1>1, ChainInvariantHolds, PTL

\* The same for every list of built entries, of any length: verifyAuditChain
\* accepts one that ends at a digest of the stream only if it is a prefix.
THEOREM AnyAcceptedListIsPrefix ==
  Chain!Spec => [](\A s \in Streams, l \in Seq(built) :
                      (l # <<>> /\ Chain!Last(l).digest \in Chain!Heads(s)
                         /\ Chain!VerifyAuditChain(l, s, Chain!NoCheckpoint))
                      => Chain!IsPrefix(l, chain[s]))
  <1>1. ASSUME Chain!IndInv, NEW s \in Streams, NEW l \in Seq(built), l # <<>>,
               Chain!Last(l).digest \in Chain!Heads(s),
               Chain!VerifyAuditChain(l, s, Chain!NoCheckpoint)
        PROVE  Chain!IsPrefix(l, chain[s])
    <2>1. \A i \in 1..Len(l) : Chain!IsEntry(l[i])
      BY <1>1 DEF Chain!IndInv, Chain!EntriesAreWhole
    <2> QED BY <1>1, <2>1, AcceptedList, ChainConstants
  <1>2. Chain!IndInv => \A s \in Streams, l \in Seq(built) :
                          (l # <<>> /\ Chain!Last(l).digest \in Chain!Heads(s)
                             /\ Chain!VerifyAuditChain(l, s, Chain!NoCheckpoint))
                          => Chain!IsPrefix(l, chain[s])
    BY <1>1
  <1> QED BY <1>2, ChainInvariantHolds, PTL
=============================================================================
