------------------------------ MODULE TrustKeys ------------------------------
(***************************************************************************)
(* The signing keys of one tenant, purpose and scope.  Operators activate, *)
(* retire, rotate, revoke and compromise keys in database transactions     *)
(* that begin at one time and commit at a later one; signers hold a copy   *)
(* of a key and sign with it whenever they like; verifiers read the key    *)
(* when they verify.                                                       *)
(***************************************************************************)
EXTENDS Integers, FiniteSets

CONSTANTS
    Keys, Operators, Signers,
    Lifetimes,            \* how long a first key may be valid, if not for ever
    MaxTime,              \* bound: the clock
    MaxSignatures         \* bound: signatures made

ASSUME KeysAssumption == "none" \notin Keys /\ MaxTime \in Nat

VARIABLES
    keys,                 \* trust_keys
    evidence,             \* trust_key_revocations
    bare,                 \* ends of keys that no revocation request recorded
    work,                 \* operator -> the transaction it prepared
    copy,                 \* signer -> the key record it holds
    signatures,           \* signatures made, with the status their key had
    lastActive,           \* key -> clock when it was last active
    clock

vars == <<keys, evidence, bare, work, copy, signatures, lastActive, clock>>

Never == MaxTime + 1      \* a timestamp column that is null
Time == 0..MaxTime
NoKey == [status |-> "none"]
Idle == [kind |-> "idle"]

Statuses == {"pending", "active", "retiring", "retired", "revoked", "compromised"}

Row ==
    [status : Statuses, version : Nat, from : Time, until : Time \cup {Never},
     changedAt : Time, revokedAt : Time \cup {Never},
     compromisedAt : Time \cup {Never}, replaces : Keys \cup {"none"}]

Transitions ==
    [s \in Statuses |->
        CASE s = "pending"     -> {"active", "revoked", "compromised"}
          [] s = "active"      -> {"retiring", "revoked", "compromised"}
          [] s = "retiring"    -> {"retired", "revoked", "compromised"}
          [] s = "retired"     -> {"revoked", "compromised"}
          [] s = "revoked"     -> {"compromised"}
          [] s = "compromised" -> {}]

\* transitionTrustKey: retiring fixes the signing cutoff.
TransitionTrustKey(row, next, at) ==
    [row EXCEPT
        !.compromisedAt = IF next = "compromised" THEN at ELSE @,
        !.revokedAt     = IF next = "revoked" THEN at ELSE @,
        !.status        = next,
        !.changedAt     = at,
        !.until         = IF next = "retiring" THEN at ELSE @]

(***************************************************************************)
(* Signing and verifying.                                                  *)
(***************************************************************************)
\* enforceKeyForSigning, on the signer's copy.
CanSign(row, signedAt) ==
    /\ row.status = "active"
    /\ row.from <= signedAt
    /\ row.until = Never \/ signedAt <= row.until

Cutoff(row) ==
    IF row.until # Never THEN row.until
    ELSE IF row.status \in {"retiring", "retired"} THEN row.changedAt ELSE Never

\* enforceKeyForVerification, on the key as it is stored now.
CanVerify(row, sig, allowRetired) ==
    /\ row.status \notin {"pending", "revoked", "compromised"}
    /\ row.status = "retired" => allowRetired
    /\ row.version = sig.version
    /\ row.from <= sig.signedAt
    /\ Cutoff(row) = Never \/ sig.signedAt <= Cutoff(row)

(***************************************************************************)
(* What the database accepts.                                              *)
(***************************************************************************)
ActiveIndexIgnored(table) == TRUE

\* idx_trust_keys_active_scope: one active key.
ActiveIndexAllows(table) ==
    Cardinality({k \in Keys : table[k].status = "active"}) <= 1

\* enforce_trust_key_lifecycle_v1 and the CHECK constraints of the table.
LifecycleAllows(old, new) ==
    /\ new.status \in Transitions[old.status]
    /\ new.changedAt > old.changedAt
    /\ new.until # old.until => (new.status = "retiring" /\ new.until = new.changedAt)
    /\ new.until >= new.from
    /\ new.status \in {"retiring", "retired"} => new.until # Never

\* enforce_trust_key_registration_v1 and idx_trust_keys_replacement.
RegistrationAllows(table, new) ==
    new.replaces # "none" =>
        /\ table[new.replaces].status = "retiring"
        /\ new.status = "pending"
        /\ new.version = table[new.replaces].version + 1
        /\ \A k \in Keys : table[k] # NoKey => table[k].replaces # new.replaces

-----------------------------------------------------------------------------
Init ==
    /\ keys = [k \in Keys |-> NoKey]
    /\ evidence = {}
    /\ bare = {}
    /\ work = [o \in Operators |-> Idle]
    /\ copy = [s \in Signers |-> NoKey]
    /\ signatures = {}
    /\ lastActive = [k \in Keys |-> 0]
    /\ clock = 0

Pending(version, until, replaces, at) ==
    [status |-> "pending", version |-> version, from |-> at, until |-> until,
     changedAt |-> at, revokedAt |-> Never, compromisedAt |-> Never,
     replaces |-> replaces]

\* registerPendingTrustKey of a first key, and its insert.
Register(k) ==
    \E until \in {u \in Time : u - clock \in Lifetimes} \cup {Never} :
        /\ keys[k] = NoKey
        /\ \A o \in Operators : work[o] # Idle => work[o].successor # k
        /\ keys' = [keys EXCEPT ![k] = Pending(1, until, "none", clock)]
        /\ UNCHANGED <<evidence, bare, work, copy, signatures, lastActive, clock>>

\* An operator reads a key and prepares its activation, its retirement or, with
\* revokeTrustKey and compromiseTrustKey, its end, which needs no evidence.
PrepareTransition(o) ==
    \E k \in Keys : \E next \in Statuses :
        /\ work[o] = Idle /\ keys[k] # NoKey
        /\ next \in Transitions[keys[k].status]
        /\ work' = [work EXCEPT ![o] =
                [kind |-> "transition", key |-> k, seen |-> keys[k].status,
                 next |-> next, successor |-> "none", at |-> clock]]
        /\ UNCHANGED <<keys, evidence, bare, copy, signatures, lastActive, clock>>

\* rotateTrustKeyTransactional reads the active key that the replacement names;
\* the replacement was registered with its provider at some time before.
PrepareRotation(o) ==
    \E k, r \in Keys :
        /\ work[o] = Idle
        /\ keys[k] # NoKey /\ keys[k].status = "active" /\ keys[r] = NoKey
        /\ work' = [work EXCEPT ![o] =
                [kind |-> "rotation", key |-> k, seen |-> keys[k].status,
                 next |-> "retiring", successor |-> r, at |-> clock]]
        /\ UNCHANGED <<keys, evidence, bare, copy, signatures, lastActive, clock>>

\* POST revocations takes its time before the transaction begins.
PrepareRevocation(o) ==
    \E k \in Keys : \E type \in {"revoked", "compromised"} :
        /\ work[o] = Idle /\ keys[k] # NoKey
        /\ work' = [work EXCEPT ![o] =
                [kind |-> "revocation", key |-> k, seen |-> keys[k].status,
                 next |-> type, successor |-> "none", at |-> clock]]
        /\ UNCHANGED <<keys, evidence, bare, copy, signatures, lastActive, clock>>

\* The table after the operator's update of the key.
Updated(w) == [keys EXCEPT ![w.key] = TransitionTrustKey(@, w.next, w.at)]

\* The replacement, born before the rotation, then inserted and activated.
Successor(w) == Pending(keys[w.key].version + 1, Never, w.key, w.at - 1)

\* The tables a transaction leaves, or the ones it found when it fails.
Result(w) ==
    CASE w.kind = "rotation" ->
            [Updated(w) EXCEPT ![w.successor] =
                TransitionTrustKey(Successor(w), "active", w.at)]
      [] OTHER -> Updated(w)

\* The update names the status it expects (the revocation, any status but
\* compromised), and every trigger, check and index agrees.
Accepted(w) ==
    /\ w.kind # "revocation" => keys[w.key].status = w.seen
    /\ LifecycleAllows(keys[w.key], Updated(w)[w.key])
    /\ w.kind = "rotation" =>
        /\ w.at > 0 /\ keys[w.successor] = NoKey
        /\ RegistrationAllows(Updated(w), Successor(w))
    /\ ActiveIndexAllows(Result(w))

Ends == {"revoked", "compromised"}

\* One transaction: the key, and for a requested revocation its evidence.
Commit(o) ==
    LET w == work[o] IN
    /\ w # Idle /\ Accepted(w)
    /\ keys' = Result(w)
    /\ evidence' = IF w.kind = "revocation"
                   THEN evidence \cup {[key |-> w.key, type |-> w.next, at |-> w.at]}
                   ELSE evidence
    /\ bare' = IF w.kind = "transition" /\ w.next \in Ends
               THEN bare \cup {[key |-> w.key, type |-> w.next]} ELSE bare
    /\ lastActive' = [k \in Keys |->
            IF keys[k].status = "active" THEN clock ELSE lastActive[k]]
    /\ work' = [work EXCEPT ![o] = Idle]
    /\ UNCHANGED <<copy, signatures, clock>>

Rollback(o) ==
    /\ work[o] # Idle /\ ~Accepted(work[o])
    /\ work' = [work EXCEPT ![o] = Idle]
    /\ UNCHANGED <<keys, evidence, bare, copy, signatures, lastActive, clock>>

\* A signer is given a key record (getActive) and keeps it.
TakeKey(s) ==
    \E k \in Keys :
        /\ keys[k] # NoKey /\ keys[k].status = "active"
        /\ copy' = [copy EXCEPT ![s] = [key |-> k, row |-> keys[k]]]
        /\ UNCHANGED <<keys, evidence, bare, work, signatures, lastActive, clock>>

\* signBytes checks the copy for the instant its caller names, past or future,
\* and signs with that instant.
Sign(s) ==
    \E t \in Time :
        /\ copy[s] # NoKey /\ Cardinality(signatures) < MaxSignatures
        /\ CanSign(copy[s].row, t)
        /\ signatures' = signatures \cup
                {[key |-> copy[s].key, version |-> copy[s].row.version,
                  signedAt |-> t, keyWas |-> keys[copy[s].key].status]}
        /\ UNCHANGED <<keys, evidence, bare, work, copy, lastActive, clock>>

Tick ==
    /\ clock < MaxTime
    /\ clock' = clock + 1
    /\ UNCHANGED <<keys, evidence, bare, work, copy, signatures, lastActive>>

Next ==
    \/ \E k \in Keys : Register(k)
    \/ \E o \in Operators : \/ PrepareTransition(o) \/ PrepareRotation(o)
                            \/ PrepareRevocation(o) \/ Commit(o) \/ Rollback(o)
    \/ \E s \in Signers : TakeKey(s) \/ Sign(s)
    \/ Tick

Spec == Init /\ [][Next]_vars
-----------------------------------------------------------------------------
\* Keys, evidence and signatures have the shape of their tables, and the
\* columns of a key agree with its status.
TypeOK ==
    /\ keys \in [Keys -> Row \cup {NoKey}]
    /\ evidence \subseteq [key : Keys, type : Ends, at : Time]
    /\ bare \subseteq [key : Keys, type : Ends]
    /\ signatures \subseteq [key : Keys, version : Nat, signedAt : Time,
                        keyWas : Statuses]
    /\ \A k \in Keys : keys[k] # NoKey =>
        /\ (keys[k].status = "revoked") => keys[k].revokedAt # Never
        /\ keys[k].revokedAt # Never => keys[k].status \in Ends
        /\ (keys[k].status = "compromised") = (keys[k].compromisedAt # Never)

\* However activations and rotations race, a scope never has two active keys.
OneActiveKey == Cardinality({k \in Keys : keys[k].status = "active"}) <= 1

\* A key is replaced at most once, by its next version, and a key that was
\* replaced is never active again.
ReplacedOnce ==
    \A k, r \in Keys :
        (keys[k] # NoKey /\ keys[k].replaces = r) =>
            /\ keys[k].version = keys[r].version + 1
            /\ keys[r].status \notin {"pending", "active"}
            /\ \A j \in Keys : (keys[j] # NoKey /\ keys[j].replaces = r) => j = k

\* Evidence names the end its key had, for ever, and a revoked or compromised key
\* has evidence, unless its end was a transition without a revocation request.
EvidenceMatchesKeys ==
    /\ \A e \in evidence :
        /\ keys[e.key] # NoKey
        /\ e.at = IF e.type = "revoked" THEN keys[e.key].revokedAt ELSE keys[e.key].compromisedAt
    /\ \A k \in Keys : keys[k] # NoKey =>
        /\ keys[k].revokedAt # Never <=>
            \/ \E e \in evidence : e.key = k /\ e.type = "revoked" /\ e.at = keys[k].revokedAt
            \/ [key |-> k, type |-> "revoked"] \in bare
        /\ keys[k].compromisedAt # Never <=>
            \/ \E e \in evidence : e.key = k /\ e.type = "compromised" /\ e.at = keys[k].compromisedAt
            \/ [key |-> k, type |-> "compromised"] \in bare

\* A signature that verifies although its key is no longer active names an instant
\* at which the key still was.  (It may have been made later, with a copy of the
\* key that still said active: the instant is the one its signer gave.)
NoLateSignatureVerifies ==
    \A sig \in signatures, allowRetired \in BOOLEAN :
        CanVerify(keys[sig.key], sig, allowRetired) =>
            (keys[sig.key].status = "active" \/ sig.signedAt <= lastActive[sig.key])

\* The key store is sound: one active key, replaced at most once, its end on
\* record, and no signature that names an instant after its key stopped and verifies
\* (keys.ts, trust-api.ts).
KeysAreSound ==
    TypeOK /\ OneActiveKey /\ ReplacedOnce /\ EvidenceMatchesKeys /\ NoLateSignatureVerifies
-----------------------------------------------------------------------------
(***************************************************************************)
(* The inductive invariant.  Rows are never deleted, so what names a key   *)
(* names a row; and a key that stopped being active has a signing cutoff   *)
(* no later than the commit that stopped it, although the transaction took *)
(* its time before it began.                                               *)
(***************************************************************************)
Transaction ==
    {w \in [kind : {"transition", "rotation", "revocation"}, key : Keys, seen : Statuses,
            next : Statuses, successor : Keys \cup {"none"}, at : Time] :
        /\ w.kind = "rotation" => w.next = "retiring" /\ w.seen = "active" /\ w.successor \in Keys
        /\ w.kind = "revocation" => w.next \in {"revoked", "compromised"}}

HeldIsWhole ==
    /\ clock \in Time
    /\ work \in [Operators -> Transaction \cup {Idle}]
    /\ copy \in [Signers -> [key : Keys, row : Row] \cup {NoKey}]
    /\ lastActive \in [Keys -> Time]

KeysExist ==
    /\ \A o \in Operators : work[o] # Idle => keys[work[o].key] # NoKey /\ work[o].at <= clock
    /\ \A s \in Signers : copy[s] # NoKey => keys[copy[s].key] # NoKey
    /\ \A sig \in signatures : keys[sig.key] # NoKey
    /\ \A b \in bare : keys[b.key] # NoKey
    /\ \A k \in Keys :
        (keys[k] # NoKey /\ keys[k].replaces # "none") => keys[keys[k].replaces] # NoKey

CutoffIsPast ==
    \A k \in Keys :
        keys[k].status \in {"retiring", "retired"} =>
            keys[k].until # Never /\ keys[k].until <= lastActive[k]

IndInv ==
    /\ TypeOK /\ HeldIsWhole /\ KeysExist /\ CutoffIsPast
    /\ OneActiveKey /\ ReplacedOnce /\ EvidenceMatchesKeys
=============================================================================
