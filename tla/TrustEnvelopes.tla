---------------------------- MODULE TrustEnvelopes ----------------------------
(***************************************************************************)
(* Signed evidence: packages/trust builds an envelope around an artifact,  *)
(* stores it (migration 0017 makes it immutable), and verifies a document  *)
(* somebody presents against the stored keys, prior envelopes and          *)
(* provenance manifests.  apps/dashboard's trust API answers for a session *)
(* of one tenant.                                                          *)
(*                                                                         *)
(* Cryptography is ideal: a digest is the material it covers and a         *)
(* signature is the pair of a key and the bytes it signed, so two differ   *)
(* exactly when what they cover differs, and nobody forges a signature.    *)
(***************************************************************************)
EXTENDS Integers, FiniteSets

CONSTANTS
    Tenants, Cards, Artifacts, Payloads, Versions,
    Keys,               \* signing keys
    KeyTenant,          \* [Keys -> Tenants]
    Lifetimes,          \* lifetimes an envelope may be given
    MaxTime, MaxEnvelopes,
    None                \* no prior envelope, no manifest, no card

Never == MaxTime + 1
Domains == {"settings.snapshot", "provenance.manifest", "telephony.safety"}
Statuses == {"active", "superseded", "revoked"}
Algorithms == {"Ed25519", "ECDSA-P256-SHA256", "MD5"}

\* The purpose a key must have to sign in a domain.
KeyPurposeForDomain(domain) ==
    CASE domain = "settings.snapshot" -> "settings_signing"
      [] domain = "provenance.manifest" -> "provenance_signing"
      [] OTHER -> "tenant_artifact_signing"

\* The policy approves one signature algorithm for envelopes: the other
\* approved one is for another context, and the last is disabled.
EnforceAlgorithmPolicy(algorithm) == algorithm = "Ed25519"

VARIABLES
    now,
    keys,        \* [Keys -> the stored status and the time it began to retire]
    envelopes,   \* the stored envelopes
    manifests    \* the stored provenance manifests

vars == <<now, keys, envelopes, manifests>>

KeyPurpose == "settings_signing"
Signer(k) == <<"identity of", k>>

-------------------------------------------------------------------------------
(* Digests, identifiers and signatures: each names what it covers. *)

CreateDomainDigest(d) ==
    [artifact |-> d.artifact, version |-> d.version, card |-> d.card,
     domain |-> d.domain, payload |-> d.payload, tenant |-> d.tenant]

\* MUTANT: the envelope's status is left out of the signed bytes.
WithoutSignatureAndStatus(d) == [f \in DOMAIN d \ {"signature", "status", "id"} |-> d[f]]

WithoutSignature(d) == [f \in DOMAIN d \ {"signature"} |-> d[f]]

ComputeEnvelopeId(d) == [f \in DOMAIN d \ {"signature", "id"} |-> d[f]]

Signature(k, d) == [key |-> k, bytes |-> WithoutSignature(d)]

\* A document with its digest and its identifier computed, and no signature.
Identified(d) ==
    LET digested == [d EXCEPT !.digest = CreateDomainDigest(d)]
    IN  [digested EXCEPT !.id = ComputeEnvelopeId(digested)]

-------------------------------------------------------------------------------
(* Provenance manifests: one covers an artifact version and its digest, and is
   verified by building it again. *)

ManifestId(m) == [f \in DOMAIN m \ {"id"} |-> m[f]]

CreateProvenanceManifest(tenant, artifact, version, digest) ==
    LET base == [tenant |-> tenant, artifact |-> artifact, version |-> version,
                 digest |-> digest, id |-> None]
    IN  [base EXCEPT !.id = ManifestId(base)]

VerifyProvenanceManifest(m) == m.id = ManifestId(m)

-------------------------------------------------------------------------------
(* Verification, against what is stored now *)

\* The structure check: versions, required fields, complete prior linkage,
\* and no sensitive metadata.
ValidateCryptographicEnvelope(d) ==
    /\ d.envelopeVersion = 1
    /\ (d.prev = None) = (d.prevDigest = None)
    /\ d.metadata # "sensitive"

\* What the caller requires of the document.  No field: no requirement.
MeetsExpectations(d, expected) ==
    \A f \in DOMAIN expected : d[f] = expected[f]

\* MUTANT: an envelope is only good after it expired.
ExpiredOnly(d) == d.expiresAt # Never => now >= d.expiresAt

NotExpired(d) == d.expiresAt # Never => now < d.expiresAt

\* The stored key may verify a signature of this time: it is active, or it is
\* retiring and the signature is not later than the start of its retirement.
EnforceKeyForVerification(k, d) ==
    /\ KeyTenant[k] = d.tenant
    /\ KeyPurpose = d.purpose
    /\ keys[k].status \in {"active", "retiring"}
    /\ d.signedAt <= keys[k].cutoff

SignatureValid(d) ==
    \E k \in Keys :
        /\ k = d.key /\ Signer(k) = d.signer
        /\ EnforceKeyForVerification(k, d)
        /\ d.signature = Signature(k, d)

PriorLinked(d) ==
    d.prev # None =>
        \E e \in envelopes :
            /\ e.id = d.prev /\ e.digest = d.prevDigest
            /\ e.tenant = d.tenant /\ e.artifact = d.artifact

ProvenanceLinked(d) ==
    d.manifest # None =>
        \E m \in manifests :
            /\ m.id = d.manifest /\ VerifyProvenanceManifest(m)
            /\ m.tenant = d.tenant /\ m.artifact = d.artifact
            /\ m.version = d.version /\ m.digest = d.digest

VerifyCryptographicEnvelope(d, expected) ==
    /\ ValidateCryptographicEnvelope(d)
    /\ EnforceAlgorithmPolicy(d.algorithm)
    /\ d.purpose = KeyPurposeForDomain(d.domain)
    /\ MeetsExpectations(d, expected)
    /\ NotExpired(d)
    /\ d.digest = CreateDomainDigest(d)
    /\ d.id = ComputeEnvelopeId(d)
    /\ SignatureValid(d)
    /\ PriorLinked(d)
    /\ ProvenanceLinked(d)

-------------------------------------------------------------------------------
(* The API: a session of one tenant asks about a document *)

Sessions ==
    [tenant : Tenants, privileged : BOOLEAN, cards : SUBSET Cards,
     permitted : BOOLEAN]

\* The scope in the request: a tenant, and a card or none.
Scopes == [tenant : Tenants, card : Cards \cup {None}]

AuthorizeTrustOperation(session, scope) ==
    /\ session.tenant = scope.tenant
    /\ session.privileged \/ scope.card \in session.cards
    /\ session.permitted

\* The scope overrides whatever the request's own expectations say.
Expected(scope, body) ==
    LET fields == {"tenant"} \cup (IF scope.card = None THEN {} ELSE {"card"})
    IN  [f \in fields \cup DOMAIN body |-> IF f \in fields THEN scope[f] ELSE body[f]]

\* handleTrustRequest for artifact-verification says "valid".
AnswersValid(session, scope, body, d) ==
    /\ AuthorizeTrustOperation(session, scope)
    /\ VerifyCryptographicEnvelope(d, Expected(scope, body))

-------------------------------------------------------------------------------
(* State and actions *)

Init ==
    /\ now = 0
    /\ keys = [k \in Keys |-> [status |-> "active", cutoff |-> Never]]
    /\ envelopes = {}
    /\ manifests = {}

Tick ==
    /\ now < MaxTime
    /\ now' = now + 1
    /\ UNCHANGED <<keys, envelopes, manifests>>

KeyTransitions ==
    {<<"active", "retiring">>, <<"retiring", "retired">>,
     <<"active", "revoked">>, <<"retiring", "revoked">>, <<"retired", "revoked">>}

\* The lifecycle of a stored key (module TrustKeys has it in full).
ChangeKey(k, to) ==
    /\ <<keys[k].status, to>> \in KeyTransitions
    /\ keys' = [keys EXCEPT ![k] =
                   [status |-> to, cutoff |-> IF to = "retiring" THEN now ELSE @.cutoff]]
    /\ UNCHANGED <<now, envelopes, manifests>>

\* buildCryptographicEnvelope, and the row it becomes.  The caller names the
\* instant of the signature and the digest of the prior envelope, and holds the
\* key, which was active when it was read and may have ended since.  The tables
\* accept any prior envelope and any manifest of the same tenant.
Build(k, card, artifact, version, payload, signedAt, lifetime, prev, prevDigest, manifest, status, metadata) ==
    LET expires == IF lifetime = Never THEN Never ELSE signedAt + lifetime
        unsigned ==
            [tenant |-> KeyTenant[k], card |-> card, artifact |-> artifact,
             version |-> version, domain |-> "settings.snapshot", payload |-> payload,
             digest |-> None, key |-> k, purpose |-> KeyPurpose, signer |-> Signer(k),
             signedAt |-> signedAt, expiresAt |-> expires, prev |-> prev,
             prevDigest |-> prevDigest,
             manifest |-> manifest, status |-> status, metadata |-> metadata,
             algorithm |-> "Ed25519", envelopeVersion |-> 1,
             id |-> None, signature |-> None]
        built == [Identified(unsigned) EXCEPT !.signature = Signature(k, Identified(unsigned))]
    IN  /\ Cardinality(envelopes) < MaxEnvelopes
        /\ metadata # "sensitive" /\ (prev = None) = (prevDigest = None)
        /\ prev # None => \E e \in envelopes : e.id = prev /\ e.tenant = KeyTenant[k]
        /\ manifest # None => \E m \in manifests : m.id = manifest /\ m.tenant = KeyTenant[k]
        /\ lifetime # Never => lifetime > 0 /\ signedAt + lifetime <= MaxTime
        /\ envelopes' = envelopes \cup {built}
        /\ UNCHANGED <<now, keys, manifests>>

\* A provenance manifest of something already sealed is stored.
RecordManifest(e) ==
    /\ Cardinality(manifests) < 1
    /\ manifests' = manifests \cup
           {CreateProvenanceManifest(e.tenant, e.artifact, e.version, e.digest)}
    /\ UNCHANGED <<now, keys, envelopes>>

Next ==
    \/ Tick
    \/ \E k \in Keys, to \in {"retiring", "retired", "active", "revoked"} : ChangeKey(k, to)
    \/ \E k \in Keys, card \in Cards, artifact \in Artifacts, version \in Versions,
          payload \in Payloads, signedAt \in 0..MaxTime, lifetime \in Lifetimes \cup {Never},
          prev \in {e.id : e \in envelopes} \cup {None},
          prevDigest \in {e.digest : e \in envelopes} \cup {None},
          manifest \in {m.id : m \in manifests} \cup {None},
          status \in {"active"}, metadata \in {"plain", "sensitive"} :
          Build(k, card, artifact, version, payload, signedAt, lifetime, prev, prevDigest,
                manifest, status, metadata)
    \/ \E e \in envelopes : RecordManifest(e)

Spec == Init /\ [][Next]_vars

-------------------------------------------------------------------------------
(* Documents somebody may present: a stored envelope, or one with a field
   changed, with the digest and the identifier left alone or computed again. *)

Altered(e) ==
         {[e EXCEPT !.tenant = v] : v \in Tenants}
    \cup {[e EXCEPT !.card = v] : v \in Cards}
    \cup {[e EXCEPT !.artifact = v] : v \in Artifacts}
    \cup {[e EXCEPT !.version = v + 1] : v \in Versions}
    \cup {[e EXCEPT !.payload = v] : v \in Payloads}
    \cup {[e EXCEPT !.key = v] : v \in Keys}
    \cup {[e EXCEPT !.key = v, !.signer = Signer(v)] : v \in Keys}
    \cup {[e EXCEPT !.status = v] : v \in Statuses}
    \cup {[e EXCEPT !.signedAt = v] : v \in 0..MaxTime}
    \cup {[e EXCEPT !.expiresAt = v] : v \in 0..Never}
    \cup {[e EXCEPT !.prev = None, !.prevDigest = None]}
    \cup {[e EXCEPT !.manifest = None]}
    \cup {[e EXCEPT !.domain = v, !.purpose = KeyPurposeForDomain(v)] : v \in Domains}
    \cup {[e EXCEPT !.algorithm = v] : v \in Algorithms}

Presented == UNION {UNION {{d, Identified(d)} : d \in Altered(e)} : e \in envelopes}

-------------------------------------------------------------------------------
(* Properties *)

\* The store and the stored keys have their shape: every stored envelope is
\* sealed over its own content (buildCryptographicEnvelope).
TypeOK ==
    /\ now \in 0..MaxTime
    /\ \A k \in Keys : /\ keys[k].status \in {"active", "retiring", "retired", "revoked"}
                       /\ keys[k].cutoff \in 0..Never
    /\ \A e \in envelopes : /\ e.digest = CreateDomainDigest(e)
                            /\ e.id = ComputeEnvelopeId(e)
                            /\ e.signature = Signature(e.key, e)
    /\ \A m \in manifests : VerifyProvenanceManifest(m)

\* Nothing but what was built verifies: a document that differs from every
\* stored envelope in any field - owner, artifact, content, time, status,
\* linkage, key - is rejected even with its digest and identifier recomputed
\* (verifyCryptographicEnvelope).
OnlyBuiltVerifies ==
    \A d \in Presented :
        VerifyCryptographicEnvelope(d, [tenant |-> d.tenant]) => d \in envelopes

\* What a session is told is valid is of its own tenant and, unless it is an
\* owner or administrator, of a card it may see, whatever expectations the
\* request itself carries (handleTrustRequest, authorizeTrustOperation).
AnsweredWithinScope ==
    \A d \in envelopes : \A session \in Sessions, scope \in Scopes,
       body \in {<<>>, [card |-> d.card], [tenant |-> d.tenant, card |-> d.card]} :
        AnswersValid(session, scope, body, d) =>
            /\ d.tenant = session.tenant
            /\ session.privileged \/ d.card \in session.cards

\* A document accepted as a correction, or with provenance, rests on stored
\* evidence about the same artifact, with the content it had when it was named
\* (the linkage checks of verifyCryptographicEnvelope).
AcceptedRestsOnEvidence ==
    \A d \in envelopes :
        VerifyCryptographicEnvelope(d, <<>>) =>
            /\ d.prev # None =>
                 \E e \in envelopes : /\ e.id = d.prev /\ e.artifact = d.artifact
                                      /\ e.tenant = d.tenant /\ d.prevDigest = CreateDomainDigest(e)
            /\ d.manifest # None =>
                 \E m \in manifests, e \in envelopes :
                     /\ m.id = d.manifest /\ m.digest = CreateDomainDigest(d)
                     /\ e.digest = m.digest

\* A stored envelope that fails verification never verifies again: time passes,
\* keys retire or are revoked, evidence is only added, and none of it turns a
\* rejection into an acceptance.
VerdictNeverImproves ==
    [][\A e \in envelopes :
          VerifyCryptographicEnvelope(e, <<>>)' => VerifyCryptographicEnvelope(e, <<>>)]_vars

\* What verifies was built, is told only within the session's scope, and rests on
\* stored evidence (verifyCryptographicEnvelope, handleTrustRequest).
EnvelopesAreSound ==
    TypeOK /\ OnlyBuiltVerifies /\ AnsweredWithinScope /\ AcceptedRestsOnEvidence

-------------------------------------------------------------------------------
(* The inductive invariant: an identifier and a signature have one preimage, and
   what an envelope links to was stored before it. *)

\* What the proofs assume of the constants.
ConstantsAssumed == MaxTime \in Nat /\ Lifetimes \subseteq Nat /\ None \notin Cards

EnvelopeFields ==
    {"tenant", "card", "artifact", "version", "domain", "payload", "digest", "key", "purpose",
     "signer", "signedAt", "expiresAt", "prev", "prevDigest", "manifest", "status", "metadata",
     "algorithm", "envelopeVersion", "id", "signature"}

ManifestFields == {"tenant", "artifact", "version", "digest", "id"}

\* A stored envelope, sealed over its own content.
IsEnvelope(e) ==
    /\ e = [f \in EnvelopeFields |-> e[f]]
    /\ e.digest = CreateDomainDigest(e)
    /\ e.id = ComputeEnvelopeId(e)
    /\ e.signature = Signature(e.key, e)
    /\ e.signedAt \in 0..MaxTime /\ e.expiresAt \in Nat

IsManifest(m) == m = [f \in ManifestFields |-> m[f]] /\ VerifyProvenanceManifest(m)

\* A key that is still active has no cutoff.
KeysHaveTheirCutoff ==
    /\ keys \in [Keys -> [status : {"active", "retiring", "retired", "revoked"}, cutoff : 0..Never]]
    /\ \A k \in Keys : keys[k].status = "active" => keys[k].cutoff = Never

\* What a stored envelope names was stored before it.
LinkedToTheStored(d) ==
    /\ d.prev # None => \E e \in envelopes : e.id = d.prev
    /\ d.manifest # None => \E m \in manifests : m.id = d.manifest

IndInv ==
    /\ now \in 0..MaxTime
    /\ KeysHaveTheirCutoff
    /\ \A e \in envelopes : IsEnvelope(e) /\ LinkedToTheStored(e)
    /\ \A m \in manifests : IsManifest(m)
===============================================================================
