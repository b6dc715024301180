-------------------------------- MODULE Trust --------------------------------
(***************************************************************************)
(* The trust layer: the signing keys, which are the module it extends, the *)
(* envelopes and their verification, and the hash-linked audit streams.    *)
(* The parts share the statuses of the keys, which TrustEnvelopes has in   *)
(* short as keyStatus; none of them writes the tables of another.          *)
(***************************************************************************)
EXTENDS TrustKeys

CONSTANTS
    Tenants, Cards, Artifacts, Payloads, Versions, EnvelopeKeys, KeyTenant,
    EnvelopeLifetimes, EnvelopeTime, MaxEnvelopes, None,                 \* envelopes
    Writers, Streams, Events, EventStream, IdempotencyKey, MaxEntries,
    NoDigest                                                             \* audit streams

VARIABLES
    now, keyStatus, envelopes, manifests,
    chain, draft, built

envelopeVars == <<now, keyStatus, envelopes, manifests>>
chainVars == <<chain, draft, built>>

Envelopes == INSTANCE TrustEnvelopes WITH
    Keys <- EnvelopeKeys, Lifetimes <- EnvelopeLifetimes, MaxTime <- EnvelopeTime,
    keys <- keyStatus

Chain == INSTANCE TrustAuditChain

\* What the proofs assume of the constants of envelopes and streams.
ASSUME EnvelopeConstants == Envelopes!ConstantsAssumed
ASSUME ChainConstants == Chain!ConstantsAssumed

\* TrustEnvelopes: only what was built verifies, within the session's scope.
EnvelopesAreSound == Envelopes!EnvelopesAreSound

\* TrustEnvelopes: no later event turns a rejected envelope into an accepted one.
VerdictNeverImproves == Envelopes!VerdictNeverImproves

\* TrustAuditChain: racing writers leave streams that verify, and only those do.
ChainIsSound == Chain!ChainIsSound
=============================================================================
