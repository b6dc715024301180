------------------------------ MODULE MCTrust ------------------------------
(* The trust layer and its Merkle batches for TLC. A behaviour exercises one  *)
(* part, the one that "part" names, and leaves the others as they began.      *)
EXTENDS Trust, TLC

CONSTANTS
    k1, k2, k3, x1, x2,                 \* keys, and keys of envelopes
    o1, o2, s1,                         \* operators, a signer
    t1, t2, c1, c2, a1, a2, p1, p2,     \* tenants, cards, artifacts, payloads
    w1, w2, st1, st2, e1, e2, e3, e4, id1, id2, id3,
    b1, b2                              \* Merkle batches

VARIABLES part, batches

MCKeyTenant == (x1 :> t1) @@ (x2 :> t2)

\* Two of the four events carry one idempotency key: one is a retry.
MCEventStream == (e1 :> st1) @@ (e2 :> st1) @@ (e3 :> st1) @@ (e4 :> st2)
MCIdempotencyKey == (e1 :> id1) @@ (e2 :> id1) @@ (e3 :> id2) @@ (e4 :> id3)

B == INSTANCE MerkleBatches WITH
       BatchIds <- {b1, b2}, Leaves <- 1..4, MaxLeaves <- 4

InitOfPart ==
    /\ part \in {"keys", "signers", "envelopes", "chain", "batches"}
    /\ Init /\ Envelopes!Init /\ Chain!Init /\ B!Init

\* Three keys for ever and two operators that rotate, revoke and retire them; one
\* end of a key is recorded and one is not.
TwoOperators ==
    /\ Next
    /\ UNCHANGED <<copy, signatures>>
    /\ clock' <= 2 /\ Cardinality(bare') <= 1 /\ Cardinality(evidence') <= 1
    /\ \A k \in Keys : (keys[k] = NoKey /\ keys'[k] # NoKey) => keys'[k].until = Never

\* Two keys with or without a lifetime, one operator at a time and a signer
\* that keeps a copy of one.  A signer cannot tell a recorded end from another.
OneSigner ==
    /\ Next
    /\ Cardinality({k \in Keys : keys'[k] # NoKey}) <= 2
    /\ Cardinality({o \in Operators : work'[o] # Idle}) <= 1
    /\ \A o \in Operators :
        work'[o] # Idle => ~(work'[o].kind = "transition" /\ work'[o].next \in Ends)

\* Cards, artifacts and payloads are interchangeable: the first envelope has the
\* first of each.  The key of one tenant ends, the other's stays.
EnvelopesOfTwo ==
    /\ Envelopes!Next
    /\ keyStatus'[x2].status = "active"
    /\ envelopes = {} => \A e \in envelopes' : e.card = c1 /\ e.artifact = a1 /\ e.payload = p1

NextOfPart ==
    /\ UNCHANGED part
    /\ \/ part = "keys" /\ TwoOperators /\ UNCHANGED <<envelopeVars, chainVars, batches>>
       \/ part = "signers" /\ OneSigner /\ UNCHANGED <<envelopeVars, chainVars, batches>>
       \/ part = "envelopes" /\ EnvelopesOfTwo /\ UNCHANGED <<vars, chainVars, batches>>
       \/ part = "chain" /\ Chain!Next /\ UNCHANGED <<vars, envelopeVars, batches>>
       \/ part = "batches" /\ B!Next /\ UNCHANGED <<vars, envelopeVars, chainVars>>

SpecOfPart == InitOfPart /\ [][NextOfPart]_<<part, vars, envelopeVars, chainVars, batches>>

\* Keys are interchangeable, and so are operators.
Symmetry == Permutations({k1, k2, k3}) \cup Permutations({o1, o2})

\* MerkleBatches: every leaf has its proof and no other proof passes.
BatchesAreSound == B!BatchesAreSound
=============================================================================
