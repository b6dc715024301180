SPECIFICATION SpecOfPart
CONSTANTS
    k1 = k1  k2 = k2  k3 = k3  x1 = x1  x2 = x2
    o1 = o1  o2 = o2  s1 = s1
    t1 = t1  t2 = t2  c1 = c1  c2 = c2  a1 = a1  a2 = a2  p1 = p1  p2 = p2  None = None
    w1 = w1  w2 = w2  st1 = st1  st2 = st2
    e1 = e1  e2 = e2  e3 = e3  e4 = e4
    id1 = id1  id2 = id2  id3 = id3  NoDigest = NoDigest
    b1 = b1  b2 = b2
    Keys = {k1, k2, k3}
    Operators = {o1, o2}
    Signers = {s1}
    Lifetimes = {2}
    MaxTime = 3
    MaxSignatures = 1
    Tenants = {t1, t2}
    Cards = {c1, c2}
    Artifacts = {a1, a2}
    Payloads = {p1, p2}
    Versions = {1}
    EnvelopeKeys = {x1, x2}
    KeyTenant <- MCKeyTenant
    EnvelopeLifetimes = {1}
    EnvelopeTime = 1
    MaxEnvelopes = 2
    Writers = {w1, w2}
    Streams = {st1, st2}
    Events = {e1, e2, e3, e4}
    EventStream <- MCEventStream
    IdempotencyKey <- MCIdempotencyKey
    MaxEntries = 3
INVARIANTS KeysAreSound EnvelopesAreSound ChainIsSound BatchesAreSound
PROPERTY VerdictNeverImproves
SYMMETRY Symmetry
CHECK_DEADLOCK FALSE
