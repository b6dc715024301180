SPECIFICATION SpecOfPart
CONSTANTS
    Parts = {"dispatch", "writers", "lifetimes", "commands"}
    c1 = c1  c2 = c2
    voice = voice  callback = callback  any = any
    r1 = r1  r2 = r2  s1 = s1  a1 = a1
    m1 = m1  k1 = k1  h1 = h1  h2 = h2
    Writers = {c1, c2}
    Communications = {m1}
    MaxVersion = 7
    MaxTime = 1
    Connections = {c1, c2}
    Channels = {voice}
    Purposes = {callback}
    Wildcard = any
    ReceiptIds = {r1, r2}
    SuppressionIds = {s1}
    AttemptIds = {a1}
    PolicyEnd = 2
    MaxClock = 1
    MaxTxns = 3
    Callers = {c1, c2}
    Keys = {k1}
    Hashes = {h1, h2}
    Tenants = {"t1"}
    UsedOperations = {"request_callback"}
    UsedChannels = {"voice"}
    MaxSubmits = 2
INVARIANTS RecordsAreSound LogIsSound
PROPERTIES DispatchIsPermitted ImplementsLifecycle ResultIsFinal
SYMMETRY Symmetry
CHECK_DEADLOCK FALSE
