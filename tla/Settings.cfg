SPECIFICATION SpecOfPart
CONSTANTS
    Parts = {"plain", "evidence", "mixed", "colliding", "saves", "cache", "colons",
             "trail", "brand", "readings", "claims"}
    c1 = c1  t1 = t1  t2 = t2  p1 = p1  p2 = p2  good = good  bad = bad
    k1 = k1  k2 = k2  w1 = w1  w2 = w2  None = None
    NoVersion = NoVersion  NoRow = NoRow  NoOne = NoOne
    NoRequest = NoRequest  NoEntry = NoEntry
    Cards = {c1}
    Owner <- MCOwner
    Publishers = {p1, p2}
    Tenants = {t1, t2}
    Snapshots = {good, bad}
    ValidSnapshots = {good}
    Times <- MCTimes
    Keys = {k1, k2}
    VersionIds <- MCVersionIds
    VersionId <- ShortId
    EventId <- SeparateEventId
    Signing = {TRUE, FALSE}
    EvidenceRequired = TRUE
    MaxChainEntries = 1
INVARIANTS TypeOK AlwaysOneCurrent LinearHistory AuditMatchesVersions EvidenceAgrees StoreIsSound CardSettingsAreSound
PROPERTIES VersionsAreImmutable ImplementsHistory
SYMMETRY Symmetry
CHECK_DEADLOCK FALSE
