SPECIFICATION SpecOfPart
CONSTANTS
    Parts = {"webhooks", "operations", "requests", "commands",
             "gates", "readiness", "routing", "retries", "routes"}
    e1 = e1  e2 = e2  s1 = s1  s2 = s2  v1 = v1  d1 = d1  Forged = Forged
    t1 = t1  t2 = t2  c1 = c1  a1 = a1  n1 = n1  n2 = n2  k1 = k1  k2 = k2
    r1 = r1  r2 = r2  i1 = i1  h1 = h1  h2 = h2  p1 = p1  None = None
    EventIds = {e1, e2}
    Bodies <- SomeBodies
    Sessions = {v1}
    Tenants = {n1, n2}
    Payloads = {d1}
    Tolerance = 1
    MaxTime = 3
    MaxLives = 2
    MaxSigned = 2
    MaxAnswers = 3
    Tasks = {t1, t2}
    SessionIds = {s1, s2}
    CallbackIds = {c1}
    AppointmentIds = {a1}
    CommandKeys = {k1, k2}
    MaxVersion = 1
    MaxAccepted = 3
    OutboundRequests = {r1, r2}
    InboundCalls = {i1}
    Cards = {h1, h2}
    Environments <- SomeEnvironments
    ReadinessRoutes = {"readiness", "voice-runtime"}
    MaxRules = 2
    Visitors = {p1}
    Surfaces = {"form", "chat", "calendar", "callback"}
    Messages <- SomeMessages
    Configured = {TRUE, FALSE}
    Limit = 2
    Window = 2
    MaxCardTime = 2
    MaxSubmits = 3
INVARIANTS SandboxIsSound ControlPlaneIsSound GatesAreSound IntakeIsSound
CHECK_DEADLOCK FALSE
