SPECIFICATION SpecOfPart
CONSTANTS
  Parts = {"races"}
  u1 = u1  t1 = t1  ps1 = ps1  l1 = l1  s1 = s1  s2 = s2  s3 = s3
  w1 = w1  w2 = w2  deleted = deleted  revoked = revoked  None = None
  Users = {u1}
  Tenants = {t1}
  Memberships <- MCMemberships
  ProviderSessions = {ps1}
  Logins = {l1}
  Sessions = {s1, s2, s3}
  Events = {deleted, revoked}
  EventType <- MCEventType
  EventSubject <- MCEventSubject
  Workers = {w1, w2}
  IdleTimeout = 1
  AbsoluteTimeout = 2
  LoginTimeout = 1
  MaxClock = 2
  People <- MCPeople
  Cards = {"c1", "c2"}
  Grants = {"g1", "g2", "g3"}
  GrantOf <- MCGrantOf
  Member <- MCMember
  Outsiders = {"outsider"}
  Requests <- MCRequests
  Environments <- MCEnvironments
  MaxRequests = 2
  MaxChanges = 1
INVARIANT GrantsCarryThePermission
