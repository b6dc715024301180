SPECIFICATION SpecOfPart
CONSTANTS
  Parts = {"submissions", "publish", "dispatch"}
  sub1 = sub1  retry = retry  reuse = reuse  other = other  invalid = invalid
  k1 = k1  k2 = k2  k3 = k3
  t1 = t1  c1 = c1  c2 = c2  p1 = p1  p2 = p2  good = good
  voice = voice  callback = callback  any = any  r1 = r1  s1 = s1  s2 = s2  a1 = a1
  Submissions = {sub1, retry, reuse, other, invalid}
  Keys = {k1, k2, k3}
  KeyOf <- SomeKeyOf
  HashOf <- SomeHashOf
  Valid = {sub1, retry, reuse, other}
  Transactional = TRUE
  None = None
INVARIANTS OneReleasePerKey RetryFindsResult 
PROPERTIES PublishEnds TransactionsEnd
CHECK_DEADLOCK FALSE
