SPECIFICATION MCSpec
CONSTANTS
  Session = {s1, s2}
  User = {u1, u2}
  Email = {e1, e2}
  Req = {p1, p2, p3}
  TTL = 4
  TouchInterval = 1
  Base = 2
  Digits = 2
  PerSecond = 4
  MinTime = 2
  MaxTime = 6
  NoRow = NoRow
  NoUser = NoUser
  NoSession = NoSession
  NoEmail = NoEmail
  b1 = b1  b2 = b2  g1 = g1  g2 = g2  a1 = a1
  v1 = v1  v2 = v2  t1 = t1  t2 = t2
  Browser = {b1, b2}
  Home = {b1}
  Trip = {t1, t2}
  Visit = {v1, v2}
  Profile = {g1, g2}
  Account = {a1}
  MaxMishaps = 1
  ownerOf <- MCOwnerOf
  googleOf <- MCGoogleOf
  NoTrip = NoTrip  NoVisit = NoVisit  Nobody = Nobody  NoAccount = NoAccount
SYMMETRY MCSymmetry
CHECK_DEADLOCK FALSE
INVARIANTS
  EndedStaysEnded
  SessionOfItsUser
  OwnRoundTrip
  LinkStraysOnlyOnCrossing
  StateUsedUp
PROPERTIES
  NeverExtended
  PruneWithinASecond
  InvalidOnlyIfDisturbed
