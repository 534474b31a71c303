SPECIFICATION SessionSpec
CONSTANTS
  Session = {s1, s2}
  User = {u1, u2}
  Email = {e1, e2}
  Req = {p1}
  TTL = 4
  TouchInterval = 1
  Base = 2
  Digits = 2
  PerSecond = 4
  MinTime = 2
  MaxTime = 6
  NoRow = NoRow
  NoUser = NoUser
  NoSession = NoSession
  NoEmail = NoEmail
CHECK_DEADLOCK FALSE
PROPERTIES
  SweepsOnlyExpired
