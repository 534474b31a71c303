SPECIFICATION Spec
CONSTANTS
  u1 = u1  u2 = u2
  i1 = i1  i2 = i2  i3 = i3
  g1 = g1  g2 = g2
  r1 = r1  r2 = r2  r3 = r3  r4 = r4
  User = {u1, u2}
  Sub = {g1, g2}
  AcctId = {i1, i2, i3}
  Cred = {r1, r2, r3, r4}
  subOf <- MCSubOf
  Req = {p1, p2}
  Ops <- MCOps
  MaxAccounts = 2
  Orders <- MCOrders
  Seeds <- MCSeeds
  NoRow = NoRow
  NoId = NoId
  NoUser = NoUser
  NoCred = NoCred
SYMMETRY Requests
INVARIANTS
  UniqueIdentity
  CredOfIdentity
  LoneReorderTakesEffect
PROPERTIES
  RowsChangeForTheirOwner
  LoneLinkNeverNarrows
  KeepsVault
