SPECIFICATION Spec
CONSTANTS
  a1 = a1
  a2 = a2
  r1 = r1
  r2 = r2
  s1 = s1
  c1 = c1
  c2 = c2
  c3 = c3
  Account = {a1, a2}
  Cred = {r1, r2, s1}
  Caller = {c1, c2, c3}
  Fingerprint <- MCFingerprint
  fingerprintOf <- MCFingerprintOf
  accountOf <- MCAccountOf
  Lifetimes = {2}
  DefaultLifetime = 2
  RefreshSkew = 1
  MaxTime = 1
  NoToken = NoToken
  NoEntry = NoEntry
  NoCaller = NoCaller
  NoAccount = NoAccount
SYMMETRY Callers
INVARIANTS
  OneFlightPerAccount
  TokenOfOwnAccount
  OnlyJoinersGetForeignTokens
  NoRedundantRefresh
PROPERTIES
  KeepsPromise
