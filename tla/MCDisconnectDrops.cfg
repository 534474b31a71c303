SPECIFICATION LSpec
CONSTANTS
  a1 = a1
  r1 = r1
  r2 = r2
  Account = {a1}
  Cred = {r1, r2}
  Caller = {c1, c2}
  Fingerprint <- MCFingerprint
  fingerprintOf <- MCFingerprintOf
  accountOf <- MCAccountOf
  Lifetimes = {2}
  DefaultLifetime = 2
  RefreshSkew = 1
  MaxTime = 1
  NoToken = NoToken
  NoEntry = NoEntry
  NoCaller = NoCaller
  NoAccount = NoAccount
INVARIANTS
  DisconnectDropsToken
