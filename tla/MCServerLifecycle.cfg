SPECIFICATION FairSpec
CONSTANTS
  Server = {s1, s2}
  Client = {c1}
  SignedIn = {c1}
  Ip = {x, y}
  Max = 1
  Window = 2
  Version = {1, 2}
  Repeatable = {2}
  MaxMishaps = 2
  NoServer = NoServer  NoIp = NoIp
INVARIANTS
  BurstBounded
  SchemaInOrder
  ServesMigrated
PROPERTIES
  ComesUp
