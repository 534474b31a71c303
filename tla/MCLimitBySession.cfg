SPECIFICATION RSpec
CONSTANTS
  Server = {s1}
  Client = {c1, c2}
  SignedIn = {c1}
  Ip = {x, y}
  Max = 1
  Window = 2
  NoServer = NoServer  NoIp = NoIp
PROPERTIES
  SignedInKeyedBySession
