SPECIFICATION QFairSpec
CONSTANTS
  a1 = a1  a2 = a2  a3 = a3
  Account = {a1, a2, a3}
  Cards <- MCCards
  pagesOf <- MCPagesOf
  Concurrency = 2
  MaxTargets = 2
  MaxLost = 1
  Everything = Everything
  Folder = {f1, f2, f3, f4}
  Opened = {f1, f2, RootAlias}
  drive = a1
  MaxPathDepth = 3
  RootAlias = RootAlias  Top = Top  NoFolder = NoFolder
  Name = {1, 2}
  Time = {1, 2}
  Size = {0}
  Email = {1, 2}
  Id = {1, 2}
  MaxFiles = 3
  Amount = {0, 1, 3}
  MaxViews = 3
  Unlimited = Unlimited
  NoQuota = NoQuota
  MaxAttempts = 4
  Dir = {dest, start, other}
  Dest = dest
  Start = start
  Mine = mine  Theirs = theirs  Old = old
CHECK_DEADLOCK FALSE
INVARIANTS
  PagesInTurn
  NothingMissingInSilence
  PathWellFormed
  TotalsAddUp
  FreeNeverOverstated
  ReadsAsOneList
  CreatedAtMostOnce
  OkMeansDone
  UnretriedAnswerIsFinal
  LoneChangeTakesEffect
PROPERTIES
  RequestAnswered
  SilentAfterExpiry
  HandlerEnds
