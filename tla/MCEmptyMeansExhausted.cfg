SPECIFICATION Spec
CONSTANTS
  a1 = a1  a2 = a2  a3 = a3
  Account = {a1, a2, a3}
  Cards <- MCCards
  pagesOf <- MCPagesOf
  Concurrency = 2
  MaxTargets = 3
  MaxLost = 1
  Everything = Everything
INVARIANTS
  EmptyMeansExhausted
