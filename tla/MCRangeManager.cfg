SPECIFICATION FairSpec
CONSTANTS
  t1 = t1
  t2 = t2
  t3 = t3
  k1 = k1
  k2 = k2
  None = None
  Transaction <- MCTransaction
  Channel <- MCChannel
  Key <- MCKey
  LoadLow = 50
  LoadMid = 200
  LoadMax = 5000
  ClientsMid = 50
  ClientsHigh = 100
  ContentionMid = 0
  ContentionHigh = 1
  Scenarios <- MCScenarios
INVARIANTS
  HoldsLock
  NoLostUpdate
  NoPanic
  DirtyReadsAreDependencies
  WalFollowsDependencies
  FinishedLeavesNothing
PROPERTIES
  EveryTransactionEnds
