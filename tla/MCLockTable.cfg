SPECIFICATION FairSpec
CONSTANTS
  t1 = t1
  t2 = t2
  t3 = t3
  None = None
  Transaction <- MCTransaction
  Channel <- MCChannel
INVARIANTS
  NoLostRequest
PROPERTIES
  GrantsInOrder
  EveryRequestAnswered
  RefinesRangeLock
