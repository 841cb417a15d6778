SPECIFICATION FairSpec
CONSTANTS
  t1 = t1
  t2 = t2
  t3 = t3
  a = a
  b = b
  s1 = s1
  s2 = s2
  None = None
  Transaction <- MCTransaction
  Channel <- MCChannel
  Key <- MCKey
  Server <- MCServer
  LoadLow = 50
  LoadMid = 200
  LoadMax = 5000
  ClientsMid = 50
  ClientsHigh = 100
  ContentionMid = 20
  ContentionHigh = 40
  Scenarios <- MCScenarios
  Strategies = {"Traditional", "Adaptive"}
  Loads = {0, 5000}
INVARIANTS
  Atomic
  Recoverable
  Serializable
PROPERTIES
  EveryTransactionEnds
