SPECIFICATION FairSpec
CONSTANTS
  t1 = t1
  t2 = t2
  t3 = t3
  t4 = t4
  r1 = r1
  r2 = r2
  None = None
  Transaction <- MCTransaction
  ParticipantRange <- MCRange
  Workloads <- MCWorkloads
  MaxFaults = 2
INVARIANTS
  NoPanic
  AppliedOnce
  DoneMeansApplied
  SoleDependencyFirst
PROPERTIES
  EveryTransactionCommits
