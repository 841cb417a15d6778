SPECIFICATION FairSpec
CONSTANTS
  None = None
  c1 = c1
  c2 = c2
  low = low
  high = high
  ClientCall <- MCCall
  Key <- MCKey
  Rank <- MCRank
  Hex <- MCHex
  PublicCloud = {"AWS", "AZURE", "GCP"}
  Creation <- MCCreation
  Requests <- MCRequests
  HandlerErrors = {"RangeIsNotLoaded", "TransactionAborted"}
  MaxKeyspaces = 2
  MaxCrashes = 1
INVARIANTS
  RoutedAsCreated
  NeverOutOfRange
PROPERTIES
  EveryCallEnds
