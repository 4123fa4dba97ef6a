SPECIFICATION FairSpec
CONSTANTS
  Nodes = {n1, n2, n3}
  Requests = {r1}
  MaxTerm = 2
  MaxCrashes = 2
  ClientCommands <- OnlyStart
  p1 = p1  f1 = f1  j1 = j1  d1 = d1
  Printers <- MCPrinters
  Filaments <- MCFilaments
  Jobs <- MCJobs
  Details <- MCDetails
  Weights <- MCWeights
  IntHalf = 4
  None = None
CHECK_DEADLOCK FALSE
PROPERTY EveryCallReturns
PROPERTY ReplicasCatchUp
