SPECIFICATION Spec
CONSTANTS
  Nodes = {n1, n2}
  Requests = {r1, r2}
  MaxTerm = 2
  MaxCrashes = 2
  ClientCommands <- PostAndStart
  p1 = p1  f1 = f1  j1 = j1  d1 = d1
  Printers <- MCPrinters
  Filaments <- MCFilaments
  Jobs <- MCJobs
  Details <- MCDetails
  Weights <- MCWeights
  IntHalf = 4
  None = None
CHECK_DEADLOCK FALSE
SYMMETRY Symmetry
INVARIANT ReplicasFollowLog
INVARIANT SnapshotsFollowLog
INVARIANT NoCallIsForgotten
PROPERTY ImplementsService
