SPECIFICATION FairSpec
CONSTANTS
  Procs = {p1, p2, p3}
  Boot = p1
  None = None
  NotAPort = NotAPort
  p1 = p1
  p2 = p2
  p3 = p3
  HttpOf <- MixedHttp
  MaxTries = 2
  MaxElections = 2
  MaxStops = 0
  MaxDeletes = 0
CHECK_DEADLOCK FALSE
PROPERTY JoinEnds
INVARIANT ServingNodesAreMembers
