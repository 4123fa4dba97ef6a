SPECIFICATION Spec
CONSTANTS
  Procs = {p1, p2}
  Boot = p1
  None = None
  NotAPort = NotAPort
  p1 = p1
  p2 = p2
  p3 = p3
  HttpOf <- PatternHttp
  MaxTries = 2
  MaxElections = 3
  MaxStops = 2
  MaxDeletes = 1
CHECK_DEADLOCK FALSE
INVARIANT TypeOK
INVARIANT ServingNodesAreMembers
PROPERTY MembersLeaveByDelete
