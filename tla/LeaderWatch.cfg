SPECIFICATION Spec
CONSTANTS
  Self = self
  Peers = {p1}
  None = None
  Interval = 1
  Patience = 2
  StatsPeriod = 3
  MaxTime = 9
INVARIANT TypeOK
INVARIANT LeaderTimeIsAccurate
PROPERTY ChecksAreEarned
