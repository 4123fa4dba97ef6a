SPECIFICATION FairSpec
CONSTANTS
  p1 = p1
  f1 = f1
  j1 = j1
  j2 = j2
  Printers <- MCPrinters
  Filaments <- MCFilaments
  Jobs <- MCJobs
  Details <- MCDetails
  Weights <- MCWeights
  IntHalf = 2
  None = None
  Readers = {r1, r2}
  NodeCommands <- MCCommands
INVARIANT TypeOK
INVARIANT NoMapRace
INVARIANT NoLockCycle
PROPERTY ReadsAreAtomic
PROPERTY NobodyStarves
