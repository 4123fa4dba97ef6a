SPECIFICATION LedgerSpec
CONSTANTS
  Printers = {p1}
  Filaments = {f1, f2}
  Jobs = {j1, j2, j3}
  Details = {d1}
  Weights <- MCWeights
  IntHalf = 4
  None = None
SYMMETRY Symmetry
INVARIANT TypeOK
INVARIANT NoOverdraft
INVARIANT RetriedUpdateIsHarmless
INVARIANT FilamentLedger
PROPERTY OnlyFinishedPrintsConsume
