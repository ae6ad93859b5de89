SPECIFICATION Spec
CONSTANTS
  Invocations <- MCBench
  Files <- MCWarmFiles
  Flaggings <- MCNoFlags
  Environments <- MCEnvironments
  Observations <- MCObservations
  Lags <- MCLags
  Precision = 7
  Second = 8
  RateUnit = 64
  MaxInt = 12
  Probes = 1
  Atoms = 1
  Fragments = 1
  MaxCount = 3
  Lengths = {0, 3, 4}
INVARIANTS
  EveryRequestSucceeds
