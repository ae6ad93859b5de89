SPECIFICATION FairSpec
CONSTANTS
  Concurrency = 2
  Requests = 2
  Plans = {"warmup", "measured", "timed"}
INVARIANTS
  TypeOK
  ClaimsConserved
  FinalRequestAfterBoundary
  DrainedOnReturn
  CancellationReported
  CancellationReachesRequests
PROPERTIES
  PhaseReturns
  ImplementsContract
