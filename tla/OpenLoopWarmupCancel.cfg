SPECIFICATION Spec
CONSTANTS
  Requests = 1
  Rate = 1
  Duration = 1
  DrainTimeout = 1
  MaxInFlight = 1
  Phases = {"warmup"}
  Horizon = 2
INVARIANTS
  WarmupCancellationReported
