SPECIFICATION FairSpec
CONSTANTS
  Requests = 3
  Rate = 3
  Duration = 1
  DrainTimeout = 1
  MaxInFlight = 1
  Phases = {"warmup", "measured"}
  Horizon = 2
INVARIANTS
  InFlightBounded
  ArrivalsAccounted
  DrainEndsRequests
PROPERTIES
  PhaseReturns
  ImplementsContract
