SPECIFICATION Spec
CONSTANTS
  Modes = {"closed_loop", "open_loop"}
  WarmupRequests = 2
  MeasuredRequests = 2
INVARIANTS
  TransitionsLegal
  MeasurementStartsClean
  PublishedStatusIsHonest
