SPECIFICATION Spec
CONSTANTS
  Points = 1
  Faults = {}
INVARIANTS
  InterruptedSweepPublished
