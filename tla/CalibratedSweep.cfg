SPECIFICATION CalibrationSpec
CONSTANTS
  Points = 3
  Faults = {"begin", "prepare", "static", "write", "rename", "remove", "read"}
  Readings = {1, 2}
  MaxTicks = 2
INVARIANTS
  EvidenceRecorded
  RefusalExplained
  NothingLeftBehind
  CalibrationAccepted
  CalibratedIsComplete
  EvidenceCoversSamples
PROPERTIES
  ImplementsStore
