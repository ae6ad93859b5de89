SPECIFICATION Spec
CONSTANTS
  Modes = {"open_loop"}
  WarmupRequests = 1
  MeasuredRequests = 1
INVARIANTS
  EvidencePreserved
