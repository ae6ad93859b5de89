SPECIFICATION Spec
CONSTANTS
  MaxFrame = 4
  Horizon = 1
  MaxContentChunks = 3
  MaxPeerChunks = 3
INVARIANTS
  StreamVerdict
  ITLProven
  FixtureVerdict
  EvidenceKept
  FrameBounded
  GapsSpanContent
PROPERTIES
  ObservationSealed
  RequestEnds
CHECK_DEADLOCK FALSE
