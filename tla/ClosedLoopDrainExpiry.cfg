SPECIFICATION Spec
CONSTANTS
  Concurrency = 1
  Requests = 1
  Plans = {"timed"}
INVARIANTS
  DrainExpiryCancelsOutstanding
