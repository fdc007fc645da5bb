\* The event log fails while a merged run whose branch was written again is replayed.
SPECIFICATION Spec
CONSTANTS
  r1 = r1
  Other = Other
  Runs = {r1}
  Strict = FALSE
  StaleRuns = {}
  Reexecuted = {}
  LateWriters = {r1}
  MayReview = FALSE
  Faults <- EventLogFault
  MaxTarget = 1
  MaxWrites = 2
  MaxChecks = 1
  Outcomes <- PassOrFail
PROPERTIES
  PromotionKeepsUnpublished
CHECK_DEADLOCK FALSE
