\* The cleanup sensor inspects the report just before the merge intent is written.
SPECIFICATION Spec
CONSTANTS
  r1 = r1
  Other = Other
  Runs = {r1}
  Strict = FALSE
  StaleRuns = {r1}
  Reexecuted = {}
  LateWriters = {}
  MayReview = FALSE
  Faults = {}
  MaxTarget = 1
  MaxWrites = 2
  MaxChecks = 1
  Outcomes <- OnlyFail
INVARIANTS
  IntentRetainsBranch
CHECK_DEADLOCK FALSE
