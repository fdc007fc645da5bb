\* Two runs and a foreign writer compete for the target under legacy (unbound)
\* checks; every crash, lost acknowledgement and failed report write.
SPECIFICATION Spec
CONSTANTS
  r1 = r1
  r2 = r2
  Other = Other
  Runs = {r1, r2}
  Strict = FALSE
  StaleRuns = {}
  Reexecuted = {}
  LateWriters = {}
  MayReview = FALSE
  Faults = {}
  MaxTarget = 3
  MaxWrites = 1
  MaxChecks = 1
  Outcomes <- OnlyFail
SYMMETRY Symmetry
INVARIANTS
  OneWinnerPerBase
PROPERTIES
  TargetOnlyAdvances
  ImplementsPublication
CHECK_DEADLOCK FALSE
