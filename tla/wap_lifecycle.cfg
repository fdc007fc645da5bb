\* One run with everything that can happen to it: retention, re-execution,
\* late writers, unreadable reports and catalog; strict binding.
SPECIFICATION Spec
CONSTANTS
  r1 = r1
  Other = Other
  Runs = {r1}
  Strict = TRUE
  StaleRuns = {r1}
  Reexecuted = {r1}
  LateWriters = {r1}
  MayReview = FALSE
  Faults <- ReadFaults
  MaxTarget = 2
  MaxWrites = 2
  MaxChecks = 1
  Outcomes <- PassOrFail
INVARIANTS
  TypeOK
  AuditedPublication
  ReceiptsAreTruthful
  NoActiveBranchDeleted
PROPERTIES
  PromotionKeepsUnpublished
CHECK_DEADLOCK FALSE
