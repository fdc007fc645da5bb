\* Within the retention period, with trusted branch writers and readable
\* files: receipts are stable and every audited run settles.
SPECIFICATION FairSpec
CONSTANTS
  r1 = r1
  Other = Other
  Runs = {r1}
  Strict = FALSE
  StaleRuns = {}
  Reexecuted = {}
  LateWriters = {}
  MayReview = TRUE
  Faults = {}
  MaxTarget = 3
  MaxWrites = 2
  MaxChecks = 1
  Outcomes <- PassOrFail
INVARIANTS
  IntentBeforePublication
  IntentRetainsBranch
  NoOrphanQueryCatalog
  PromotedBranchIsGone
PROPERTIES
  ReceiptSurvives
  AuditedRunSettles
CHECK_DEADLOCK FALSE
