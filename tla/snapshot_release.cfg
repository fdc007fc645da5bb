\* The sensor and a helper release overlapping tables while a janitor sweeps
\* and another writer commits to main.
SPECIFICATION Spec
CONSTANTS
  r1 = r1
  r2 = r2
  t1 = t1
  t2 = t2
  None = None
  Sensor = Sensor
  Runs = {r1, r2}
  SensorRuns = {r1}
  Tables = {t1, t2}
  Staged <- BothAndOne
  Written <- OneAndNone
  Foreign = {t1}
  Publishers = {Sensor, helper}
  Janitors = {Sensor, janitor}
  Stale = {r1}
  Discarded = {r2}
  MayReview = TRUE
  MaxCreated = 1
  MaxEvents = 2
INVARIANTS
  SnapTypeOK
  UnfinishedReleaseIsOwned
  ReleasedRowsArePublic
  OutboxBeforeIntent
  MergedIsReleased
PROPERTIES
  RowsNeverLost
  ImplementsPublication
CHECK_DEADLOCK FALSE
