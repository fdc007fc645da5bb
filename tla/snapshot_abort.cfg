\* A helper promotes a run while a janitor aborts its candidates.
SPECIFICATION Spec
CONSTANTS
  r1 = r1
  r2 = r2
  t1 = t1
  t2 = t2
  None = None
  Sensor = Sensor
  Runs = {r1, r2}
  SensorRuns = {}
  Tables = {t1, t2}
  Staged <- BothAndOne
  Written <- OneAndNone
  Foreign = {t1}
  Publishers = {Sensor, helper}
  Janitors = {Sensor, janitor}
  Stale = {r1}
  Discarded = {r1, r2}
  MayReview = FALSE
  MaxCreated = 1
  MaxEvents = 1
PROPERTIES
  DroppedNeverPromoted
CHECK_DEADLOCK FALSE
