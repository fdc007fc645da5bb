\* A pending promotion leaves the scan window before it is retried.
SPECIFICATION RetrySpec
CONSTANTS
  r1 = r1
  Runs = {r1}
  Rewind = 2
  ColdStart = 2
  MaxLag = 1
  MaxNow = 5
PROPERTIES
  PendingIsRetried
CHECK_DEADLOCK FALSE
