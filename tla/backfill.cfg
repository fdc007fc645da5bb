SPECIFICATION FairSpec
CONSTANTS
  Dates = {"d1", "d2"}
  Entries = {1, 2, 3}
  DateOf <- MCDateOf
  Lists <- MCLists
  MaxPollFailures = 2
  MaxLaunch = 3
  Parallel = 1
INVARIANTS
  BackfillTypeOK
  CompletedDelivered
  FileCoversPlan
  OneRunPerPartition
  SerializedPromotion
PROPERTIES
  RemovedWhenDelivered
  InvocationEnds
CHECK_DEADLOCK FALSE
