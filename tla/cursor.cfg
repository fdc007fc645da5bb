\* One run, a clock long enough for it to leave the window again, ticks that
\* die anywhere and a row that becomes visible one instant late.
SPECIFICATION FairSpec
CONSTANTS
  r1 = r1
  Runs = {r1}
  Rewind = 2
  ColdStart = 2
  MaxLag = 1
  MaxNow = 5
INVARIANTS
  TypeOK
  NoRunSkipped
PROPERTIES
  EveryRunEvaluated
CHECK_DEADLOCK FALSE
