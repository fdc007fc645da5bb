\* An upgrade, a backup and two rival snapshot expiries, applied by two
\* processes that may die anywhere.
SPECIFICATION Spec
CONSTANTS
  u1 = u1
  r1 = r1
  b1 = b1
  m1 = m1
  m2 = m2
  t1 = t1
  w1 = w1
  w2 = w2
  NoOp = NoOp
  Workers = {w1, w2}
  Ops = {u1, b1, m1, m2}
  Targets = {t1}
  Action <- MCAction
  Target <- MCTarget
  Steps <- MCSteps
SYMMETRY Symmetry
INVARIANTS
  JournalTypeOK
  StepsRunOnce
  SubmittedBeforeSteps
  ExclusiveClaim
  RecoveryFitsProgress
PROPERTIES
  ImplementsPromise
