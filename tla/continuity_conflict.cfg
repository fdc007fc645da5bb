\* An upgrade and a restore of one deployment.
SPECIFICATION Spec
CONSTANTS
  u1 = u1
  r1 = r1
  b1 = b1
  m1 = m1
  m2 = m2
  t1 = t1
  w1 = w1
  w2 = w2
  NoOp = NoOp
  Workers = {w1, w2}
  Ops = {u1, r1}
  Targets = {t1}
  Action <- MCAction
  Target <- MCTarget
  Steps <- MCSteps
INVARIANTS
  OneOperationPerTarget
