SPECIFICATION Spec
CONSTANTS
  t1 = t1
  t2 = t2
  p1 = p1
  p2 = p2
  trial = trial
  plan = plan
  Tasks = {t1, t2}
  Planners = {p1, p2}
  Grants = {trial, plan}
  DrawOrder <- MCDrawOrder
  Value <- MCValue
  MaxAttempts = 2
  Free = Free
  NoTask = NoTask
  NoTx = NoTx
INVARIANTS ReleasesAccounted NoOverdraft
CHECK_DEADLOCK FALSE
