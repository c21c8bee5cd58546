SPECIFICATION FairSpec
CONSTANTS
  t1 = t1
  t2 = t2
  a1 = a1
  a2 = a2
  b1 = b1
  procA = procA
  procB = procB
  Tasks = {t1}
  Slots = {a1, a2, b1}
  Owners = {procA, procB}
  NoOwner = NoOwner
  NoTask = NoTask
  Nobody = Nobody
  OwnerOf <- TwoProcesses
  SweepBatch = 1
  MaxAttempts = 2
INVARIANTS AttemptsWithinBudget
PROPERTIES OnlyTheHolderWrites RefinesLifecycle LeasesEnd
CHECK_DEADLOCK FALSE
