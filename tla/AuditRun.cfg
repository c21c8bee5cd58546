SPECIFICATION FairSpec
CONSTANTS
  t1 = t1
  t2 = t2
  a1 = a1
  b1 = b1
  procA = procA
  procB = procB
  Tasks = {t1, t2}
  Slots = {a1, b1}
  Owners = {procA, procB}
  NoOwner = NoOwner
  NoTask = NoTask
  OwnerOf <- OnePerProcess
  Funded = {t1}
  Mortal = {procA}
  MaxStalls = 1
  MaxErrors = 1
  MaxAttempts = 2
INVARIANTS TypeOK  OutcomesRestOnEvidence CreditsConserved
PROPERTIES NothingRecordedAfterTheEnd KeepsLifecycle AuditEnds
CHECK_DEADLOCK FALSE
