SPECIFICATION Spec
CONSTANTS
  s1 = s1
  s2 = s2
  Schedulers = {s1, s2}
  Mortal = {s1}
  Cadence = "daily"
  Period = 2
  LeaseTTL = 1
  RetryDelay = 1
  MaxFailures = 2
  ActiveLimit = 2
  Nobody = Nobody
  MaxClock = 4
  MaxOthers = 1
  MaxEdits = 1
  MaxErrors = 1
INVARIANTS NoRunSkipped
CHECK_DEADLOCK FALSE
