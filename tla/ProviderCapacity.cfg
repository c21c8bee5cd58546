SPECIFICATION FairSpec
CONSTANTS
  w1 = w1
  w2 = w2
  w3 = w3
  byok1 = byok1
  byok2 = byok2
  fund1 = fund1
  fund2 = fund2
  transport = transport
  connection = connection
  fundedGlobal = fundedGlobal
  fundedAccount = fundedAccount
  Workers = {w1, w2}
  Attempts = {fund1, fund2}
  Pools = {transport, fundedGlobal, fundedAccount}
  Transport = transport
  Draws <- MCDraws
  Funded = {fund1, fund2}
  Ceiling <- MCCeiling
  Configured = TRUE
  Burst = 1
  Rate = 1
  LeaseTTL = 3
  CallTimeout = 1
  MaxCooldown = 1
  Mortal = {w2}
  NoAttempt = NoAttempt
  Free = Free
  MaxClock = 3
  MaxWait = 1
INVARIANTS CeilingRespected
PROPERTIES StartsAccounted CooldownsHold TransactionsEnd
CHECK_DEADLOCK FALSE
