SPECIFICATION FairSpec
CONSTANTS
  base = base
  other = other
  topup = topup
  extra = extra
  r1 = r1
  r2 = r2
  r3 = r3
  r4 = r4
  r5 = r5
  h1 = h1
  h2 = h2
  Purchases = {base, topup, extra}
  BasePlans = {base}
  Requests = {r1, r2, r3, r5}
  PurchaseOf <- KeyOf
  Handlers = {h1, h2}
  Casts <- RetriedOrQueued
  LastState = 2
  Course <- FallsDue
  BatchSize = 1
  MaxEvents = 2
INVARIANTS OneSettlement GrantsRestOnPayment ProviderCalledOnce
PROPERTY PaidIsSettled
CHECK_DEADLOCK FALSE
