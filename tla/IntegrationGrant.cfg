SPECIFICATION FairSpec
CONSTANTS
  gsc = gsc
  ga4 = ga4
  w1 = w1
  w2 = w2
  c1 = c1
  c2 = c2
  d1 = d1
  d2 = d2
  k1 = k1
  k2 = k2
  Connections = {gsc, ga4}
  Workers = {w1, w2}
  Callers = {c1}
  Removers = {d1}
  Target <- OneConnectionEach
  Callbacks = {k1}
  Dispatcher = Dispatcher
  Nobody = Nobody
  MaxRuns = 2
  MaxEvents = 1
INVARIANTS TypeOK StoredTokenWorks
PROPERTIES RotationReplacesItself PendingResolves RequestsEnd
CHECK_DEADLOCK FALSE
