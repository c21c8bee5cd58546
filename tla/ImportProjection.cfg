SPECIFICATION FairSpec
CONSTANTS
  gsc = gsc
  ga4 = ga4
  scheduled = scheduled
  on_demand = on_demand
  s1 = s1
  s2 = s2
  p1 = p1
  p2 = p2
  Connections = {ga4}
  Kinds = {scheduled}
  Windows = {"week"}
  DaysOf <- OneWindow
  Pages <- GA4Pages
  TrafficPages = {"source_medium"}
  ReferralPages = {"referrer", "source_medium"}
  Syncers = {s1, s2}
  Projectors = {p1}
  Gone = Gone
  Owners = {s1, s2, p1, Gone}
  NoOwner = NoOwner
  MaxAttempts = 2
  MaxRuns = 2
  MaxVersion = 1
  MaxFaults = 1
INVARIANTS PagesImportedOnce SucceededIsComplete HigherRevisionIsNewer
PROPERTIES OwnRefreshReachesTraffic ReferralsAreClassified
CHECK_DEADLOCK FALSE
