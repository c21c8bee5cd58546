SPECIFICATION FairSpec
CONSTANTS
  gsc = gsc
  ga4 = ga4
  scheduled = scheduled
  on_demand = on_demand
  s1 = s1
  s2 = s2
  p1 = p1
  p2 = p2
  Connections = {gsc, ga4}
  Kinds = {scheduled}
  Windows = {"week"}
  DaysOf <- OneWindow
  Pages <- OnePage
  TrafficPages = {"source_medium"}
  ReferralPages = {}
  Syncers = {s1}
  Projectors = {p1}
  Gone = Gone
  Owners = {s1, p1, Gone}
  NoOwner = NoOwner
  MaxAttempts = 2
  MaxRuns = 2
  MaxVersion = 0
  MaxFaults = 0
PROPERTY RowsReachTraffic
CHECK_DEADLOCK FALSE
