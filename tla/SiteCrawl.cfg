SPECIFICATION FairSpec
CONSTANTS
  home = home
  page = page
  a1 = a1
  b1 = b1
  procA = procA
  procB = procB
  Pages = {home, page}
  Root = home
  Links <- HomeLinksToAll
  Scenarios <- Crawls
  Slots = {a1, b1}
  Owners = {procA, procB}
  NoOwner = NoOwner
  NoTask = NoTask
  NoRequest = NoRequest
  OwnerOf <- OnePerProcess
  Mortal = {procA}
  MaxGeneration = 1
  MaxAttempts = 2
INVARIANTS TypeOK 
PROPERTIES CrawlSettles NothingAfterTheEnd EndIsTruthful
CHECK_DEADLOCK FALSE
