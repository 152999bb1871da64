SPECIFICATION FairSpec
CONSTANTS
  Named = TRUE
  a1 = a1  a2 = a2  once = once  twice = twice  loop = loop  segment = segment  other = other  item = item
  p1 = p1  p2 = p2
  Accounts = {a1}
  Kinds = {once, loop}
  MatchedAccounts = {a1}
  WorkersReadIds = TRUE
  Ticks = {1}
  Handlers = {1}
  PageSize = 2
  HungAfter = 2
  ClaimTTL = 2
  MaxAge = 2
  MaxRows = 1
  MaxCount = 2
  MaxLive = 2
  Unlimited = 1000
  Faults = {"abort", "redeliver", "lost", "retry", "accounts"}
  MaxFaults = 1
  PassTime = 1
  SlowRuns = TRUE
  Desired <- MCDesired
  Threshold <- MCThreshold
  Interval <- MCInterval
  Alt <- MCAlt
  Requires <- MCRequires
  Holds <- MCHolds
  Pod <- OnePod
PROPERTIES ExhaustedIsDeleted OrphanIsDeleted ProcessingEnds PendingIsRun
