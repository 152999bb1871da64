SPECIFICATION PodsSpec
CONSTANTS
  Named = TRUE
  a1 = a1  a2 = a2  once = once  twice = twice  loop = loop  segment = segment  other = other  item = item
  p1 = p1  p2 = p2
  Accounts = {a1}
  Kinds = {once, twice}
  MatchedAccounts = {a1}
  WorkersReadIds = TRUE
  Ticks = {1, 2}
  Handlers = {1}
  PageSize = 2
  HungAfter = 3
  ClaimTTL = 3
  MaxAge = 3
  MaxRows = 1
  MaxCount = 3
  MaxLive = 2
  Unlimited = 1000
  Faults = {}
  MaxFaults = 0
  PassTime = 2
  SlowRuns = FALSE
  Desired <- MCDesired
  Threshold <- MCThreshold
  Interval <- MCInterval
  Alt <- MCAlt
  Requires <- MCRequires
  Holds <- MCHolds
  Pod <- TwoPods
INVARIANTS ClaimExclusive
PROPERTIES IntervalRespected
